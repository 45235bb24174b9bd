---------------------------- MODULE ExpenseReview ----------------------------
(***************************************************************************)
(* One expense, its entry in the review queue and the requests that edit,  *)
(* delete and judge it at the same time (services/expenses.py,             *)
(* services/review_queue.py, services/expense_write.py).                   *)
(*                                                                         *)
(* Every request reads rows without locks, works on its copy and commits   *)
(* once (app/database.py).  The copy is SQLAlchemy's: an UPDATE writes the *)
(* columns that differ from what was read, over whatever is committed by   *)
(* then.  PostgreSQL's part is external: an UPDATE waits for the row's     *)
(* writer, and a check that fails ends the transaction.                    *)
(*                                                                         *)
(* The audit rows are not shown: no request reads them back.  A refused    *)
(* request changes nothing and is not shown either.  A request that        *)
(* writes the queue row does so in its last step: no other step of it sees *)
(* the queue row again.                                                    *)
(***************************************************************************)
EXTENDS GstSplit, FiniteSets

CONSTANTS
    Requests,       \* requests served at one time
    MaxStarts,      \* bound: requests in a behaviour
    Amounts,        \* inclusive amounts that are captured, in cents
    Cents,          \* the amounts the split is evaluated for
    Gates,          \* the sets of reasons an expense is created with
    Patches,        \* the PATCH bodies that are sent
    Jobs, ActiveJobs,
    Nobody          \* no request has the row

Statuses == {"pending", "reviewed", "rejected"}
Payments == {"cash", "transfer", "unknown"}
Reasons == {"amount_uncertain", "unsupported_currency", "job_uncertain",
            "duplicate_suspected"}

Expense == [job : Jobs, inc : Nat, ex : Int, gst : Int, pay : Payments, st : Statuses]
Queue == [st : {"none", "open", "resolved", "rejected"}, reasons : SUBSET Reasons]

Money == {"inc", "ex", "gst", "pay"}
Fields == Money \cup {"job", "st"}

\* ExpenseUpdate: the fields that were sent (model_fields_set), and their values.
Patch == [set : SUBSET Fields, to : Expense]

ASSUME ReviewAssumption ==
    /\ ActiveJobs \subseteq Jobs
    /\ Jobs # {}
    /\ Nobody \notin Requests
    /\ MaxStarts \in Nat
    /\ Amounts \subseteq Nat \ {0}
    /\ Cents \subseteq Nat
    /\ Gates \subseteq SUBSET Reasons
    /\ Patches \subseteq Patch
    /\ \A p \in Patches : "inc" \in p.set => p.to.inc # 0

VARIABLES
    expense,        \* the committed row
    queue,          \* its committed review-queue row
    lock,           \* the request whose UPDATE has the expense row
    req,            \* the requests
    starts,         \* requests so far
    fixed,          \* reasons that committed corrections have settled
    marks           \* what has happened: see Marks

vars == <<expense, queue, lock, req, starts, fixed, marks>>

\* manual: a PATCH set review_status.  approved: somebody resolved the queue row.
\* raced: money was written over money the request had not seen.  loose: a request
\* that had no lock took reasons away.
Marks == {"manual", "approved", "raced", "loose"}

Request ==
    [pc : {"idle", "read", "flushed", "queued", "decided"},
     act : {"edit", "delete", "resolve", "reject"},
     admin : {"yes", "no"},
     patch : Patch,
     saw : Expense,         \* the expense as it was read
     sawq : Queue]          \* the queue row as it was read

TypeOK ==
    /\ expense \in Expense
    /\ queue \in Queue
    /\ lock \in Requests \cup {Nobody}
    /\ req \in [Requests -> Request]
    /\ starts \in Nat
    /\ fixed \subseteq Reasons
    /\ marks \subseteq Marks

NoExpense == [job |-> CHOOSE j \in Jobs : TRUE, inc |-> 0, ex |-> 0, gst |-> 0,
              pay |-> "unknown", st |-> "pending"]
NoQueue == [st |-> "none", reasons |-> {}]
NoPatch == [set |-> {}, to |-> NoExpense]
A(pc, act, admin, patch, saw, sawq) ==
    [pc |-> pc, act |-> act, admin |-> admin, patch |-> patch, saw |-> saw, sawq |-> sawq]
Idle == A("idle", "edit", "no", NoPatch, NoExpense, NoQueue)

\* create_expense: reviewed, or pending with the reasons that gate it.
Created(job, inc, pay, why) ==
    [job |-> job, inc |-> inc, ex |-> compute_gst_split(inc, pay).ex,
     gst |-> compute_gst_split(inc, pay).gst, pay |-> pay,
     st |-> IF why = {} THEN "reviewed" ELSE "pending"]

Init ==
    /\ \E job \in ActiveJobs, inc \in Amounts, pay \in Payments, why \in Gates :
          /\ expense = Created(job, inc, pay, why)
          /\ queue = [st |-> IF why = {} THEN "none" ELSE "open", reasons |-> why]
    /\ lock = Nobody
    /\ req = [r \in Requests |-> Idle]
    /\ starts = 0
    /\ fixed = {}
    /\ marks = {}

-----------------------------------------------------------------------------
(* What a request makes of the expense it read. *)

\* The fields in pick from x, the others from y.
Combine(pick, x, y) ==
    [job |-> IF "job" \in pick THEN x.job ELSE y.job,
     inc |-> IF "inc" \in pick THEN x.inc ELSE y.inc,
     ex |-> IF "ex" \in pick THEN x.ex ELSE y.ex,
     gst |-> IF "gst" \in pick THEN x.gst ELSE y.gst,
     pay |-> IF "pay" \in pick THEN x.pay ELSE y.pay,
     st |-> IF "st" \in pick THEN x.st ELSE y.st]

Patched(q) == Combine(q.patch.set, q.patch.to, q.saw)

Override(q, f) == IF f \in q.patch.set THEN q.patch.to[f] ELSE NoCents

\* reconcile_money_fields: only a patch of a money field moves the split.
Reconciled(q) ==
    LET x == Patched(q)
        split == reconcile_gst_split(x.inc, Override(q, "ex"), Override(q, "gst"), x.pay)
    IN  IF q.patch.set \cap Money = {} THEN x
        ELSE [x EXCEPT !.ex = split.ex, !.gst = split.gst]

Status(q) ==
    IF q.act = "edit" THEN Patched(q).st
    ELSE IF q.act = "resolve" THEN "reviewed" ELSE "rejected"

\* The listener before the flush of a row an attribute of which was set.
_compute_gst_split(x) ==
    LET split == compute_gst_split(x.inc, x.pay)
    IN  IF x.pay = "cash" THEN [x EXCEPT !.ex = split.ex, !.gst = split.gst] ELSE x

Target(q) == _compute_gst_split([Reconciled(q) EXCEPT !.st = Status(q)])

\* The columns the UPDATE writes.
Changed(q) == {f \in Fields : Target(q)[f] # q.saw[f]}

\* The row with them.
Merged(q) == Combine(Changed(q), Target(q), expense)

Moves(q) == "job" \in q.patch.set /\ q.patch.to.job # q.saw.job

\* EditForbidden, ExpenseValidationError, a delete of what is deleted.
Allowed(q) ==
    /\ q.admin = "no" => q.saw.st = "pending" /\ "st" \notin q.patch.set /\ ~Moves(q)
    /\ Moves(q) => q.patch.to.job \in ActiveJobs
    /\ q.patch.set \cap Money # {} =>
          Reconcilable(Patched(q).inc, Override(q, "ex"), Override(q, "gst"),
                       Patched(q).pay)
    /\ q.act = "delete" => q.saw.st # "rejected"

\* _money_reasons_cleared_by_patch
Cleared(set) ==
    (IF "inc" \in set THEN {"amount_uncertain", "unsupported_currency"} ELSE {})
    \cup (IF "job" \in set THEN {"job_uncertain"} ELSE {})

\* Whose corrections settle reasons: an administrator's, of a pending row,
\* who leaves the status alone.
Settled(q) ==
    IF q.act = "edit" /\ q.admin = "yes" /\ q.saw.st = "pending" /\ "st" \notin q.patch.set
    THEN Cleared(q.patch.set) ELSE {}

Shrinks(q) == q.sawq.st = "open" /\ Settled(q) \cap q.sawq.reasons # {}

\* Deviation: a correction closes a row that is also a suspected duplicate.
ClosesDuplicate(q) ==
    Shrinks(q) /\ q.sawq.reasons \ {"duplicate_suspected"} \subseteq Settled(q)

Closes(q) == Shrinks(q) /\ q.sawq.reasons \subseteq Settled(q)

-----------------------------------------------------------------------------
(* The steps of a request. *)

Free(r) == lock \in {Nobody, r}

Finish(r) ==
    /\ req' = [req EXCEPT ![r] = Idle]
    /\ lock' = IF lock = r THEN Nobody ELSE lock

Rollback(r) == Finish(r) /\ UNCHANGED <<expense, queue, starts, fixed, marks>>

Begin(r, q) ==
    /\ req[r].pc = "idle"
    /\ starts < MaxStarts
    /\ starts' = starts + 1
    /\ req' = [req EXCEPT ![r] = q]
    /\ UNCHANGED <<expense, queue, lock, fixed, marks>>

\* update_expense, delete_expense: the expense is read.
Read(r, act, admin, p) ==
    LET q == A("read", act, admin, p, expense, NoQueue)
    IN  act \in {"edit", "delete"} /\ Allowed(q) /\ Begin(r, q)

\* resolve, reject: the queue row is read, and must be open.
ReadQueue(r, act, p) ==
    /\ queue.st = "open"
    /\ act \in {"resolve", "reject"}
    /\ Begin(r, A("queued", act, "yes", p, NoExpense, queue))

\* ... and then the expense.
ReadExpense(r) ==
    /\ req[r].pc = "queued"
    /\ IF Allowed([req[r] EXCEPT !.saw = expense])
       THEN /\ req' = [req EXCEPT ![r] = [@ EXCEPT !.pc = "decided", !.saw = expense]]
            /\ UNCHANGED <<expense, queue, lock, starts, fixed, marks>>
       ELSE Rollback(r)

\* Deviation: the queue row is read before the UPDATE takes the expense row.
ReadBeforeFlush(r) ==
    /\ req[r].pc = "read"
    /\ req' = [req EXCEPT ![r] = [@ EXCEPT !.pc = "flushed", !.sawq = queue]]
    /\ UNCHANGED <<expense, queue, lock, starts, fixed, marks>>

\* flush(): the UPDATE, if it has a column to write, waits for the row and is
\* checked on it; then the open queue row is read.
Flush(r) ==
    /\ req[r].pc = "read"
    /\ Changed(req[r]) # {} => Free(r)
    /\ IF Balanced(Merged(req[r])) \/ Changed(req[r]) = {}
       THEN /\ lock' = IF Changed(req[r]) = {} THEN lock ELSE r
            /\ req' = [req EXCEPT ![r] = [@ EXCEPT !.pc = "flushed", !.sawq = queue]]
            /\ UNCHANGED <<expense, queue, starts, fixed, marks>>
       ELSE Rollback(r)

Happens(q) ==
    (IF "st" \in q.patch.set /\ q.act = "edit" THEN {"manual"} ELSE {})
    \cup (IF q.act = "resolve" THEN {"approved"} ELSE {})
    \cup (IF Changed(q) \cap Money # {}
             /\ \E f \in Money : expense[f] # q.saw[f] THEN {"raced"} ELSE {})
    \cup (IF Shrinks(q) /\ Changed(q) = {} THEN {"loose"} ELSE {})

Commit(r) ==
    /\ fixed' = fixed \cup Settled(req[r])
    /\ marks' = marks \cup Happens(req[r])
    /\ Finish(r)
    /\ UNCHANGED starts

\* update_expense ends with _reconcile_open_review_after_edit, whose UPDATE of
\* the status needs the row as well.
CommitEdit(r) ==
    LET q == req[r]
    IN  /\ q.pc = "flushed" /\ q.act = "edit"
        /\ Closes(q) => Free(r)
        /\ expense' = IF Closes(q) THEN [Merged(q) EXCEPT !.st = "reviewed"] ELSE Merged(q)
        /\ queue' = IF Closes(q) THEN [queue EXCEPT !.st = "resolved"]
                    ELSE IF Shrinks(q)
                         THEN [queue EXCEPT !.reasons = q.sawq.reasons \ Settled(q)]
                         ELSE queue
        /\ Commit(r)

\* Deviation: a deleted expense leaves its queue row alone.
DeleteExpenseOnly(r) ==
    LET q == req[r]
    IN  /\ q.pc = "flushed" /\ q.act = "delete"
        /\ expense' = Merged(q)
        /\ UNCHANGED queue
        /\ Commit(r)

CommitDelete(r) ==
    LET q == req[r]
    IN  /\ q.pc = "flushed" /\ q.act = "delete"
        /\ expense' = Merged(q)
        /\ queue' = IF q.sawq.st = "open" THEN [queue EXCEPT !.st = "rejected"] ELSE queue
        /\ Commit(r)

\* resolve, reject: one flush writes both rows.
CommitVerdict(r) ==
    LET q == req[r]
    IN  /\ q.pc = "decided"
        /\ Changed(q) # {} => Free(r)
        /\ IF Balanced(Merged(q)) \/ Changed(q) = {}
           THEN /\ expense' = Merged(q)
                /\ queue' = [queue EXCEPT !.st =
                                IF q.act = "resolve" THEN "resolved" ELSE "rejected"]
                /\ Commit(r)
           ELSE Rollback(r)

\* The connection or the process is lost.
Lost(r) == req[r].pc # "idle" /\ Rollback(r)

\* Everybody has been served.
Quiet ==
    /\ starts = MaxStarts
    /\ \A r \in Requests : req[r].pc = "idle"
    /\ UNCHANGED vars

Serve(r) ==
    \/ \E p \in Patches, admin \in {"yes", "no"} : Read(r, "edit", admin, p)
    \/ Read(r, "delete", "yes", NoPatch)
    \/ \E p \in Patches \cup {NoPatch} : ReadQueue(r, "resolve", p)
    \/ ReadQueue(r, "reject", NoPatch)
    \/ ReadExpense(r) \/ Flush(r)
    \/ CommitEdit(r) \/ CommitDelete(r) \/ CommitVerdict(r)
    \/ Lost(r)

Next == Quiet \/ \E r \in Requests : Serve(r)

Spec == Init /\ [][Next]_vars

-----------------------------------------------------------------------------
(* Properties. *)

\* expense.py:265-296, 325-359: the split adds up, cash has no GST, anything
\* else an eleventh to the nearest cent, and a component that is supplied alone
\* stays as it was supplied.
SplitIsExact ==
    \A inc \in Cents, pay \in Payments :
       LET x == compute_gst_split(inc, pay)
       IN  /\ x.ex + x.gst = inc
           /\ IF pay = "cash" THEN x.gst = 0 ELSE 11 * x.gst - inc \in -5 .. 5
           /\ x.gst \in 0 .. inc
           /\ pay # "cash" =>
                 reconcile_gst_split(inc, NoCents, x.gst, pay) = x
                 /\ reconcile_gst_split(inc, x.ex, NoCents, pay) = x

\* models/expense.py:341-342: 'a cash row can never carry GST'.
CashCarriesNoGst == expense.pay = "cash" => expense.gst = 0

\* models/expense.py:325-391: the parts add up and a cash expense carries no
\* GST, unless a request wrote money over money it had not seen.
MoneyIsExplained ==
    Balanced(expense) /\ ("raced" \in marks \/ CashCarriesNoGst)

\* An expense waits for review exactly while its queue row is open, unless
\* an administrator sets the status by hand.
PendingIsQueued ==
    "manual" \in marks \/ (expense.st = "pending" <=> queue.st = "open")

\* expenses.py:867-871 and 893-900: an expense that was held becomes reviewed only
\* when an administrator says so, or when corrections have settled every reason
\* its queue row still has; a suspected duplicate is 'never' cleared 'by a field
\* edit', however corrections, approvals and deletes overlap.
ReviewedIsSettled ==
    expense.st = "reviewed" =>
       {"manual", "approved"} \cap marks # {} \/ queue.reasons \subseteq fixed

\* expenses.py:1054-1057: an open queue row has no reason that a correction has
\* settled, unless a correction that changed no column overlapped another.
FixedReasonsLeave ==
    queue.st = "open" => "loose" \in marks \/ queue.reasons \cap fixed = {}
=============================================================================
