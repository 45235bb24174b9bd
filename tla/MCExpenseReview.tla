-------------------------- MODULE MCExpenseReview ---------------------------
(* One expense under review on small instances.                             *)
EXTENDS ExpenseReview, TLC

To(job, inc, ex, gst, pay, st) ==
    [job |-> job, inc |-> inc, ex |-> ex, gst |-> gst, pay |-> pay, st |-> st]

Sets(f, x) == [set |-> {f}, to |-> x]

AmountTo(c) == Sets("inc", [NoExpense EXCEPT !.inc = c])
PaidBy(pay) == Sets("pay", [NoExpense EXCEPT !.pay = pay])
JobTo(j) == Sets("job", [NoExpense EXCEPT !.job = j])
StatusTo(st) == Sets("st", [NoExpense EXCEPT !.st = st])
GstTo(c) == Sets("gst", [NoExpense EXCEPT !.gst = c])

AllPatches ==
    {AmountTo(1100)} \cup {JobTo(j) : j \in Jobs}
    \cup {PaidBy(pay) : pay \in {"cash", "transfer"}}
    \cup {StatusTo(st) : st \in {"reviewed", "pending"}} \cup {GstTo(150)}

SmallAmounts == 0 .. 2200
SomeReasons ==
    {{}, {"amount_uncertain"},
     {"amount_uncertain", "job_uncertain", "duplicate_suspected"}}

Interchangeable == Permutations(Requests)
=============================================================================
