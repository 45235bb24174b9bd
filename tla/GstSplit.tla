------------------------------ MODULE GstSplit -------------------------------
(***************************************************************************)
(* An expense's money, in whole cents: the inclusive amount inc, the part  *)
(* without GST ex and the GST gst (backend/app/models/expense.py,          *)
(* services/expense_write.py).  Cash carries no GST; anything else carries *)
(* an eleventh, rounded to the cent.                                       *)
(***************************************************************************)
EXTENDS Integers

\* A component that was not supplied.
NoCents == -1

\* (inc / 1.1).quantize(0.01): the nearest cent, and 10 * inc / 11 is never
\* half way between two.
ExGst(inc) == (20 * inc + 11) \div 22

\* Deviation: cash is split as anything else.
SplitAsTransfer(inc, pay) == [ex |-> ExGst(inc), gst |-> inc - ExGst(inc)]

compute_gst_split(inc, pay) ==
    IF pay = "cash" THEN [ex |-> inc, gst |-> 0]
    ELSE [ex |-> ExGst(inc), gst |-> inc - ExGst(inc)]

\* GstSplitError: both are supplied and do not add up.
Reconcilable(inc, ex, gst, pay) ==
    pay = "cash" \/ ex = NoCents \/ gst = NoCents \/ ex + gst = inc

reconcile_gst_split(inc, ex, gst, pay) ==
    IF pay = "cash" \/ (ex = NoCents /\ gst = NoCents) THEN compute_gst_split(inc, pay)
    ELSE IF ex = NoCents THEN [ex |-> inc - gst, gst |-> gst]
    ELSE [ex |-> ex, gst |-> inc - ex]

\* ck_expenses_gst_components_sum, ck_expenses_amounts_nonneg.
Balanced(x) == x.ex + x.gst = x.inc /\ x.inc >= 0 /\ x.ex >= 0 /\ x.gst >= 0
=============================================================================
