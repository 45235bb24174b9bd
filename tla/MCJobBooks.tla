------------------------------ MODULE MCJobBooks ------------------------------
(* Attendance, expenses and the jobs they are booked on, on small instances. *)
EXTENDS JobBooks, TLC

CONSTANTS j1, j2, short, long

Of(w, hours) == [worker |-> w, hours |-> hours]

\* Two workers in either order, hours that do not fit twice, an item that leaves
\* the hours alone and one that clears them.
SomeBatches == {<<Of(1, 16), Of(2, Omitted)>>, <<Of(2, 16), Of(1, 0)>>}

TwoTexts == {short, long}
SomeMentions == [t \in TwoTexts |-> IF t = short THEN {j1} ELSE {j1, j2}]
SameAmount == [t \in TwoTexts |-> 305]

Interchangeable == Permutations(DayTx) \cup Permutations(CapTx)
=============================================================================
