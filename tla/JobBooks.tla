-------------------------------- MODULE JobBooks --------------------------------
(***************************************************************************)
(* What is booked on jobs, while they are archived, reopened and deleted:  *)
(* the attendance of a day and expenses, in one database.                  *)
(***************************************************************************)
EXTENDS LabourDay, ExpenseCapture

vars == <<job, jobTx, begun, labourVars, captureVars>>

TypeOK == JobTypeOK /\ LabourTypeOK /\ CaptureTypeOK

Init == JobInit /\ LabourInit /\ CaptureInit

\* Deviation: attendance goes with its job (ON DELETE CASCADE).
ReferredByExpenses == Expensed

\* The foreign keys that refuse the delete of a job.
Referred == Worked \cup Expensed

JobStep(r) ==
    \/ \E j \in Jobs : PatchJob(r, j) \/ DeleteJob(r, j)
    \/ update_job(r)
    \/ CountExpenses(r, Expensed)
    \/ CountLabour(r, Worked)
    \/ delete_empty_job(r, Referred, LabourShares)
    \/ JobRollback(r)

\* All requests have been served.
Quiet ==
    /\ begun = MaxBegun
    /\ \A r \in JobTx : jobTx[r].pc = "idle"
    /\ \A r \in DayTx : dayTx[r].pc = "idle"
    /\ \A r \in CapTx : capTx[r].pc = "idle"
    /\ UNCHANGED vars

Next ==
    \/ \E r \in JobTx : JobStep(r) /\ UNCHANGED <<labourVars, captureVars>>
    \/ \E r \in DayTx : LabourStep(r) /\ UNCHANGED <<jobTx, captureVars>>
    \/ \E w \in Workers : update_worker(w) /\ UNCHANGED <<jobTx, captureVars>>
    \/ CaptureStep /\ UNCHANGED <<jobTx, labourVars>>
    \/ Quiet

Spec == Init /\ [][Next]_vars

-----------------------------------------------------------------------------

\* jobs.py:596-740: no attendance and no expense is left without its job, and
\* what a transaction has yet to commit will have one.
HistoryIsKept ==
    /\ \A w \in Workers, j \in Jobs : entry[w][j].id # 0 => job[j] # "gone"
    /\ \A e \in expenses : job[e.job] # "gone"
    /\ \A r \in DayTx : dayTx[r].shares => job[dayTx[r].on] # "gone"
=============================================================================
