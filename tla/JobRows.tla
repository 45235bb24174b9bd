-------------------------------- MODULE JobRows --------------------------------
(***************************************************************************)
(* Jobs, and the requests that archive, reopen and delete them             *)
(* (services/jobs.py).  What refers to a job, and who is about to, is      *)
(* known to the module that composes this one and handed to the actions.   *)
(*                                                                         *)
(* A request reads without locks and commits once; the columns other than  *)
(* the status, the aliases and the budgets (which go with the job) are not *)
(* told apart.  PostgreSQL's part is external: a DELETE waits for those    *)
(* who have the job's key share, and is refused while a row refers to it.  *)
(***************************************************************************)
EXTENDS Naturals

CONSTANTS
    Jobs,
    JobTx,          \* requests about jobs that are served at one time
    MaxBegun        \* bound: requests, captures that are typed and ticks

VARIABLES
    job,            \* the status of each job
    jobTx,          \* the requests
    begun           \* how many there have been

JobStatuses == {"active", "completed", "gone"}

JobRequest == [pc : {"idle", "patch", "read", "counted", "empty"},
               on : Jobs, saw : JobStatuses, to : JobStatuses]

JobTypeOK ==
    /\ job \in [Jobs -> JobStatuses]
    /\ jobTx \in [JobTx -> JobRequest]
    /\ begun \in 0 .. MaxBegun

J(pc, j, saw, to) == [pc |-> pc, on |-> j, saw |-> saw, to |-> to]
NoJobTx == [r \in JobTx |-> J("idle", CHOOSE j \in Jobs : TRUE, "gone", "gone")]

JobInit ==
    /\ job = [j \in Jobs |-> "active"]
    /\ jobTx = NoJobTx
    /\ begun = 0

\* One more of them.
More == begun < MaxBegun /\ begun' = begun + 1

JobAt(r, pc) ==
    /\ jobTx' = [jobTx EXCEPT ![r] = [@ EXCEPT !.pc = pc]]
    /\ UNCHANGED <<job, begun>>

JobRollback(r) == jobTx[r].pc # "idle" /\ JobAt(r, "idle")

\* get_job, of update_job and of delete_empty_job.
get_job(r, pc, j, to) ==
    /\ jobTx[r].pc = "idle"
    /\ job[j] # "gone"
    /\ More
    /\ jobTx' = [jobTx EXCEPT ![r] = J(pc, j, job[j], to)]
    /\ UNCHANGED job

PatchJob(r, j) == \E to \in {"active", "completed"} : get_job(r, "patch", j, to)
DeleteJob(r, j) == get_job(r, "read", j, "gone")

\* update_job: a status that is new to the request is written over whatever it
\* is by now; an UPDATE that finds no row ends the request.
update_job(r) ==
    LET q == jobTx[r]
    IN  /\ q.pc = "patch"
        /\ job' = IF job[q.on] # "gone" /\ q.to # q.saw
                  THEN [job EXCEPT ![q.on] = q.to] ELSE job
        /\ jobTx' = [jobTx EXCEPT ![r] = [@ EXCEPT !.pc = "idle"]]
        /\ UNCHANGED begun

\* delete_empty_job counts, one query after the other, what refers to the job.
CountExpenses(r, expensed) ==
    /\ jobTx[r].pc = "read"
    /\ JobAt(r, IF jobTx[r].on \in expensed THEN "idle" ELSE "counted")

CountLabour(r, worked) ==
    /\ jobTx[r].pc = "counted"
    /\ JobAt(r, IF jobTx[r].on \in worked THEN "idle" ELSE "empty")

\* ... and deletes.
delete_empty_job(r, referred, shared) ==
    LET j == jobTx[r].on
    IN  /\ jobTx[r].pc = "empty"
        /\ j \notin shared
        /\ job' = IF j \in referred THEN job ELSE [job EXCEPT ![j] = "gone"]
        /\ jobTx' = [jobTx EXCEPT ![r] = [@ EXCEPT !.pc = "idle"]]
        /\ UNCHANGED begun
=============================================================================
