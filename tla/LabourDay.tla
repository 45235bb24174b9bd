------------------------------- MODULE LabourDay -------------------------------
(***************************************************************************)
(* The attendance of one day: batches of workers saved against a job, and  *)
(* single entries deleted (services/labour.py).                            *)
(*                                                                         *)
(* Days do not meet: the locks and the cap are a worker's and a day's.     *)
(* Fractions, times and rates are left out; a range of times is the hours  *)
(* it spans.  The advisory lock of a worker's day and the row locks on its *)
(* entries are taken by two statements in a row and held to the end of the *)
(* transaction; they are one lock here.                                    *)
(***************************************************************************)
EXTENDS JobRows, FiniteSets, FiniteSetsExt, Sequences

CONSTANTS
    Workers,        \* ordered by their identifiers
    Users, Admins,
    DayTx,          \* requests about the day that are served at one time
    Batches,        \* the lists of [worker, hours] that are saved
    Omitted,        \* an item without the hours field; 0 is null
    DayHours,       \* _MAX_DAY_HOURS
    Nobody          \* the lock is free

ASSUME LabourAssumption ==
    /\ Workers \subseteq Nat /\ IsFiniteSet(Workers)
    /\ Admins \subseteq Users /\ Users # {}
    /\ IsFiniteSet(Jobs) /\ Jobs # {}
    /\ DayHours \in Nat /\ Omitted \notin Nat
    /\ MaxBegun \in Nat /\ Nobody \notin DayTx
    /\ Batches \subseteq Seq([worker : Workers, hours : 0 .. DayHours \cup {Omitted}])
    /\ \A b \in Batches : \A m, n \in DOMAIN b : b[m].worker = b[n].worker => m = n

VARIABLES
    active,         \* the workers that are not deactivated
    entry,          \* the committed entries
    dayTx,          \* the requests
    dayLock         \* who has the worker's day

labourVars == <<active, entry, dayTx, dayLock>>

\* id tells an entry from one that replaced it; 0: there is none.
Entry == [id : Nat, hours : 0 .. DayHours, by : Users]
NoEntry == [id |-> 0, hours |-> 0, by |-> CHOOSE u \in Users : TRUE]

DayRequest ==
    [pc : {"idle", "job", "turn", "staged", "delete"},
     user : Users, on : Jobs,
     batch : Batches \cup {<<>>},
     id : Nat,              \* of the entries it makes, or of the one it deletes
     saw : SUBSET Workers,  \* the active workers as they were read
     todo : SUBSET Workers,
     put : [Workers -> Entry],
     shares : BOOLEAN]      \* it has flushed a new entry

LabourTypeOK ==
    /\ active \subseteq Workers
    /\ entry \in [Workers -> [Jobs -> Entry]]
    /\ dayTx \in [DayTx -> DayRequest]
    /\ dayLock \in [Workers -> DayTx \cup {Nobody}]

NoDayTx ==
    [pc |-> "idle", user |-> CHOOSE u \in Users : TRUE, on |-> CHOOSE j \in Jobs : TRUE,
     batch |-> <<>>, id |-> 0, saw |-> {}, todo |-> {}, put |-> [w \in Workers |-> NoEntry],
     shares |-> FALSE]

LabourInit ==
    /\ active = Workers
    /\ entry = [w \in Workers |-> [j \in Jobs |-> NoEntry]]
    /\ dayTx = [r \in DayTx |-> NoDayTx]
    /\ dayLock = [w \in Workers |-> Nobody]

-----------------------------------------------------------------------------

\* The end of a transaction gives its locks back.
DayEnds(r) ==
    /\ dayTx' = [dayTx EXCEPT ![r] = NoDayTx]
    /\ dayLock' = [w \in Workers |-> IF dayLock[w] = r THEN Nobody ELSE dayLock[w]]

DayRollback(r) ==
    dayTx[r].pc # "idle" /\ DayEnds(r) /\ UNCHANGED <<job, begun, active, entry>>

_can_modify(user, x) == user \in Admins \/ x.by = user

\* update_worker: the roster.
update_worker(w) ==
    /\ More
    /\ active' = IF w \in active THEN active \ {w} ELSE active \cup {w}
    /\ UNCHANGED <<job, entry, dayTx, dayLock>>

\* batch_upsert_entries: the job ...
BatchBegins(r, user, j, batch) ==
    /\ dayTx[r].pc = "idle"
    /\ job[j] = "active"
    /\ More
    /\ dayTx' = [dayTx EXCEPT ![r] =
          [NoDayTx EXCEPT !.pc = "job", !.user = user, !.on = j, !.batch = batch,
                          !.id = begun + 1]]
    /\ UNCHANGED <<job, active, entry, dayLock>>

Listed(batch) == {batch[n].worker : n \in DOMAIN batch}

\* ... and the workers, as they are when they are read.
ReadWorkers(r) ==
    /\ dayTx[r].pc = "job"
    /\ dayTx' = [dayTx EXCEPT ![r] =
          [@ EXCEPT !.pc = "turn", !.saw = active, !.todo = Listed(dayTx[r].batch)]]
    /\ UNCHANGED <<job, begun, active, entry, dayLock>>

\* Deviation: workers in the order of the body.
TurnAsListed(q) ==
    LET first == CHOOSE n \in DOMAIN q.batch :
                    /\ q.batch[n].worker \in q.todo
                    /\ \A m \in 1 .. n - 1 : q.batch[m].worker \notin q.todo
    IN  q.batch[first].worker

\* Whose turn it is: workers in the order of their identifiers.
Turn(q) == CHOOSE w \in q.todo : \A v \in q.todo : w <= v

\* The hours the worker's item leaves in the entry.
NewHours(q, w) ==
    LET sent == (CHOOSE n \in DOMAIN q.batch : q.batch[n].worker = w)
    IN  IF q.batch[sent].hours = Omitted THEN entry[w][q.on].hours
        ELSE q.batch[sent].hours

HoursOf(w, on) == MapThenSumSet(LAMBDA j : entry[w][j].hours, on)

\* The plausibility cap; an entry without hours is not capped.
Fits(q, w) ==
    NewHours(q, w) # 0 => HoursOf(w, Jobs \ {q.on}) + NewHours(q, w) <= DayHours

Accepted(q, w) ==
    LET here == entry[w][q.on]
    IN  /\ IF here.id = 0 THEN w \in q.saw ELSE _can_modify(q.user, here)
        /\ Fits(q, w)

Saved(q, w) ==
    LET here == entry[w][q.on]
    IN  IF here.id = 0 THEN [id |-> q.id, hours |-> NewHours(q, w), by |-> q.user]
        ELSE [here EXCEPT !.hours = NewHours(q, w)]

\* Deviation: only rows are locked, and a worker without any has none.
LockedRows(r, w) ==
    \/ dayLock[w] \in {Nobody, r}
    \/ \A j \in Jobs : entry[w][j].id = 0

\* pg_advisory_xact_lock
Locked(r, w) == dayLock[w] \in {Nobody, r}

\* One worker of the batch: the lock, the day's rows, the checks, the change.
SaveWorker(r) ==
    LET q == dayTx[r]
        w == Turn(q)
    IN  /\ q.pc = "turn" /\ q.todo # {}
        /\ Locked(r, w)
        /\ IF Accepted(q, w)
           THEN /\ dayLock' = [dayLock EXCEPT ![w] = r]
                /\ dayTx' = [dayTx EXCEPT ![r] =
                      [q EXCEPT !.pc = "staged", !.todo = q.todo \ {w},
                                !.put = [q.put EXCEPT ![w] = Saved(q, w)]]]
                /\ UNCHANGED <<job, begun, active, entry>>
           ELSE DayRollback(r)

\* It has put entries that are new.
Inserts(q) == \E w \in Workers : q.put[w].id = q.id

\* The autoflush of the next query, or the flush at the end: an entry whose job
\* is gone is refused, any other has the job's key share from now on.
FlushBatch(r) ==
    /\ dayTx[r].pc = "staged"
    /\ IF Inserts(dayTx[r]) /\ job[dayTx[r].on] = "gone"
       THEN DayRollback(r)
       ELSE /\ dayTx' = [dayTx EXCEPT ![r] =
                  [@ EXCEPT !.pc = "turn", !.shares = Inserts(dayTx[r])]]
            /\ UNCHANGED <<job, begun, active, entry, dayLock>>

\* All or nothing.
CommitBatch(r) ==
    LET q == dayTx[r]
    IN  /\ q.pc = "turn" /\ q.todo = {}
        /\ entry' = [w \in Workers |->
              IF q.put[w].id = 0 THEN entry[w]
              ELSE [entry[w] EXCEPT ![q.on] = q.put[w]]]
        /\ DayEnds(r)
        /\ UNCHANGED <<job, begun, active>>

\* delete_entry reads without a lock ...
DeleteReads(r, user, w, j) ==
    /\ dayTx[r].pc = "idle"
    /\ entry[w][j].id # 0
    /\ _can_modify(user, entry[w][j])
    /\ More
    /\ dayTx' = [dayTx EXCEPT ![r] =
          [NoDayTx EXCEPT !.pc = "delete", !.user = user, !.on = j,
                          !.id = entry[w][j].id, !.todo = {w}]]
    /\ UNCHANGED <<job, active, entry, dayLock>>

\* ... and its DELETE waits for the batch that has the rows.
delete_entry(r) ==
    /\ dayTx[r].pc = "delete"
    /\ \E w \in dayTx[r].todo :
          /\ dayLock[w] = Nobody
          /\ entry' = IF entry[w][dayTx[r].on].id = dayTx[r].id
                      THEN [entry EXCEPT ![w] = [@ EXCEPT ![dayTx[r].on] = NoEntry]]
                      ELSE entry
    /\ DayEnds(r)
    /\ UNCHANGED <<job, begun, active>>

LabourStep(r) ==
    \/ \E user \in Users, j \in Jobs, batch \in Batches : BatchBegins(r, user, j, batch)
    \/ ReadWorkers(r) \/ SaveWorker(r) \/ FlushBatch(r) \/ CommitBatch(r)
    \/ \E user \in Users, w \in Workers, j \in Jobs : DeleteReads(r, user, w, j)
    \/ delete_entry(r)
    \/ DayRollback(r)

\* The jobs with attendance, and those a flushed entry has the key share of.
Worked == {j \in Jobs : \E w \in Workers : entry[w][j].id # 0}
LabourShares == {dayTx[r].on : r \in {s \in DayTx : dayTx[s].shares}}

-----------------------------------------------------------------------------

\* labour.py:363-377: a worker's hours over all jobs of a day stay within 24,
\* whichever batches are saved at the same time.
DayWithin24h == \A w \in Workers : HoursOf(w, Jobs) <= DayHours

WaitsFor(r, s) ==
    /\ r # s
    /\ dayTx[r].pc = "turn" /\ dayTx[r].todo # {}
    /\ dayLock[Turn(dayTx[r])] = s

\* labour.py:300-312: 'two concurrent batches touching the same workers cannot
\* deadlock': no batches all wait for one another.
NoCircularWait ==
    ~ \E C \in SUBSET DayTx : C # {} /\ \A r \in C : \E s \in C : WaitsFor(r, s)
=============================================================================
