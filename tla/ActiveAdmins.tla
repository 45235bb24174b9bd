---------------------------- MODULE ActiveAdmins -----------------------------
(***************************************************************************)
(* The cap on active administrators and the protection of the last one     *)
(* (backend/app/services/users.py), as concurrent requests run them in     *)
(* READ COMMITTED transactions: rows are read without locks, the active    *)
(* administrators are counted with SELECT ... FOR UPDATE, the target is    *)
(* written and the request commits (app/database.py).                      *)
(*                                                                         *)
(* PostgreSQL's part is external: a statement sees what was committed when *)
(* it began; a row found by FOR UPDATE is locked, waiting if need be, and  *)
(* then read again; a written row stays locked until the transaction ends. *)
(*                                                                         *)
(* uncounted is a history variable: no request reads it.                   *)
(***************************************************************************)
EXTENDS Naturals, FiniteSets

CONSTANTS
    Users,          \* user ids, rows there or to be invited
    Requests,       \* requests served at one time
    MaxActiveAdmins,\* settings.max_active_admins
    Patches,        \* the PATCH bodies and invitations that are sent
    Nobody          \* no transaction, no target

\* The columns a request sets; "keep" is a field left out.
Patch ==
    [role : {"keep", "admin", "contributor"}, is_active : {"keep", "yes", "no"},
     kind : {"invite", "update"}]

ASSUME AdminsAssumption ==
    /\ Users \subseteq Nat
    /\ MaxActiveAdmins \in Nat \ {0}
    /\ Nobody \notin Requests
    /\ Patches \subseteq Patch
    /\ \A p \in Patches :
          p.kind = "invite" => p.role # "keep" /\ p.is_active = "yes"

VARIABLES
    user,           \* the committed rows
    lock,           \* the transaction that holds a row's lock
    txn,            \* the requests
    uncounted       \* who last became an active administrator with no count

vars == <<user, lock, txn, uncounted>>

Row == [role : {"none", "admin", "contributor"}, is_active : {"yes", "no"}]
Absent == [role |-> "none", is_active |-> "no"]

Txn ==
    [pc : {"idle", "authorized", "read", "locking", "written"},
     target : Users \cup {Nobody},
     patch : Patch,
     old : Row,                 \* the target as the request loaded it
     todo : SUBSET Users,       \* rows found by FOR UPDATE and not locked yet
     counted : Nat]

ActiveAdmin(row) == row.role = "admin" /\ row.is_active = "yes"
ActiveAdmins == {u \in Users : ActiveAdmin(user[u])}

TypeOK ==
    /\ user \in [Users -> Row]
    /\ lock \in [Users -> Requests \cup {Nobody}]
    /\ txn \in [Requests -> Txn]
    /\ uncounted \subseteq Users

NoPatch == [role |-> "keep", is_active |-> "keep", kind |-> "update"]

Idle == [pc |-> "idle", target |-> Nobody, patch |-> NoPatch, old |-> Absent,
         todo |-> {}, counted |-> 0]

\* seed_admin has created the first administrator.
Init ==
    /\ user \in [Users -> Row]
    /\ \A u \in Users : user[u].role = "none" => user[u] = Absent
    /\ Cardinality(ActiveAdmins) \in 1 .. MaxActiveAdmins
    /\ lock = [u \in Users |-> Nobody]
    /\ txn = [r \in Requests |-> Idle]
    /\ uncounted = {}

-----------------------------------------------------------------------------
(* What a request means for the row it loaded. *)

\* None leaves the value alone.
Set(value, old) == IF value = "keep" THEN old ELSE value

Apply(row, p) ==
    [role |-> Set(p.role, row.role), is_active |-> Set(p.is_active, row.is_active)]

\* A column set to the value that was loaded is not written.
Changed(value, old) == IF value = old THEN "keep" ELSE value

Changes(t) ==
    [role |-> Changed(t.patch.role, t.old.role),
     is_active |-> Changed(t.patch.is_active, t.old.is_active)]

Writes(t) ==
    t.patch.kind = "invite" \/ Changes(t).role # "keep" \/ Changes(t).is_active # "keep"

Joins(t) == ~ActiveAdmin(t.old) /\ ActiveAdmin(Apply(t.old, t.patch))
Leaves(t) == ActiveAdmin(t.old) /\ ~ActiveAdmin(Apply(t.old, t.patch))

\* Deviation: the cap itself may be passed by one.
OverLimitByOne(t) ==
    \/ Joins(t) /\ t.counted > MaxActiveAdmins
    \/ Leaves(t) /\ t.counted <= 1

\* AdminLimitReached, LastAdminProtected.
OverLimit(t) ==
    \/ Joins(t) /\ t.counted >= MaxActiveAdmins
    \/ Leaves(t) /\ t.counted <= 1

-----------------------------------------------------------------------------
(* The statements of a request. *)

Finish(r) ==
    /\ txn' = [txn EXCEPT ![r] = Idle]
    /\ lock' = [u \in Users |-> IF lock[u] = r THEN Nobody ELSE lock[u]]

Rollback(r) == Finish(r) /\ UNCHANGED <<user, uncounted>>

\* require_admin: the caller is an active administrator.  (What is asked for is
\* chosen where it is first used.)
Authorize(r) ==
    /\ txn[r].pc = "idle"
    /\ ActiveAdmins # {}
    /\ txn' = [txn EXCEPT ![r] = [Idle EXCEPT !.pc = "authorized"]]
    /\ UNCHANGED <<user, lock, uncounted>>

\* DuplicateEmail, UserNotFound.
Misdirected(u, p) == (p.kind = "invite") # (user[u] = Absent)

\* The unlocked read of the target.
ReadTarget(r, u, p) ==
    /\ txn[r].pc = "authorized"
    /\ IF Misdirected(u, p)
       THEN Rollback(r)
       ELSE /\ txn' = [txn EXCEPT ![r] = [pc |-> "read", target |-> u, patch |-> p,
                                          old |-> user[u], todo |-> {}, counted |-> 0]]
            /\ UNCHANGED <<user, lock, uncounted>>

\* _count_active_admins: what the SELECT's snapshot finds.
StartCount(r) ==
    /\ txn[r].pc = "read"
    /\ Joins(txn[r]) \/ Leaves(txn[r])
    /\ txn' = [txn EXCEPT ![r] = [@ EXCEPT !.pc = "locking", !.todo = ActiveAdmins]]
    /\ UNCHANGED <<user, lock, uncounted>>

Free(u, r) == lock[u] \in {Nobody, r}

\* ORDER BY user_id.
NextToLock(r) == {u \in txn[r].todo : \A v \in txn[r].todo : u <= v}

\* Deviation: the count takes no locks.
CountUnlocked(r) ==
    \E u \in NextToLock(r) :
       /\ txn[r].pc = "locking"
       /\ txn' = [txn EXCEPT ![r] =
                     [@ EXCEPT !.todo = @ \ {u}, !.counted = @ + 1]]
       /\ UNCHANGED <<user, lock, uncounted>>

\* A row that was waited for is read again.
CountWith(r, u) ==
    IF ActiveAdmin(user[u]) THEN txn[r].counted + 1 ELSE txn[r].counted

\* ... FOR UPDATE: the row is locked and counted if it is still an active
\* administrator's.
LockNext(r) ==
    \E u \in NextToLock(r) :
       /\ txn[r].pc = "locking"
       /\ Free(u, r)
       /\ lock' = [lock EXCEPT ![u] = r]
       /\ txn' = [txn EXCEPT ![r] =
                     [@ EXCEPT !.todo = txn[r].todo \ {u}, !.counted = CountWith(r, u)]]
       /\ UNCHANGED <<user, uncounted>>

Counted(r) == txn[r].pc = "locking" /\ txn[r].todo = {}

Refuse(r) == Counted(r) /\ OverLimit(txn[r]) /\ Rollback(r)

Permitted(r) ==
    \/ txn[r].pc = "read" /\ ~Joins(txn[r]) /\ ~Leaves(txn[r])
    \/ Counted(r) /\ ~OverLimit(txn[r])

\* An INSERT of an email that is there by now breaks the unique index.
Duplicate(r) ==
    txn[r].patch.kind = "invite" /\ user[txn[r].target] # Absent

\* flush(): the UPDATE or INSERT waits for whoever has the row.
Write(r) ==
    /\ Permitted(r)
    /\ IF Duplicate(r)
       THEN Rollback(r)
       ELSE /\ IF Writes(txn[r])
               THEN /\ Free(txn[r].target, r)
                    /\ lock' = [lock EXCEPT ![txn[r].target] = r]
               ELSE UNCHANGED lock
            /\ txn' = [txn EXCEPT ![r] = [@ EXCEPT !.pc = "written", !.counted = 0]]
            /\ UNCHANGED <<user, uncounted>>

\* What the columns that are written make of the target's row as it stands.
Written(r) == Apply(user[txn[r].target], Changes(txn[r]))

\* The target is made an active administrator by a request that saw no need to
\* count, or is made one properly, or is none any more.
Uncounted(r) ==
    LET u == txn[r].target
    IN  IF ~ActiveAdmin(Written(r)) THEN uncounted \ {u}
        ELSE IF ActiveAdmin(user[u]) THEN uncounted
        ELSE IF Joins(txn[r]) THEN uncounted \ {u} ELSE uncounted \cup {u}

Commit(r) ==
    /\ txn[r].pc = "written"
    /\ user' = [user EXCEPT ![txn[r].target] = Written(r)]
    /\ uncounted' = Uncounted(r)
    /\ Finish(r)

-----------------------------------------------------------------------------
(* Waiting. *)

Wants(r) ==
    IF txn[r].pc = "locking" /\ txn[r].todo # {} THEN NextToLock(r)
    ELSE IF Permitted(r) /\ Writes(txn[r]) /\ ~Duplicate(r) THEN {txn[r].target}
    ELSE {}

\* q waits for p.
Waits(q, p) == q # p /\ \E u \in Wants(q) : lock[u] = p

\* Each of C waits for one of C and is waited for by one of C.
WaitCycle(C) ==
    C # {} /\ \A q \in C : (\E p \in C : Waits(q, p)) /\ (\E p \in C : Waits(p, q))

\* PostgreSQL ends a transaction of a cycle; the request fails.
DeadlockVictim(r) ==
    /\ \E C \in SUBSET Requests : r \in C /\ WaitCycle(C)
    /\ Rollback(r)

\* The connection or the server is lost.
Lost(r) == txn[r].pc # "idle" /\ Rollback(r)

Step(r) ==
    \/ Authorize(r)
    \/ \E u \in Users, p \in Patches : ReadTarget(r, u, p)
    \/ StartCount(r) \/ LockNext(r) \/ Refuse(r) \/ Write(r)
    \/ Commit(r) \/ DeadlockVictim(r) \/ Lost(r)

Next == \E r \in Requests : Step(r)

Spec == Init /\ [][Next]_vars

-----------------------------------------------------------------------------
(* Properties. *)

\* users.py:11-12: 'the last active admin can be neither deactivated nor demoted'.
AlwaysAnAdmin == ActiveAdmins # {}

\* users.py:65-70, 176-182: a removal that has counted serialises with whatever
\* would make its count stale.  As long as it waits to commit, there is an active
\* administrator besides its target.
RemovalLeavesAnother ==
    \A r \in Requests :
       txn[r].pc = "written" /\ Leaves(txn[r]) => ActiveAdmins \ {txn[r].target} # {}

\* There are never more active administrators than max_active_admins.
WithinCap == Cardinality(ActiveAdmins) <= MaxActiveAdmins

\* Requests that overlap can pass the cap, each by one: a request that joined
\* is not seen by those whose count had begun.  (Administrators nobody counted
\* for come on top: two requests that set the role and the activity of one user
\* at the same time.)
OverrunIsBounded ==
    Cardinality(ActiveAdmins \ uncounted) <= MaxActiveAdmins + Cardinality(Requests) - 1

\* Requests that count never wait in a circle: they lock in user_id order.  In
\* every circle somebody has counted and waits to write a row that his count
\* did not find, because he had read it without a lock.
CirclesNeedAWrite ==
    \A C \in SUBSET Requests : WaitCycle(C) => \E r \in C : Permitted(r)

\* The order is to avoid deadlocks between two concurrent demotions
\* (users.py:71-72): of two requests that wait for each other, not both take an
\* administrator away.
DemotionsStayApart ==
    \A C \in SUBSET Requests :
       Cardinality(C) = 2 /\ WaitCycle(C) => \E r \in C : ~Leaves(txn[r])
=============================================================================
