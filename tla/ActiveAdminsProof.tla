-------------------------- MODULE ActiveAdminsProof --------------------------
(* Theorems about the administrators' cap (ActiveAdmins), for any number of  *)
(* users and concurrent requests and whatever the requests change: a removal *)
(* that was let through leaves an active administrator besides its target,   *)
(* requests pass the cap by less than the number that overlap, but for       *)
(* administrators nobody counted for, and requests that count never wait in  *)
(* a circle.                                                                 *)
EXTENDS ActiveAdmins, FiniteSetTheorems, WellFoundedInduction, TLAPS

-----------------------------------------------------------------------------
(* The inductive invariant. *)

Holds(r, v) == lock[v] = r /\ ActiveAdmin(user[v])

\* A request takes no lock before it counts, and keeps what it has locked: as
\* many active administrators, to two, as it has counted.
LocksCover(r) ==
    /\ txn[r].pc \in {"idle", "authorized", "read"} =>
           txn[r].counted = 0 /\ \A u \in Users : lock[u] # r
    /\ txn[r].pc = "locking" =>
           /\ \A u \in txn[r].todo : lock[u] # r
           /\ txn[r].counted > 0 => \E v \in Users : Holds(r, v)
           /\ txn[r].counted > 1 =>
                  \E v \in Users : \E w \in Users \ {v} : Holds(r, v) /\ Holds(r, w)

\* What was loaded is still so, as far as nobody else may write it.
LoadedStands(r) ==
    /\ txn[r].pc \notin {"idle", "authorized"} =>
           txn[r].patch \in Patches /\ txn[r].target \in Users
    /\ txn[r].pc \in {"read", "locking", "written"} =>
           IF txn[r].patch.kind = "update"
           THEN txn[r].old.role # "none" /\ user[txn[r].target].role # "none"
           ELSE txn[r].old = Absent

\* A request that is about to commit has its target's row, and one that takes
\* an administrator away has another one's row as well.
CommitsSafely(r) ==
    txn[r].pc = "written" =>
        /\ Writes(txn[r]) => lock[txn[r].target] = r
        /\ txn[r].patch.kind = "invite" => user[txn[r].target] = Absent
        /\ Leaves(txn[r]) => \E v \in Users \ {txn[r].target} : Holds(r, v)

\* A row is absent or has a role.
RowsWhole == \A u \in Users : user[u].role = "none" => user[u] = Absent

IInv ==
    /\ TypeOK
    /\ RowsWhole
    /\ \A r \in Requests : LocksCover(r) /\ LoadedStands(r) /\ CommitsSafely(r)

-----------------------------------------------------------------------------
\* A transaction's fields.
LEMMA TxnTypes ==
    ASSUME TypeOK, NEW r \in Requests
    PROVE  /\ txn[r] \in Txn
           /\ txn[r].pc \in {"idle", "authorized", "read", "locking", "written"}
           /\ txn[r].target \in Users \cup {Nobody}
           /\ txn[r].patch \in Patch
           /\ txn[r].old \in Row
           /\ txn[r].todo \subseteq Users
           /\ txn[r].counted \in Nat
BY DEF TypeOK, Txn

\* At the beginning nobody has asked for anything.
LEMMA InitIInv == Init => IInv
<1> SUFFICES ASSUME Init PROVE IInv
  OBVIOUS
<1>1. Idle \in Txn
  BY DEF Idle, Txn, Patch, NoPatch, Row, Absent
<1>2. TypeOK
  BY <1>1 DEF Init, TypeOK
<1>3. RowsWhole
  BY DEF Init, RowsWhole
<1>4. ASSUME NEW r \in Requests
      PROVE  LocksCover(r) /\ LoadedStands(r) /\ CommitsSafely(r)
  <2>1. txn[r] = Idle /\ \A u \in Users : lock[u] # r
    BY AdminsAssumption DEF Init
  <2> QED
    BY <2>1 DEF Idle, LocksCover, LoadedStands, CommitsSafely
<1> QED
  BY <1>2, <1>3, <1>4 DEF IInv

\* A request that ends without a write leaves the others as they were.
LEMMA RollbackStep ==
    ASSUME IInv, NEW r \in Requests, Rollback(r) PROVE IInv'
<1> USE DEF Rollback, Finish
<1>1. Idle \in Txn
  BY DEF Idle, Txn, Patch, NoPatch, Row, Absent
<1>2. TypeOK'
  BY <1>1 DEF IInv, TypeOK
<1>3. RowsWhole'
  BY DEF IInv, RowsWhole
<1>4. ASSUME NEW q \in Requests
      PROVE  (LocksCover(q) /\ LoadedStands(q) /\ CommitsSafely(q))'
  <2>1. CASE q = r
    <3>1. txn'[q] = Idle /\ \A u \in Users : lock'[u] # q
      BY <2>1, AdminsAssumption DEF IInv, TypeOK
    <3> QED
      BY <3>1 DEF Idle, LocksCover, LoadedStands, CommitsSafely
  <2>2. CASE q # r
    <3>1. /\ txn'[q] = txn[q] /\ user' = user
          /\ \A u \in Users : lock'[u] = q <=> lock[u] = q
      BY <2>2, AdminsAssumption DEF IInv, TypeOK
    <3>2. LocksCover(q) /\ LoadedStands(q) /\ CommitsSafely(q) /\ TypeOK
      BY DEF IInv
    <3>3. \A v \in Users : Holds(q, v)' <=> Holds(q, v)
      BY <3>1 DEF Holds
    <3>4. LocksCover(q)'
      BY <3>1, <3>2, <3>3, TxnTypes DEF LocksCover
    <3>5. LoadedStands(q)'
      BY <3>1, <3>2 DEF LoadedStands
    <3>6. CommitsSafely(q)'
      BY <3>1, <3>2, <3>3 DEF CommitsSafely, LoadedStands, Writes, Leaves, Changes
    <3> QED
      BY <3>4, <3>5, <3>6
  <2> QED
    BY <2>1, <2>2
<1> QED
  BY <1>2, <1>3, <1>4 DEF IInv

\* A step of a request that writes no row and takes at most free locks leaves
\* the other requests' parts as they were.
LEMMA OthersStand ==
    ASSUME IInv, NEW r \in Requests, NEW q \in Requests \ {r},
           user' = user, txn'[q] = txn[q],
           \A u \in Users : lock'[u] = lock[u] \/ (Free(u, r) /\ lock'[u] = r)
    PROVE  (LocksCover(q) /\ LoadedStands(q) /\ CommitsSafely(q))'
<1>1. \A u \in Users : lock'[u] = q <=> lock[u] = q
  BY AdminsAssumption DEF Free
<1>2. LocksCover(q) /\ LoadedStands(q) /\ CommitsSafely(q) /\ TypeOK
  BY DEF IInv
<1>3. \A v \in Users : Holds(q, v)' <=> Holds(q, v)
  BY <1>1 DEF Holds
<1>4. LocksCover(q)'
  BY <1>1, <1>2, <1>3, TxnTypes DEF LocksCover
<1>5. LoadedStands(q)'
  BY <1>2 DEF LoadedStands
<1>6. CommitsSafely(q)'
  BY <1>1, <1>2, <1>3 DEF CommitsSafely, LoadedStands, Writes, Leaves, Changes
<1> QED
  BY <1>4, <1>5, <1>6

\* Whoever is allowed in has asked for nothing yet.
LEMMA AuthorizeStep ==
    ASSUME IInv, NEW r \in Requests, Authorize(r) PROVE IInv'
<1> DEFINE t == [Idle EXCEPT !.pc = "authorized"]
<1>1. txn' = [txn EXCEPT ![r] = t] /\ UNCHANGED <<user, lock, uncounted>> /\ txn[r].pc = "idle"
  BY DEF Authorize
<1>2. t \in Txn /\ t.pc = "authorized" /\ t.counted = 0
  BY DEF Idle, NoPatch, Patch, Txn, Row, Absent
<1>3. txn'[r] = t /\ \A q \in Requests \ {r} : txn'[q] = txn[q]
  BY <1>1 DEF IInv, TypeOK
<1>4. TypeOK'
  BY <1>1, <1>2 DEF IInv, TypeOK
<1>5. RowsWhole'
  BY <1>1 DEF IInv, RowsWhole
<1>6. (LocksCover(r) /\ LoadedStands(r) /\ CommitsSafely(r))'
  BY <1>1, <1>2, <1>3 DEF IInv, LocksCover, LoadedStands, CommitsSafely
<1>7. \A q \in Requests \ {r} : (LocksCover(q) /\ LoadedStands(q) /\ CommitsSafely(q))'
  BY <1>1, <1>3, OthersStand
<1> QED
  BY <1>4, <1>5, <1>6, <1>7 DEF IInv

\* The target as it is loaded is the target as it stands.
LEMMA ReadTargetStep ==
    ASSUME IInv, NEW r \in Requests, NEW u \in Users,
           NEW p \in Patches, ReadTarget(r, u, p)
    PROVE  IInv'
<1>1. CASE Misdirected(u, p)
  BY <1>1, RollbackStep DEF ReadTarget
<1>2. CASE ~Misdirected(u, p)
  <2> DEFINE t == [pc |-> "read", target |-> u, patch |-> p, old |-> user[u],
                   todo |-> {}, counted |-> 0]
  <2>0. TypeOK /\ txn[r].pc = "authorized" /\ LocksCover(r)
    BY <1>2 DEF ReadTarget, IInv
  <2>1. user[u] \in Row /\ p \in Patch /\ t \in Txn
    BY <2>0, AdminsAssumption DEF TypeOK, Txn
  <2>2. txn' = [txn EXCEPT ![r] = t] /\ UNCHANGED <<user, lock, uncounted>>
    BY <1>2 DEF ReadTarget
  <2>3. txn'[r] = t /\ \A q \in Requests \ {r} : txn'[q] = txn[q]
    BY <2>0, <2>2 DEF TypeOK
  <2>4. TypeOK'
    BY <2>0, <2>1, <2>2 DEF TypeOK
  <2>5. LocksCover(r)' /\ CommitsSafely(r)'
    BY <2>0, <2>2, <2>3 DEF LocksCover, CommitsSafely
  <2>6. LoadedStands(r)'
    <3>1. IF p.kind = "update" THEN user[u] # Absent ELSE user[u] = Absent
      BY <1>2, <2>1 DEF Misdirected, Patch
    <3>2. user[u].role = "none" => user[u] = Absent
      BY DEF IInv, RowsWhole
    <3> QED
      BY <2>2, <2>3, <3>1, <3>2 DEF LoadedStands
  <2>7. \A q \in Requests \ {r} : (LocksCover(q) /\ LoadedStands(q) /\ CommitsSafely(q))'
    BY <2>2, <2>3, OthersStand
  <2> QED
    BY <2>2, <2>4, <2>5, <2>6, <2>7 DEF IInv, RowsWhole
<1> QED
  BY <1>1, <1>2

\* A count begins with nothing locked.
LEMMA StartCountStep ==
    ASSUME IInv, NEW r \in Requests, StartCount(r) PROVE IInv'
<1> DEFINE t == [pc |-> "locking", target |-> txn[r].target, patch |-> txn[r].patch,
                 old |-> txn[r].old, todo |-> ActiveAdmins, counted |-> txn[r].counted]
<1>0. TypeOK /\ txn[r].pc = "read" /\ LocksCover(r) /\ LoadedStands(r)
  BY DEF StartCount, IInv
<1>1. t \in Txn
  BY <1>0, TxnTypes DEF Txn, ActiveAdmins
<1>2. txn' = [txn EXCEPT ![r] = t] /\ UNCHANGED <<user, lock, uncounted>>
  <2>1. PICK s : /\ s = [txn[r] EXCEPT !.pc = "locking", !.todo = ActiveAdmins]
                 /\ txn' = [txn EXCEPT ![r] = s] /\ UNCHANGED <<user, lock, uncounted>>
    BY Zenon DEF StartCount
  <2>2. s = t
    BY <1>0, <2>1, TxnTypes DEF Txn
  <2> QED
    BY <2>1, <2>2
<1>3. txn'[r] = t /\ \A q \in Requests \ {r} : txn'[q] = txn[q]
  BY <1>2 DEF IInv, TypeOK
<1>4. TypeOK' /\ RowsWhole'
  BY <1>0, <1>1, <1>2 DEF TypeOK, IInv, RowsWhole
<1>5. LocksCover(r)' /\ CommitsSafely(r)'
  BY <1>0, <1>2, <1>3 DEF LocksCover, CommitsSafely, ActiveAdmins
<1>6. LoadedStands(r)'
  BY <1>0, <1>2, <1>3 DEF LoadedStands
<1>7. \A q \in Requests \ {r} : (LocksCover(q) /\ LoadedStands(q) /\ CommitsSafely(q))'
  BY <1>2, <1>3, OthersStand
<1> QED
  BY <1>4, <1>5, <1>6, <1>7 DEF IInv

\* A row that is locked and counted is another than those counted before.
LEMMA LockNextStep ==
    ASSUME IInv, NEW r \in Requests, LockNext(r) PROVE IInv'
<1>0. PICK u \in NextToLock(r) :
         /\ txn[r].pc = "locking" /\ Free(u, r)
         /\ lock' = [lock EXCEPT ![u] = r]
         /\ txn' = [txn EXCEPT ![r] =
                [@ EXCEPT !.todo = txn[r].todo \ {u}, !.counted = CountWith(r, u)]]
         /\ user' = user /\ uncounted' = uncounted
  BY DEF LockNext
<1> DEFINE n == CountWith(r, u)
           t == [pc |-> "locking", target |-> txn[r].target, patch |-> txn[r].patch,
                 old |-> txn[r].old, todo |-> txn[r].todo \ {u}, counted |-> n]
<1>1. TypeOK /\ LocksCover(r) /\ LoadedStands(r) /\ u \in txn[r].todo /\ u \in Users
  BY TxnTypes DEF IInv, NextToLock
<1>2. txn' = [txn EXCEPT ![r] = t]
  <2>1. PICK s : /\ s = [txn[r] EXCEPT !.todo = txn[r].todo \ {u}, !.counted = CountWith(r, u)]
                 /\ txn' = [txn EXCEPT ![r] = s]
    BY <1>0, Zenon
  <2>2. s = t
    BY <1>0, <1>1, <2>1, TxnTypes DEF Txn
  <2> QED
    BY <2>1, <2>2
<1>3. txn'[r] = t /\ \A q \in Requests \ {r} : txn'[q] = txn[q]
  BY <1>1, <1>2 DEF TypeOK
<1>4. t \in Txn
  <2>1. n \in Nat /\ txn[r].todo \ {u} \subseteq Users
    BY <1>1, TxnTypes DEF CountWith
  <2> QED
    BY <1>1, <2>1, TxnTypes DEF Txn
<1>5. TypeOK'
  BY <1>0, <1>1, <1>2, <1>4 DEF TypeOK
<1>6. RowsWhole'
  BY <1>0 DEF IInv, RowsWhole
<1>7. /\ lock[u] # r /\ lock'[u] = r
      /\ \A v \in Users \ {u} : lock'[v] = lock[v]
  BY <1>0, <1>1 DEF LocksCover, TypeOK
<1>8. LocksCover(r)'
  <2>1. \A v \in Users : Holds(r, v) => v # u /\ Holds(r, v)'
    BY <1>0, <1>7 DEF Holds
  <2>2. ActiveAdmin(user[u]) => Holds(r, u)'
    BY <1>0, <1>7 DEF Holds
  <2>3. \A v \in t.todo : lock'[v] # r
    BY <1>0, <1>1, <1>7, TxnTypes DEF LocksCover, CountWith
  <2>4. txn[r].counted \in Nat
    BY <1>1, TxnTypes
  <2>5. n > 0 => \E v \in Users : Holds(r, v)'
    BY <1>0, <1>1, <2>1, <2>2, <2>4 DEF LocksCover, CountWith
  <2>6. n > 1 => \E v \in Users : \E w \in Users \ {v} : Holds(r, v)' /\ Holds(r, w)'
    <3>1. CASE ActiveAdmin(user[u]) /\ n > 1
      <4>1. PICK v \in Users : Holds(r, v)
        BY <1>0, <1>1, <2>4, <3>1 DEF LocksCover, CountWith
      <4> QED
        BY <1>1, <2>1, <2>2, <3>1, <4>1
    <3>2. CASE ~ActiveAdmin(user[u]) /\ n > 1
      BY <1>0, <1>1, <2>1, <3>2 DEF LocksCover, CountWith
    <3> QED
      BY <3>1, <3>2
  <2> QED
    BY <1>3, <2>3, <2>5, <2>6 DEF LocksCover, CountWith
<1>9. LoadedStands(r)' /\ CommitsSafely(r)'
  BY <1>0, <1>1, <1>3 DEF LoadedStands, CommitsSafely
<1>10. \A q \in Requests \ {r} : (LocksCover(q) /\ LoadedStands(q) /\ CommitsSafely(q))'
  BY <1>0, <1>3, <1>7, OthersStand
<1> QED
  BY <1>5, <1>6, <1>8, <1>9, <1>10 DEF IInv

\* A request that has counted two active administrators may take one away.
LEMMA WriteStep ==
    ASSUME IInv, NEW r \in Requests, Write(r) PROVE IInv'
<1>1. CASE Duplicate(r)
  BY <1>1, RollbackStep DEF Write
<1>2. CASE ~Duplicate(r)
  <2> DEFINE t == [pc |-> "written", target |-> txn[r].target, patch |-> txn[r].patch,
                   old |-> txn[r].old, todo |-> txn[r].todo, counted |-> 0]
             u == txn[r].target
  <2>0. /\ TypeOK /\ LocksCover(r) /\ LoadedStands(r) /\ Permitted(r)
        /\ txn[r].pc \in {"read", "locking"} /\ u \in Users
    BY DEF Write, Permitted, Counted, IInv, LoadedStands
  <2>1. /\ txn' = [txn EXCEPT ![r] = t] /\ user' = user /\ uncounted' = uncounted
        /\ t \in Txn
    <3>1. PICK s : /\ s = [txn[r] EXCEPT !.pc = "written", !.counted = 0]
                   /\ txn' = [txn EXCEPT ![r] = s] /\ UNCHANGED <<user, uncounted>>
      BY <1>2, Zenon DEF Write
    <3>2. s = t /\ t \in Txn
      BY <2>0, <3>1, TxnTypes DEF Txn
    <3> QED
      BY <3>1, <3>2
  <2>2. txn'[r] = t /\ \A q \in Requests \ {r} : txn'[q] = txn[q]
    BY <2>0, <2>1 DEF TypeOK
  <2>3. \/ Writes(txn[r]) /\ Free(u, r) /\ lock' = [lock EXCEPT ![u] = r]
        \/ ~Writes(txn[r]) /\ lock' = lock
    BY <1>2 DEF Write
  <2>4. /\ Writes(txn[r]) => lock'[u] = r
        /\ \A v \in Users : lock'[v] = lock[v] \/ (Free(v, r) /\ lock'[v] = r)
        /\ \A v \in Users : lock[v] = r => lock'[v] = r
    BY <2>0, <2>3 DEF TypeOK
  <2>5. TypeOK' /\ RowsWhole'
    BY <2>0, <2>1, <2>3 DEF IInv, TypeOK, RowsWhole
  <2>6. LocksCover(r)' /\ LoadedStands(r)'
    BY <2>0, <2>1, <2>2 DEF LocksCover, LoadedStands
  <2>7. CommitsSafely(r)'
    <3>1. Leaves(txn[r]) => \E v \in Users \ {u} : Holds(r, v)
      <4> SUFFICES ASSUME Leaves(txn[r]) PROVE \E v \in Users \ {u} : Holds(r, v)
        OBVIOUS
      <4>1. txn[r].pc = "locking" /\ ~(txn[r].counted <= 1)
        BY <2>0 DEF Permitted, Counted, OverLimit
      <4>2. txn[r].counted > 1
        <5>1. txn[r].counted \in Nat
          BY <2>0, TxnTypes
        <5> QED
          BY <4>1, <5>1
      <4> QED
        BY <2>0, <4>1, <4>2 DEF LocksCover
    <3>2. \A v \in Users : Holds(r, v) => Holds(r, v)'
      BY <2>1, <2>4 DEF Holds
    <3>3. txn[r].patch.kind = "invite" => user[u] = Absent
      BY <1>2 DEF Duplicate
    <3>4. /\ Writes(t) <=> Writes(txn[r])
          /\ Leaves(t) <=> Leaves(txn[r])
      BY DEF Writes, Leaves, Changes
    <3> QED
      BY <2>1, <2>2, <2>4, <3>1, <3>2, <3>3, <3>4 DEF CommitsSafely
  <2>8. \A q \in Requests \ {r} : (LocksCover(q) /\ LoadedStands(q) /\ CommitsSafely(q))'
    BY <2>1, <2>2, <2>4, OthersStand
  <2> QED
    BY <2>5, <2>6, <2>7, <2>8 DEF IInv
<1> QED
  BY <1>1, <1>2

\* A commit touches no row that another request holds.
LEMMA CommitStep ==
    ASSUME IInv, NEW r \in Requests, Commit(r) PROVE IInv'
<1> DEFINE t == txn[r]
           u == t.target
           new == Written(r)
<1>1. /\ TypeOK /\ LoadedStands(r) /\ CommitsSafely(r) /\ t.pc = "written"
      /\ u \in Users /\ t \in Txn /\ t.patch \in Patch /\ t.old \in Row
      /\ t.patch \in Patches /\ user[u] \in Row
  BY TxnTypes DEF Commit, IInv, LoadedStands, TypeOK
<1>2. /\ user' = [user EXCEPT ![u] = new]
      /\ user'[u] = new /\ \A v \in Users \ {u} : user'[v] = user[v]
  BY <1>1 DEF Commit, TypeOK
<1>3. /\ new.role = Set(Changed(t.patch.role, t.old.role), user[u].role)
      /\ new.is_active = Set(Changed(t.patch.is_active, t.old.is_active), user[u].is_active)
      /\ new = [role |-> new.role, is_active |-> new.is_active]
  BY DEF Written, Apply, Changes
<1>4. new \in Row
  BY <1>1, <1>3 DEF Row, Patch, Set, Changed
<1>5. ~Writes(t) => new = user[u]
  BY <1>1, <1>3 DEF Writes, Changes, Set, Row
<1>8. /\ \A q \in Requests \ {r} : txn'[q] = txn[q]
      /\ txn'[r] = Idle /\ \A v \in Users : lock'[v] # r
      /\ \A q \in Requests \ {r} : \A v \in Users : lock'[v] = q <=> lock[v] = q
  BY <1>1, AdminsAssumption DEF Commit, Finish, TypeOK
<1>9. TypeOK'
  <2>1. Idle \in Txn
    BY DEF Idle, Txn, Patch, NoPatch, Row, Absent
  <2>2. uncounted' \subseteq Users
    BY <1>1 DEF Commit, Uncounted, TypeOK
  <2> QED
    BY <1>1, <1>2, <1>4, <2>1, <2>2 DEF TypeOK, Commit, Finish
<1>10. RowsWhole'
  <2>1. new.role = "none" => new = user[u]
    <3>1. CASE t.patch.kind = "invite"
      <4>1. user[u] = Absent /\ lock[u] = r
        BY <1>1, <3>1 DEF CommitsSafely, Writes
      <4> QED
        BY <1>1, <1>3, <3>1, <4>1, AdminsAssumption
           DEF LoadedStands, Set, Changed, Absent, Patch
    <3>2. CASE t.patch.kind = "update"
      BY <1>1, <1>3, <3>2 DEF LoadedStands, Set, Changed, Patch
    <3> QED
      BY <1>1, <3>1, <3>2 DEF Patch
  <2> QED
    BY <1>1, <1>2, <2>1 DEF IInv, RowsWhole
<1>11. (LocksCover(r) /\ LoadedStands(r) /\ CommitsSafely(r))'
  BY <1>8 DEF Idle, LocksCover, LoadedStands, CommitsSafely
<1>12. ASSUME NEW q \in Requests \ {r}
       PROVE  (LocksCover(q) /\ LoadedStands(q) /\ CommitsSafely(q))'
  <2>1. LocksCover(q) /\ LoadedStands(q) /\ CommitsSafely(q)
    BY DEF IInv
  <2>2. \A v \in Users : Holds(q, v) => Holds(q, v)'
    BY <1>1, <1>2, <1>5, <1>8 DEF Holds, CommitsSafely
  <2>3. LocksCover(q)'
    BY <1>8, <2>1, <2>2, TxnTypes, <1>1 DEF LocksCover
  <2>4. ASSUME t.patch.kind = "update", user[u].role # "none"
        PROVE  user'[u].role # "none"
    BY <1>1, <1>2, <1>3, <2>4 DEF Set, Changed, Patch
  <2>5. t.patch.kind = "invite" => user[u].role = "none"
    BY <1>1 DEF CommitsSafely, Absent
  <2>6. LoadedStands(q)'
    <3>1. txn[q].pc \notin {"idle", "authorized"} => txn[q].target \in Users
      BY <2>1 DEF LoadedStands
    <3> QED
      BY <1>1, <1>2, <1>8, <2>1, <2>4, <2>5, <3>1 DEF LoadedStands, Patch
  <2>7. CommitsSafely(q)'
    <3> SUFFICES ASSUME txn[q].pc = "written" PROVE CommitsSafely(q)'
      BY <1>8 DEF CommitsSafely
    <3>1. txn[q].target \in Users
      BY <2>1 DEF LoadedStands
    <3>2. Writes(txn[q]) => lock'[txn[q].target] = q
      BY <1>8, <2>1, <3>1 DEF CommitsSafely
    <3>3. txn[q].patch.kind = "invite" => user'[txn[q].target] = Absent
      BY <1>1, <1>2, <1>5, <2>1, <3>1 DEF CommitsSafely, Writes
    <3>4. Leaves(txn[q]) => \E v \in Users \ {txn[q].target} : Holds(q, v)'
      BY <2>1, <2>2 DEF CommitsSafely
    <3> QED
      BY <1>8, <3>2, <3>3, <3>4 DEF CommitsSafely
  <2> QED
    BY <2>3, <2>6, <2>7
<1> QED
  BY <1>9, <1>10, <1>11, <1>12 DEF IInv

\* Every step keeps the invariant.
LEMMA NextIInv == IInv /\ [Next]_vars => IInv'
<1> SUFFICES ASSUME IInv, [Next]_vars PROVE IInv'
  OBVIOUS
<1>1. ASSUME NEW r \in Requests, Step(r) PROVE IInv'
  <2>1. CASE Authorize(r)
    BY <2>1, AuthorizeStep
  <2>2. ASSUME NEW u \in Users, NEW p \in Patches, ReadTarget(r, u, p) PROVE IInv'
    BY <2>2, ReadTargetStep
  <2>3. CASE StartCount(r)
    BY <2>3, StartCountStep
  <2>4. CASE LockNext(r)
    BY <2>4, LockNextStep
  <2>5. CASE Write(r)
    BY <2>5, WriteStep
  <2>6. CASE Commit(r)
    BY <2>6, CommitStep
  <2>7. CASE Refuse(r) \/ DeadlockVictim(r) \/ Lost(r)
    BY <2>7, RollbackStep DEF Refuse, DeadlockVictim, Lost
  <2> QED
    BY <1>1, <2>1, <2>2, <2>3, <2>4, <2>5, <2>6, <2>7 DEF Step
<1>2. CASE UNCHANGED vars
  BY <1>2 DEF vars, IInv, TypeOK, RowsWhole, LocksCover,
              LoadedStands, CommitsSafely, Holds, Writes, Leaves, Changes
<1> QED
  BY <1>1, <1>2 DEF Next

\* users.py:71-76, 176-182: however many requests overlap, whatever they change
\* and wait for and whichever of them are lost, a removal that was let through
\* leaves an active administrator besides its target, until it commits.
THEOREM RemovalsLeaveAnother == Spec => []RemovalLeavesAnother
<1>1. IInv => RemovalLeavesAnother
  BY DEF IInv, CommitsSafely, Holds, ActiveAdmins, RemovalLeavesAnother
<1> QED
  BY <1>1, InitIInv, NextIInv, PTL DEF Spec
-----------------------------------------------------------------------------
(* How far overlapping requests can pass the cap. *)

\* The table is finite, and so are the requests served at one time.
Finite == IsFiniteSet(Users) /\ IsFiniteSet(Requests) /\ Requests # {}

\* A request that may yet make its target an active administrator, and the rows
\* its count has found.
Pending(r) == txn[r].pc \in {"locking", "written"} /\ Joins(txn[r])
Found(r) == {u \in Users : lock[u] = r} \cup txn[r].todo

\* The requests that would be let through if B were the active administrators.
MayJoin(B) == {r \in Requests :
                  Pending(r) /\ Cardinality(B \cap Found(r)) < MaxActiveAdmins}

Bound == MaxActiveAdmins + Cardinality(Requests) - 1

\* The administrators somebody counted for, or who were there.
Seen == ActiveAdmins \ uncounted

\* There is room for everyone who may be let through, now and whoever leaves
\* before that.
Room == \A B \in SUBSET Seen :
           Cardinality(B) + Cardinality(MayJoin(B)) <= Bound

\* A count covers the administrators it has locked; who was let through holds
\* less than the cap beside its own target.
Locked(r) == {u \in ActiveAdmins : lock[u] = r}
CountStands(r) ==
    /\ txn[r].pc = "locking" => Cardinality(Locked(r)) <= txn[r].counted
    /\ txn[r].pc = "written" /\ Joins(txn[r]) =>
          /\ txn[r].todo = {}
          /\ Cardinality(Locked(r) \ {txn[r].target}) < MaxActiveAdmins

RoomInv == Room /\ \A r \in Requests : CountStands(r)

\* Part of a finite set is finite and no larger.
LEMMA PartIsSmaller ==
    ASSUME NEW X, IsFiniteSet(X), NEW S \in SUBSET X, NEW T \in SUBSET S
    PROVE  /\ IsFiniteSet(S) /\ IsFiniteSet(T)
           /\ Cardinality(S) \in Nat /\ Cardinality(T) \in Nat
           /\ Cardinality(T) <= Cardinality(S)
<1>1. IsFiniteSet(S) /\ IsFiniteSet(T)
  BY FS_Subset
<1> QED
  BY <1>1, FS_Subset, FS_CardinalityType

\* The bound is a number.
LEMMA BoundType ==
    ASSUME Finite
    PROVE  /\ Cardinality(Requests) \in Nat \ {0} /\ MaxActiveAdmins \in Nat \ {0}
           /\ Bound \in Nat
           /\ \A n \in Nat : n < MaxActiveAdmins => n + Cardinality(Requests) <= Bound
<1>1. Cardinality(Requests) \in Nat /\ Cardinality(Requests) # 0
  BY FS_CardinalityType, FS_EmptySet DEF Finite
<1> QED
  BY <1>1, AdminsAssumption DEF Bound

\* At the beginning nobody counts, and there are no more than the cap.
LEMMA InitRoom == Finite /\ Init => RoomInv
<1> SUFFICES ASSUME Finite, Init PROVE RoomInv
  OBVIOUS
<1>1. \A r \in Requests : txn[r] = Idle
  BY DEF Init
<1>2. \A r \in Requests : CountStands(r)
  BY <1>1 DEF CountStands, Idle
<1>3. ASSUME NEW B \in SUBSET Seen
      PROVE  Cardinality(B) + Cardinality(MayJoin(B)) <= Bound
  <2>1. MayJoin(B) = {}
    BY <1>1 DEF MayJoin, Pending, Idle
  <2>2. Cardinality(MayJoin(B)) = 0
    BY <2>1, FS_EmptySet
  <2>3. /\ Cardinality(ActiveAdmins) \in Nat /\ Cardinality(B) \in Nat
        /\ Cardinality(B) <= Cardinality(ActiveAdmins)
    BY PartIsSmaller DEF Finite, Seen, ActiveAdmins
  <2>4. Cardinality(ActiveAdmins) <= MaxActiveAdmins
    BY DEF Init
  <2> QED
    BY <2>2, <2>3, <2>4, BoundType DEF Bound
<1> QED
  BY <1>2, <1>3 DEF RoomInv, Room

\* Nobody new may be let through and nobody joins: the room stays.
LEMMA RoomShrinks ==
    ASSUME Finite, Room, Seen' \subseteq Seen,
           \A q \in Requests : Pending(q)' =>
              Pending(q) /\ Found(q) \cap ActiveAdmins \subseteq Found(q)'
    PROVE  Room'
<1> SUFFICES ASSUME NEW B \in SUBSET (Seen')
             PROVE  Cardinality(B) + Cardinality(MayJoin(B)') <= Bound
  BY DEF Room, Bound
<1>1. B \in SUBSET Seen /\ B \in SUBSET ActiveAdmins /\ B \in SUBSET Users
  BY DEF Seen, ActiveAdmins
<1>2. ASSUME NEW q \in MayJoin(B)' PROVE q \in MayJoin(B)
  <2>1. /\ q \in Requests /\ Pending(q)'
        /\ Cardinality(B \cap Found(q)') < MaxActiveAdmins
    BY <1>2 DEF MayJoin
  <2>2. B \cap Found(q) \subseteq B \cap Found(q)'
    BY <1>1, <2>1
  <2>3. /\ Cardinality(B \cap Found(q)) <= Cardinality(B \cap Found(q)')
        /\ Cardinality(B \cap Found(q)) \in Nat /\ Cardinality(B \cap Found(q)') \in Nat
    <3> DEFINE S == B \cap Found(q)'
               T == B \cap Found(q)
    <3>1. S \in SUBSET Users /\ T \in SUBSET S
      BY <1>1, <2>2
    <3> HIDE DEF S, T
    <3>2. Cardinality(T) <= Cardinality(S) /\ Cardinality(T) \in Nat /\ Cardinality(S) \in Nat
      BY <3>1, PartIsSmaller DEF Finite
    <3> QED
      BY <3>2 DEF S, T
  <2>4. Cardinality(B \cap Found(q)) < MaxActiveAdmins
    BY <2>1, <2>3, AdminsAssumption
  <2> QED
    BY <2>1, <2>4 DEF MayJoin
<1>3. /\ MayJoin(B) \in SUBSET Requests /\ MayJoin(B)' \in SUBSET MayJoin(B)
  BY <1>2 DEF MayJoin
<1>4. /\ Cardinality(MayJoin(B)') <= Cardinality(MayJoin(B))
      /\ Cardinality(MayJoin(B)) \in Nat /\ Cardinality(MayJoin(B)') \in Nat
  BY <1>3, PartIsSmaller DEF Finite
<1>5. Cardinality(B) \in Nat
  BY <1>1, PartIsSmaller DEF Finite
<1>6. Cardinality(B) + Cardinality(MayJoin(B)) <= Bound
  BY <1>1 DEF Room
<1> QED
  BY <1>4, <1>5, <1>6, BoundType

\* A count that begins finds every active administrator: it may be let through
\* only if fewer than the cap remain, and then there is room for all requests.
LEMMA RoomOnCount ==
    ASSUME Finite, Room, NEW r \in Requests, Seen' = Seen,
           Seen \subseteq Found(r)',
           \A q \in Requests \ {r} :
              (Pending(q)' => Pending(q)) /\ Found(q)' = Found(q)
    PROVE  Room'
<1> SUFFICES ASSUME NEW B \in SUBSET Seen
             PROVE  Cardinality(B) + Cardinality(MayJoin(B)') <= Bound
  BY DEF Room, Bound
<1>1. B \in SUBSET Users /\ MayJoin(B) \in SUBSET Requests /\ MayJoin(B)' \in SUBSET Requests
  BY DEF Seen, ActiveAdmins, MayJoin
<1>2. /\ Cardinality(B) \in Nat
      /\ Cardinality(MayJoin(B)) \in Nat /\ Cardinality(MayJoin(B)') \in Nat
      /\ Cardinality(MayJoin(B)') <= Cardinality(Requests)
  BY <1>1, PartIsSmaller DEF Finite
<1>3. CASE Cardinality(B) < MaxActiveAdmins
  BY <1>2, <1>3, BoundType
<1>4. CASE ~(Cardinality(B) < MaxActiveAdmins)
  <2>1. B \cap Found(r)' = B
    OBVIOUS
  <2>2. r \notin MayJoin(B)'
    BY <1>4, <2>1 DEF MayJoin
  <2>3. \A q \in Requests \ {r} : q \in MayJoin(B)' => q \in MayJoin(B)
    BY DEF MayJoin
  <2>4. MayJoin(B)' \in SUBSET MayJoin(B)
    BY <1>1, <2>2, <2>3
  <2>5. Cardinality(MayJoin(B)') <= Cardinality(MayJoin(B))
    BY <1>1, <2>4, PartIsSmaller DEF Finite
  <2>6. Cardinality(B) + Cardinality(MayJoin(B)) <= Bound
    BY DEF Room
  <2> QED
    BY <1>2, <2>5, <2>6, BoundType
<1> QED
  BY <1>3, <1>4

\* A request that was let through takes the room that was kept for it.
LEMMA RoomOnJoin ==
    ASSUME Finite, Room, NEW r \in Requests, NEW x \in Users,
           Seen' = Seen \cup {x},
           Pending(r), txn[r].todo = {}, ~Pending(r)',
           Cardinality(Locked(r) \ {x}) < MaxActiveAdmins,
           \A q \in Requests \ {r} :
              (Pending(q)' => Pending(q)) /\ Found(q)' = Found(q)
    PROVE  Room'
<1> SUFFICES ASSUME NEW B \in SUBSET (Seen \cup {x})
             PROVE  Cardinality(B) + Cardinality(MayJoin(B)') <= Bound
  BY DEF Room, Bound
<1> DEFINE C == B \ {x}
<1>1. C \in SUBSET Seen /\ C \in SUBSET ActiveAdmins /\ C \in SUBSET Users
      /\ C \in SUBSET B /\ B \in SUBSET Users
  BY DEF Seen, ActiveAdmins
<1>2. MayJoin(C) \in SUBSET Requests
  BY DEF MayJoin
<1>3. /\ Cardinality(C) \in Nat /\ Cardinality(B) \in Nat
      /\ Cardinality(MayJoin(C)) \in Nat /\ IsFiniteSet(MayJoin(C)) /\ IsFiniteSet(C)
  BY <1>1, <1>2, PartIsSmaller DEF Finite
<1>4. r \in MayJoin(C)
  <2>1. C \cap Found(r) \subseteq Locked(r) \ {x}
    BY <1>1 DEF Found, Locked
  <2>2. Locked(r) \ {x} \in SUBSET Users
    BY DEF Locked, ActiveAdmins
  <2> DEFINE S == Locked(r) \ {x}
             T == C \cap Found(r)
  <2>3. S \in SUBSET Users /\ T \in SUBSET S /\ Cardinality(S) < MaxActiveAdmins
    BY <2>1, <2>2
  <2> HIDE DEF S, T
  <2>4. Cardinality(T) <= Cardinality(S) /\ Cardinality(T) \in Nat /\ Cardinality(S) \in Nat
    BY <2>3, PartIsSmaller DEF Finite
  <2>5. Cardinality(T) < MaxActiveAdmins
    BY <2>3, <2>4, AdminsAssumption
  <2> QED
    BY <2>5 DEF T, MayJoin
<1>5. ASSUME NEW q \in MayJoin(B)' PROVE q \in MayJoin(C) \ {r}
  <2>1. /\ q \in Requests /\ Pending(q)' /\ q # r
        /\ Cardinality(B \cap Found(q)') < MaxActiveAdmins
    BY <1>5 DEF MayJoin
  <2>2. Pending(q) /\ Found(q)' = Found(q)
    BY <2>1
  <2> DEFINE S == B \cap Found(q)
             T == C \cap Found(q)
  <2>3. S \in SUBSET Users /\ T \in SUBSET S /\ Cardinality(S) < MaxActiveAdmins
    BY <1>1, <2>1, <2>2
  <2> HIDE DEF S, T
  <2>4. Cardinality(T) <= Cardinality(S) /\ Cardinality(T) \in Nat /\ Cardinality(S) \in Nat
    BY <2>3, PartIsSmaller DEF Finite
  <2>5. Cardinality(T) < MaxActiveAdmins
    BY <2>3, <2>4, AdminsAssumption
  <2> QED
    BY <2>1, <2>2, <2>5 DEF T, MayJoin
<1>6. /\ Cardinality(MayJoin(B)') \in Nat
      /\ Cardinality(MayJoin(B)') <= Cardinality(MayJoin(C)) - 1
  <2>1. /\ MayJoin(C) \ {r} \in SUBSET Requests
        /\ MayJoin(B)' \in SUBSET (MayJoin(C) \ {r})
    BY <1>2, <1>5
  <2>2. Cardinality(MayJoin(C) \ {r}) = Cardinality(MayJoin(C)) - 1
    BY <1>3, <1>4, FS_RemoveElement
  <2>3. /\ Cardinality(MayJoin(B)') \in Nat
        /\ Cardinality(MayJoin(B)') <= Cardinality(MayJoin(C) \ {r})
    BY <2>1, PartIsSmaller DEF Finite
  <2> QED
    BY <2>2, <2>3
<1>7. Cardinality(B) <= Cardinality(C) + 1
  <2>1. CASE x \in B
    <3>1. IsFiniteSet(B)
      BY <1>1, PartIsSmaller DEF Finite
    <3>2. Cardinality(C) = Cardinality(B) - 1
      BY <2>1, <3>1, FS_RemoveElement
    <3> QED
      BY <1>3, <3>2
  <2>2. CASE x \notin B
    <3>1. C = B
      BY <2>2
    <3> QED
      BY <1>3, <3>1
  <2> QED
    BY <2>1, <2>2
<1>8. Cardinality(C) + Cardinality(MayJoin(C)) <= Bound
  BY <1>1 DEF Room
<1> HIDE DEF C
<1> QED
  BY <1>3, <1>6, <1>7, <1>8, BoundType

\* Whatever a request does, the other requests keep their state and their locks.
LEMMA OthersKeep ==
    ASSUME TypeOK, NEW r \in Requests, Step(r), NEW q \in Requests \ {r}
    PROVE  /\ txn'[q] = txn[q]
           /\ \A u \in Users : lock'[u] = q <=> lock[u] = q
<1> USE AdminsAssumption DEF TypeOK
<1>1. ASSUME Rollback(r) \/ Finish(r)
      PROVE  /\ txn'[q] = txn[q]
             /\ \A u \in Users : lock'[u] = q <=> lock[u] = q
  BY <1>1 DEF Rollback, Finish
<1>2. CASE Authorize(r)
  BY <1>2 DEF Authorize
<1>3. CASE \E u \in Users, p \in Patches : ReadTarget(r, u, p)
  BY <1>1, <1>3 DEF ReadTarget
<1>4. CASE StartCount(r)
  BY <1>4 DEF StartCount
<1>5. CASE LockNext(r)
  BY <1>5 DEF LockNext, Free
<1>6. CASE Write(r)
  <2>1. \/ Rollback(r)
        \/ /\ txn' = [txn EXCEPT ![r] = [@ EXCEPT !.pc = "written", !.counted = 0]]
           /\ \/ lock' = lock
              \/ Free(txn[r].target, r) /\ lock' = [lock EXCEPT ![txn[r].target] = r]
    BY <1>6 DEF Write
  <2> QED
    BY <1>1, <2>1 DEF Free
<1>7. CASE Refuse(r) \/ DeadlockVictim(r) \/ Lost(r)
  BY <1>1, <1>7 DEF Refuse, DeadlockVictim, Lost
<1>8. CASE Commit(r)
  BY <1>1, <1>8 DEF Commit
<1> QED
  BY <1>2, <1>3, <1>4, <1>5, <1>6, <1>7, <1>8 DEF Step

\* A row another request holds is not written, so that request's count stands.
LEMMA OthersCountStands ==
    ASSUME TypeOK, NEW q \in Requests, CountStands(q), txn'[q] = txn[q],
           \A u \in Users : lock'[u] = q <=> lock[u] = q,
           \A u \in Users : lock[u] = q => user'[u] = user[u]
    PROVE  CountStands(q)'
<1>1. Locked(q)' = Locked(q)
  BY DEF Locked, ActiveAdmins
<1>2. Joins(txn[q])' <=> Joins(txn[q])
  BY DEF Joins
<1> QED
  BY <1>1, <1>2 DEF CountStands

\* A step that writes no row and leaves its request with no count, or with the
\* one it had, keeps the room.
LEMMA RoomOnStay ==
    ASSUME Finite, IInv, RoomInv, NEW r \in Requests, Step(r),
           user' = user, uncounted' = uncounted,
           Pending(r)' => Pending(r) /\ Found(r) \subseteq Found(r)',
           CountStands(r)'
    PROVE  RoomInv'
<1>1. \A q \in Requests \ {r} :
         /\ txn'[q] = txn[q] /\ \A u \in Users : lock'[u] = q <=> lock[u] = q
  BY OthersKeep DEF IInv
<1>2. Seen' = Seen
  BY DEF Seen, ActiveAdmins
<1>3. \A q \in Requests \ {r} : CountStands(q)'
  BY <1>1, OthersCountStands DEF IInv, RoomInv
<1>4. \A q \in Requests \ {r} : Found(q)' = Found(q) /\ (Pending(q)' => Pending(q))
  BY <1>1 DEF Found, Pending, Joins
<1>5. Room'
  BY <1>2, <1>4, RoomShrinks DEF RoomInv
<1> QED
  BY <1>3, <1>5 DEF RoomInv

\* Ending without a write.
LEMMA RollbackRoom ==
    ASSUME Finite, IInv, RoomInv, NEW r \in Requests, Step(r), Rollback(r)
    PROVE  RoomInv'
<1>1. txn'[r] = Idle /\ user' = user /\ uncounted' = uncounted
  BY DEF Rollback, Finish, IInv, TypeOK
<1>2. ~Pending(r)' /\ CountStands(r)'
  BY <1>1 DEF Pending, CountStands, Idle
<1> QED
  BY <1>1, <1>2, RoomOnStay

\* Nobody counts before the target is read.
LEMMA ReadRoom ==
    ASSUME Finite, IInv, RoomInv, NEW r \in Requests, Step(r),
           \/ Authorize(r)
           \/ \E u \in Users, p \in Patches : ReadTarget(r, u, p) /\ ~Misdirected(u, p)
    PROVE  RoomInv'
<1>1. txn'[r].pc \in {"authorized", "read"} /\ UNCHANGED <<user, uncounted>>
  <2>0. txn \in [Requests -> Txn] /\ [Idle EXCEPT !.pc = "authorized"].pc = "authorized"
    BY DEF IInv, TypeOK, Idle
  <2>1. CASE Authorize(r)
    BY <2>0, <2>1 DEF Authorize
  <2>2. ASSUME NEW u \in Users, NEW p \in Patches,
               ReadTarget(r, u, p), ~Misdirected(u, p)
        PROVE  txn'[r].pc = "read" /\ UNCHANGED <<user, uncounted>>
    BY <2>0, <2>2 DEF ReadTarget
  <2> QED
    BY <2>1, <2>2
<1> QED
  BY <1>1, RoomOnStay DEF Pending, CountStands

\* A count begins without a lock and finds them all.
LEMMA StartCountRoom ==
    ASSUME Finite, IInv, RoomInv, NEW r \in Requests, Step(r), StartCount(r)
    PROVE  RoomInv'
<1>0. /\ TypeOK /\ txn \in [Requests -> Txn] /\ txn[r] \in Txn /\ txn[r].pc = "read"
      /\ LocksCover(r)
  BY DEF IInv, TypeOK, StartCount
<1>1. PICK s : /\ s = [txn[r] EXCEPT !.pc = "locking", !.todo = ActiveAdmins]
               /\ txn' = [txn EXCEPT ![r] = s] /\ UNCHANGED <<user, lock, uncounted>>
  BY Zenon DEF StartCount
<1>2. s.pc = "locking" /\ s.todo = ActiveAdmins /\ s.counted = txn[r].counted
  BY <1>0, <1>1 DEF Txn
<1>3. txn'[r] = s
  BY <1>0, <1>1
<1>4. \A u \in Users : lock[u] # r
  BY <1>0 DEF LocksCover
<1>5. CountStands(r)'
  <2>1. Locked(r)' = {}
    BY <1>1, <1>4 DEF Locked, ActiveAdmins
  <2>2. Cardinality(Locked(r)') = 0
    BY <2>1, FS_EmptySet
  <2>3. txn[r].counted = 0
    BY <1>0 DEF LocksCover
  <2> QED
    BY <1>2, <1>3, <2>2, <2>3 DEF CountStands
<1>6. \A q \in Requests \ {r} :
         /\ txn'[q] = txn[q] /\ \A u \in Users : lock'[u] = q <=> lock[u] = q
  BY OthersKeep DEF IInv
<1>7. \A q \in Requests \ {r} : CountStands(q)'
  BY <1>1, <1>6, OthersCountStands DEF IInv, RoomInv
<1>8. \A q \in Requests \ {r} : Found(q)' = Found(q) /\ (Pending(q)' => Pending(q))
  BY <1>6 DEF Found, Pending, Joins
<1>9. Seen' = Seen /\ Seen \subseteq Found(r)'
  BY <1>1, <1>2, <1>3 DEF Seen, ActiveAdmins, Found
<1>10. Room'
  BY <1>8, <1>9, RoomOnCount DEF RoomInv
<1> QED
  BY <1>5, <1>7, <1>10 DEF RoomInv

\* A row is locked and, if it is still an active administrator's, counted.
LEMMA LockNextRoom ==
    ASSUME Finite, IInv, RoomInv, NEW r \in Requests, Step(r), LockNext(r)
    PROVE  RoomInv'
<1>0. PICK u \in NextToLock(r) :
         /\ txn[r].pc = "locking" /\ Free(u, r)
         /\ lock' = [lock EXCEPT ![u] = r]
         /\ txn' = [txn EXCEPT ![r] =
                [@ EXCEPT !.todo = txn[r].todo \ {u}, !.counted = CountWith(r, u)]]
         /\ user' = user /\ uncounted' = uncounted
  BY DEF LockNext
<1>1. /\ TypeOK /\ u \in txn[r].todo /\ u \in Users /\ txn[r] \in Txn
      /\ txn \in [Requests -> Txn] /\ lock[u] # r /\ txn[r].counted \in Nat
      /\ CountStands(r)
  BY <1>0, TxnTypes DEF IInv, NextToLock, LocksCover, TypeOK, RoomInv
<1>2. PICK s : /\ s = [txn[r] EXCEPT !.todo = txn[r].todo \ {u}, !.counted = CountWith(r, u)]
               /\ txn' = [txn EXCEPT ![r] = s]
  BY <1>0, Zenon
<1>3. /\ s.pc = "locking" /\ s.todo = txn[r].todo \ {u} /\ s.counted = CountWith(r, u)
      /\ s.patch = txn[r].patch /\ s.old = txn[r].old
  BY <1>0, <1>1, <1>2 DEF Txn
<1>4. txn'[r] = s
  BY <1>1, <1>2
<1>5. /\ lock'[u] = r /\ \A v \in Users \ {u} : lock'[v] = lock[v]
  BY <1>0, <1>1 DEF TypeOK
<1>6. Found(r) \subseteq Found(r)'
  BY <1>1, <1>3, <1>4, <1>5 DEF Found
<1>7. Pending(r)' => Pending(r)
  BY <1>0, <1>3, <1>4 DEF Pending, Joins
<1>8. CountStands(r)'
  <2>1. IsFiniteSet(Locked(r)) /\ Cardinality(Locked(r)) \in Nat
    <3>1. Locked(r) \in SUBSET Users
      BY DEF Locked, ActiveAdmins
    <3> QED
      BY <3>1, PartIsSmaller DEF Finite
  <2>2. Cardinality(Locked(r)) <= txn[r].counted
    BY <1>0, <1>1 DEF CountStands
  <2>3. CASE ActiveAdmin(user[u])
    <3>1. Locked(r)' = Locked(r) \cup {u} /\ u \notin Locked(r)
      BY <1>0, <1>1, <1>5, <2>3 DEF Locked, ActiveAdmins
    <3>2. Cardinality(Locked(r)') = Cardinality(Locked(r)) + 1
      BY <2>1, <3>1, FS_AddElement
    <3>3. s.counted = txn[r].counted + 1
      BY <1>3, <2>3 DEF CountWith
    <3> QED
      BY <1>1, <1>3, <1>4, <2>1, <2>2, <3>2, <3>3 DEF CountStands
  <2>4. CASE ~ActiveAdmin(user[u])
    <3>1. Locked(r)' = Locked(r)
      BY <1>0, <1>1, <1>5, <2>4 DEF Locked, ActiveAdmins
    <3>2. s.counted = txn[r].counted
      BY <1>3, <2>4 DEF CountWith
    <3> QED
      BY <1>3, <1>4, <2>2, <3>1, <3>2 DEF CountStands
  <2> QED
    BY <2>3, <2>4
<1> QED
  BY <1>0, <1>6, <1>7, <1>8, RoomOnStay

\* Whoever writes after a count has counted less than the cap.
LEMMA WriteRoom ==
    ASSUME Finite, IInv, RoomInv, NEW r \in Requests, Step(r), Write(r)
    PROVE  RoomInv'
<1>1. CASE Duplicate(r)
  BY <1>1, RollbackRoom DEF Write
<1>2. CASE ~Duplicate(r)
  <2>0. /\ TypeOK /\ txn[r] \in Txn /\ Permitted(r) /\ txn \in [Requests -> Txn]
        /\ txn[r].target \in Users /\ CountStands(r) /\ txn[r].counted \in Nat
    BY <1>2, TxnTypes DEF IInv, TypeOK, Write, LoadedStands, Permitted, Counted, RoomInv
  <2>1. PICK s : /\ s = [txn[r] EXCEPT !.pc = "written", !.counted = 0]
                 /\ txn' = [txn EXCEPT ![r] = s] /\ UNCHANGED <<user, uncounted>>
    BY <1>2, Zenon DEF Write
  <2>2. /\ s.pc = "written" /\ s.todo = txn[r].todo /\ s.patch = txn[r].patch
        /\ s.old = txn[r].old /\ s.target = txn[r].target
    BY <2>0, <2>1 DEF Txn
  <2>3. txn'[r] = s
    BY <2>0, <2>1
  <2>4. \A v \in Users : /\ lock[v] = r => lock'[v] = r
                         /\ v # txn[r].target => lock'[v] = lock[v]
    BY <1>2, <2>0 DEF Write, TypeOK
  <2>5. Joins(txn'[r]) <=> Joins(txn[r])
    BY <2>2, <2>3 DEF Joins
  <2>6. Joins(txn[r]) => /\ txn[r].pc = "locking" /\ txn[r].todo = {}
                         /\ txn[r].counted < MaxActiveAdmins
    BY <2>0, AdminsAssumption DEF Permitted, Counted, OverLimit
  <2>7. Pending(r)' => Pending(r) /\ Found(r) \subseteq Found(r)'
    BY <2>2, <2>3, <2>4, <2>5, <2>6 DEF Pending, Found
  <2>8. Joins(txn[r]) => Cardinality(Locked(r)' \ {txn[r].target}) < MaxActiveAdmins
    <3> SUFFICES ASSUME Joins(txn[r])
                 PROVE  Cardinality(Locked(r)' \ {txn[r].target}) < MaxActiveAdmins
      OBVIOUS
    <3> DEFINE S == Locked(r)
               T == Locked(r)' \ {txn[r].target}
    <3>1. S \in SUBSET Users /\ T \in SUBSET S
      BY <2>1, <2>4 DEF Locked, ActiveAdmins
    <3>2. Cardinality(S) <= txn[r].counted
      BY <2>0, <2>6 DEF CountStands
    <3> HIDE DEF S, T
    <3>3. Cardinality(T) <= Cardinality(S) /\ Cardinality(T) \in Nat /\ Cardinality(S) \in Nat
      BY <3>1, PartIsSmaller DEF Finite
    <3>4. Cardinality(T) < MaxActiveAdmins
      BY <2>0, <2>6, <3>2, <3>3, AdminsAssumption
    <3> QED
      BY <3>4 DEF T
  <2>9. CountStands(r)'
    BY <2>2, <2>3, <2>5, <2>6, <2>8 DEF CountStands
  <2> QED
    BY <2>1, <2>7, <2>9, RoomOnStay
<1> QED
  BY <1>1, <1>2

\* A commit adds one administrator who was counted for, or none.
LEMMA CommitRoom ==
    ASSUME Finite, IInv, RoomInv, NEW r \in Requests, Step(r), Commit(r)
    PROVE  RoomInv'
<1> DEFINE u == txn[r].target
<1>1. /\ TypeOK /\ txn[r].pc = "written" /\ u \in Users /\ CommitsSafely(r)
      /\ CountStands(r) /\ user[u] \in Row /\ txn[r] \in Txn
  BY TxnTypes DEF Commit, IInv, LoadedStands, TypeOK, RoomInv
<1>2. /\ user'[u] = Written(r) /\ \A v \in Users \ {u} : user'[v] = user[v]
      /\ txn'[r] = Idle
  BY <1>1 DEF Commit, Finish, TypeOK, Written
<1>3. ~Writes(txn[r]) => user'[u] = user[u]
  <2>1. user[u] = [role |-> user[u].role, is_active |-> user[u].is_active]
    BY <1>1 DEF Row
  <2> QED
    BY <1>1, <1>2, <2>1 DEF Writes, Changes, Written, Apply, Set
<1>4. \A q \in Requests \ {r} :
         /\ txn'[q] = txn[q] /\ \A v \in Users : lock'[v] = q <=> lock[v] = q
  BY <1>1, OthersKeep
<1>5. \A q \in Requests \ {r} : CountStands(q)'
  <2>1. \A q \in Requests \ {r} : \A v \in Users : lock[v] = q => user'[v] = user[v]
    BY <1>1, <1>2, <1>3 DEF CommitsSafely
  <2> QED
    BY <1>1, <1>4, <2>1, OthersCountStands DEF RoomInv
<1>6. \A q \in Requests \ {r} : Found(q)' = Found(q) /\ (Pending(q)' => Pending(q))
  BY <1>4 DEF Found, Pending, Joins
<1>7. ~Pending(r)' /\ CountStands(r)'
  BY <1>2 DEF Pending, CountStands, Idle
<1>8. uncounted' = Uncounted(r)
  BY DEF Commit
<1>9. CASE Joins(txn[r]) /\ ~ActiveAdmin(user[u]) /\ ActiveAdmin(Written(r))
  <2>1. /\ Pending(r) /\ txn[r].todo = {}
        /\ Cardinality(Locked(r) \ {u}) < MaxActiveAdmins
    BY <1>1, <1>9 DEF Pending, CountStands
  <2>2. Seen' = Seen \cup {u}
    BY <1>1, <1>2, <1>8, <1>9 DEF Seen, ActiveAdmins, Uncounted
  <2>3. Room'
    BY <1>1, <1>6, <1>7, <2>1, <2>2, RoomOnJoin DEF RoomInv
  <2> QED
    BY <1>5, <1>7, <2>3 DEF RoomInv
<1>10. CASE ~(Joins(txn[r]) /\ ~ActiveAdmin(user[u]) /\ ActiveAdmin(Written(r)))
  <2>1. Seen' \subseteq Seen
    BY <1>1, <1>2, <1>8, <1>10 DEF Seen, ActiveAdmins, Uncounted
  <2>2. Room'
    BY <1>6, <1>7, <2>1, RoomShrinks DEF RoomInv
  <2> QED
    BY <1>5, <1>7, <2>2 DEF RoomInv
<1> QED
  BY <1>9, <1>10

\* Every step keeps the room.
LEMMA NextRoom == Finite /\ IInv /\ RoomInv /\ [Next]_vars => RoomInv'
<1> SUFFICES ASSUME Finite, IInv, RoomInv, [Next]_vars PROVE RoomInv'
  OBVIOUS
<1>1. ASSUME NEW r \in Requests, Step(r) PROVE RoomInv'
  <2>1. CASE Authorize(r)
    BY <1>1, <2>1, ReadRoom
  <2>2. ASSUME NEW u \in Users, NEW p \in Patches, ReadTarget(r, u, p) PROVE RoomInv'
    <3>1. CASE Misdirected(u, p)
      BY <1>1, <2>2, <3>1, RollbackRoom DEF ReadTarget
    <3> QED
      BY <1>1, <2>2, <3>1, ReadRoom
  <2>3. CASE StartCount(r)
    BY <1>1, <2>3, StartCountRoom
  <2>4. CASE LockNext(r)
    BY <1>1, <2>4, LockNextRoom
  <2>5. CASE Write(r)
    BY <1>1, <2>5, WriteRoom
  <2>6. CASE Commit(r)
    BY <1>1, <2>6, CommitRoom
  <2>7. CASE Refuse(r) \/ DeadlockVictim(r) \/ Lost(r)
    BY <1>1, <2>7, RollbackRoom DEF Refuse, DeadlockVictim, Lost
  <2> QED
    BY <1>1, <2>1, <2>2, <2>3, <2>4, <2>5, <2>6, <2>7 DEF Step
<1>2. CASE UNCHANGED vars
  <2>1. Seen' = Seen /\ txn' = txn /\ lock' = lock /\ user' = user
    BY <1>2 DEF vars, Seen, ActiveAdmins
  <2>2. \A q \in Requests : Found(q)' = Found(q) /\ (Pending(q)' <=> Pending(q))
    BY <2>1 DEF Found, Pending, Joins
  <2>3. Room'
    BY <2>1, <2>2, RoomShrinks DEF RoomInv
  <2>4. \A q \in Requests : CountStands(q)'
    BY <2>1, OthersCountStands DEF IInv, RoomInv
  <2> QED
    BY <2>3, <2>4 DEF RoomInv
<1> QED
  BY <1>1, <1>2 DEF Next

\* Requests that overlap pass the cap by at most one each, but for one: however
\* often each of them counts, joins, leaves and tries again, and whatever it
\* changes, administrators apart who were made without a count.
THEOREM OverrunStaysBounded == Finite => (Spec => []OverrunIsBounded)
<1> SUFFICES ASSUME Finite PROVE Spec => []OverrunIsBounded
  OBVIOUS
<1>1. Init => IInv /\ RoomInv
  BY InitIInv, InitRoom
<1>2. IInv /\ RoomInv /\ [Next]_vars => (IInv /\ RoomInv)'
  BY NextIInv, NextRoom
<1>3. IInv /\ RoomInv => OverrunIsBounded
  <2> SUFFICES ASSUME RoomInv PROVE OverrunIsBounded
    OBVIOUS
  <2>1. Seen \in SUBSET Users /\ MayJoin(Seen) \in SUBSET Requests
    BY DEF Seen, ActiveAdmins, MayJoin
  <2>2. Cardinality(Seen) \in Nat /\ Cardinality(MayJoin(Seen)) \in Nat
    BY <2>1, PartIsSmaller DEF Finite
  <2>3. Cardinality(Seen) + Cardinality(MayJoin(Seen)) <= Bound
    BY DEF RoomInv, Room
  <2> QED
    BY <2>2, <2>3, BoundType DEF OverrunIsBounded, Bound, Seen
<1> QED
  BY <1>1, <1>2, <1>3, PTL DEF Spec
-----------------------------------------------------------------------------
(* The order of locks. *)

\* A request has a target, takes no lock before it counts, and what it has
\* locked comes before what it has yet to lock.
LocksInOrder(r) ==
    /\ txn[r].pc \notin {"idle", "authorized"} => txn[r].target \in Users
    /\ txn[r].pc \in {"idle", "authorized", "read"} => \A u \in Users : lock[u] # r
    /\ txn[r].pc = "locking" =>
           \A u \in Users : lock[u] = r => \A v \in txn[r].todo : u < v

OrderInv == TypeOK /\ \A r \in Requests : LocksInOrder(r)

\* A request whose record stands and that gets no lock.
LEMMA OrderStands ==
    ASSUME NEW r \in Requests, LocksInOrder(r), txn'[r] = txn[r],
           \A u \in Users : lock'[u] = r => lock[u] = r
    PROVE  LocksInOrder(r)'
BY DEF LocksInOrder

\* A request that ends.
LEMMA FinishOrder ==
    ASSUME OrderInv, NEW r \in Requests, Finish(r), user' \in [Users -> Row],
           uncounted' \subseteq Users
    PROVE  OrderInv'
<1> USE DEF Finish
<1>1. Idle \in Txn
  BY DEF Idle, Txn, Patch, NoPatch, Row, Absent
<1>2. TypeOK'
  BY <1>1 DEF OrderInv, TypeOK
<1>3. ASSUME NEW q \in Requests PROVE LocksInOrder(q)'
  <2>1. CASE q = r
    <3>1. txn'[q] = Idle /\ \A u \in Users : lock'[u] # q
      BY <2>1, AdminsAssumption DEF OrderInv, TypeOK
    <3> QED
      BY <3>1 DEF Idle, LocksInOrder
  <2>2. CASE q # r
    <3>1. txn'[q] = txn[q] /\ \A u \in Users : lock'[u] = q => lock[u] = q
      BY <2>2, AdminsAssumption DEF OrderInv, TypeOK
    <3> QED
      BY <3>1, OrderStands DEF OrderInv
  <2> QED
    BY <2>1, <2>2
<1> QED
  BY <1>2, <1>3 DEF OrderInv

\* A step that changes one request's record and takes at most free locks.
LEMMA MoveOrder ==
    ASSUME OrderInv, NEW r \in Requests, NEW t \in Txn,
           txn' = [txn EXCEPT ![r] = t], user' = user, uncounted' = uncounted,
           lock' \in [Users -> Requests \cup {Nobody}],
           \A u \in Users : lock'[u] = lock[u] \/ lock'[u] = r,
           LocksInOrder(r)'
    PROVE  OrderInv'
<1>1. TypeOK'
  BY DEF OrderInv, TypeOK
<1>2. ASSUME NEW q \in Requests PROVE LocksInOrder(q)'
  <2>1. CASE q # r
    <3>1. txn'[q] = txn[q] /\ \A u \in Users : lock'[u] = q => lock[u] = q
      BY <2>1 DEF OrderInv, TypeOK
    <3> QED
      BY <3>1, OrderStands DEF OrderInv
  <2> QED
    BY <2>1
<1> QED
  BY <1>1, <1>2 DEF OrderInv

\* Nothing is locked until a request counts.
LEMMA QuietOrder ==
    ASSUME OrderInv, NEW r \in Requests, NEW t \in Txn,
           txn[r].pc \in {"idle", "authorized", "read"},
           t.pc \in {"authorized", "read", "locking"},
           t.pc # "authorized" => t.target \in Users,
           txn' = [txn EXCEPT ![r] = t], UNCHANGED <<user, lock, uncounted>>
    PROVE  OrderInv'
<1>1. txn'[r] = t
  BY DEF OrderInv, TypeOK
<1>2. LocksInOrder(r)'
  BY <1>1 DEF OrderInv, LocksInOrder
<1> QED
  BY <1>2, MoveOrder DEF OrderInv, TypeOK

LEMMA ReadOrder ==
    ASSUME OrderInv, NEW r \in Requests,
           \/ Authorize(r)
           \/ \E u \in Users, p \in Patches : ReadTarget(r, u, p)
           \/ StartCount(r)
    PROVE  OrderInv'
<1>0. TypeOK
  BY DEF OrderInv
<1>1. CASE Authorize(r)
  <2> DEFINE t == [Idle EXCEPT !.pc = "authorized"]
  <2>1. t \in Txn /\ t.pc = "authorized"
    BY DEF Idle, NoPatch, Patch, Txn, Row, Absent
  <2>2. /\ txn' = [txn EXCEPT ![r] = t] /\ UNCHANGED <<user, lock, uncounted>>
        /\ txn[r].pc = "idle"
    BY <1>1 DEF Authorize
  <2> HIDE DEF t
  <2> QED
    BY <2>1, <2>2, QuietOrder
<1>2. ASSUME NEW u \in Users, NEW p \in Patches, ReadTarget(r, u, p) PROVE OrderInv'
  <2>1. CASE Misdirected(u, p)
    <3>1. Finish(r) /\ user' = user /\ uncounted' = uncounted
      BY <1>2, <2>1 DEF ReadTarget, Rollback
    <3> QED
      BY <3>1, FinishOrder DEF OrderInv, TypeOK
  <2>2. CASE ~Misdirected(u, p)
    <3> DEFINE t == [pc |-> "read", target |-> u, patch |-> p, old |-> user[u],
                     todo |-> {}, counted |-> 0]
    <3>1. t \in Txn /\ t.pc = "read" /\ t.target = u
      BY <1>0, AdminsAssumption DEF Txn, TypeOK
    <3>2. /\ txn' = [txn EXCEPT ![r] = t] /\ UNCHANGED <<user, lock, uncounted>>
          /\ txn[r].pc = "authorized"
      BY <1>2, <2>2 DEF ReadTarget
    <3> HIDE DEF t
    <3> QED
      BY <3>1, <3>2, QuietOrder
  <2> QED
    BY <2>1, <2>2
<1>3. CASE StartCount(r)
  <2>1. PICK t : /\ t = [txn[r] EXCEPT !.pc = "locking", !.todo = ActiveAdmins]
                 /\ txn' = [txn EXCEPT ![r] = t] /\ UNCHANGED <<user, lock, uncounted>>
    BY <1>3, Zenon DEF StartCount
  <2>2. txn[r].pc = "read" /\ txn[r].target \in Users
    BY <1>3 DEF StartCount, OrderInv, LocksInOrder
  <2>3. ActiveAdmins \in SUBSET Users
    BY DEF ActiveAdmins
  <2>4. t \in Txn /\ t.pc = "locking" /\ t.target = txn[r].target
    BY <1>0, <2>1, <2>3, TxnTypes DEF Txn
  <2> QED
    BY <2>1, <2>2, <2>4, QuietOrder
<1> QED
  BY <1>1, <1>2, <1>3

\* The row that is locked comes before those that remain.
LEMMA LockOrder ==
    ASSUME OrderInv, NEW r \in Requests, LockNext(r) PROVE OrderInv'
<1>1. PICK u \in NextToLock(r) :
         /\ txn[r].pc = "locking" /\ Free(u, r)
         /\ lock' = [lock EXCEPT ![u] = r]
         /\ txn' = [txn EXCEPT ![r] =
                [@ EXCEPT !.todo = txn[r].todo \ {u}, !.counted = CountWith(r, u)]]
         /\ user' = user /\ uncounted' = uncounted
  BY DEF LockNext
<1>2. PICK t : /\ t = [txn[r] EXCEPT !.todo = txn[r].todo \ {u}, !.counted = CountWith(r, u)]
               /\ txn' = [txn EXCEPT ![r] = t]
  BY <1>1, Zenon
<1>3. TypeOK /\ LocksInOrder(r) /\ u \in txn[r].todo /\ u \in Users
  BY <1>1, TxnTypes DEF OrderInv, NextToLock
<1>4. CountWith(r, u) \in Nat
  BY <1>3, TxnTypes DEF CountWith
<1>5. /\ t \in Txn /\ t.pc = "locking" /\ t.target = txn[r].target
      /\ t.todo = txn[r].todo \ {u}
  BY <1>1, <1>2, <1>3, <1>4, TxnTypes DEF Txn
<1>6. lock' \in [Users -> Requests \cup {Nobody}]
      /\ \A v \in Users : lock'[v] = IF v = u THEN r ELSE lock[v]
  BY <1>1, <1>3 DEF TypeOK
<1>7. txn'[r] = t
  BY <1>2, <1>3 DEF TypeOK
<1>8. ASSUME NEW v \in Users, lock'[v] = r, NEW w \in t.todo PROVE v < w
  <2>1. w \in txn[r].todo /\ w # u /\ u <= w /\ u \in Nat /\ w \in Nat
    BY <1>1, <1>3, <1>5, <1>8, TxnTypes, AdminsAssumption DEF NextToLock
  <2>2. CASE v = u
    BY <2>1, <2>2
  <2>3. CASE v # u
    BY <1>1, <1>3, <1>6, <1>8, <2>1, <2>3 DEF LocksInOrder
  <2> QED
    BY <2>2, <2>3
<1>9. LocksInOrder(r)'
  BY <1>1, <1>3, <1>5, <1>7, <1>8 DEF LocksInOrder
<1> QED
  BY <1>1, <1>2, <1>5, <1>6, <1>9, MoveOrder

LEMMA WriteOrder ==
    ASSUME OrderInv, NEW r \in Requests, Write(r) PROVE OrderInv'
<1>0. /\ TypeOK /\ LocksInOrder(r) /\ txn[r].target \in Users
      /\ txn[r].pc \in {"read", "locking"}
  BY DEF OrderInv, Write, Permitted, Counted, LocksInOrder
<1>1. CASE Duplicate(r)
  <2>1. Finish(r) /\ user' = user /\ uncounted' = uncounted
    BY <1>1 DEF Write, Rollback
  <2> QED
    BY <1>0, <2>1, FinishOrder DEF TypeOK
<1>2. CASE ~Duplicate(r)
  <2>1. PICK t : /\ t = [txn[r] EXCEPT !.pc = "written", !.counted = 0]
                 /\ txn' = [txn EXCEPT ![r] = t]
    BY <1>2, Zenon DEF Write
  <2>2. t \in Txn /\ t.pc = "written" /\ t.target = txn[r].target
    BY <1>0, <2>1, TxnTypes DEF Txn
  <2>3. UNCHANGED <<user, uncounted>> /\ (lock' = lock \/ lock' = [lock EXCEPT ![txn[r].target] = r])
    BY <1>2 DEF Write
  <2>4. /\ lock' \in [Users -> Requests \cup {Nobody}]
        /\ \A u \in Users : lock'[u] = lock[u] \/ lock'[u] = r
    BY <1>0, <2>3 DEF TypeOK
  <2>5. LocksInOrder(r)'
    BY <1>0, <2>1, <2>2 DEF TypeOK, LocksInOrder
  <2> QED
    BY <2>1, <2>2, <2>3, <2>4, <2>5, MoveOrder
<1> QED
  BY <1>1, <1>2

LEMMA CommitOrder ==
    ASSUME OrderInv, NEW r \in Requests, Commit(r) PROVE OrderInv'
<1>0. TypeOK
  BY DEF OrderInv
<1>1. PICK row : /\ row = Written(r)
                 /\ user' = [user EXCEPT ![txn[r].target] = row]
  BY Zenon DEF Commit
<1>2. txn[r].target \in Users
  BY DEF OrderInv, LocksInOrder, Commit
<1>3. row \in Row
  BY <1>0, <1>1, <1>2, TxnTypes DEF TypeOK, Written, Apply, Set, Changes, Changed, Row, Patch
<1>4. user' \in [Users -> Row] /\ uncounted' \subseteq Users /\ Finish(r)
  BY <1>0, <1>1, <1>2, <1>3 DEF TypeOK, Commit, Uncounted
<1> QED
  BY <1>4, FinishOrder

LEMMA NextOrder == OrderInv /\ [Next]_vars => OrderInv'
<1> SUFFICES ASSUME OrderInv, [Next]_vars PROVE OrderInv'
  OBVIOUS
<1>1. ASSUME NEW r \in Requests, Step(r) PROVE OrderInv'
  <2>1. CASE \/ Authorize(r)
             \/ \E u \in Users, p \in Patches : ReadTarget(r, u, p)
             \/ StartCount(r)
    BY <1>1, <2>1, ReadOrder
  <2>2. CASE LockNext(r)
    BY <1>1, <2>2, LockOrder
  <2>3. CASE Write(r)
    BY <1>1, <2>3, WriteOrder
  <2>4. CASE Commit(r)
    BY <1>1, <2>4, CommitOrder
  <2>5. CASE Refuse(r) \/ DeadlockVictim(r) \/ Lost(r)
    <3>1. Finish(r) /\ user' = user /\ uncounted' = uncounted
      BY <2>5 DEF Refuse, DeadlockVictim, Lost, Rollback
    <3> QED
      BY <1>1, <3>1, FinishOrder DEF OrderInv, TypeOK
  <2> QED
    BY <1>1, <2>1, <2>2, <2>3, <2>4, <2>5 DEF Step
<1>2. CASE UNCHANGED vars
  BY <1>2 DEF vars, OrderInv, TypeOK, LocksInOrder
<1> QED
  BY <1>1, <1>2 DEF Next

LEMMA InitOrder == Init => OrderInv
<1> SUFFICES ASSUME Init PROVE OrderInv
  OBVIOUS
<1>1. TypeOK
  BY InitIInv DEF IInv
<1>2. ASSUME NEW r \in Requests PROVE LocksInOrder(r)
  <2>1. txn[r] = Idle /\ \A u \in Users : lock[u] # r
    BY AdminsAssumption DEF Init
  <2> QED
    BY <2>1 DEF Idle, LocksInOrder
<1> QED
  BY <1>1, <1>2 DEF OrderInv

\* A nonempty set of numbers has a least one.
LEMMA Least ==
    ASSUME NEW S \in SUBSET Nat, S # {}
    PROVE  \E x \in S : \A y \in S : x <= y
<1> DEFINE R == OpToRel(<, Nat)
<1>1. \E x \in S : \A y \in S : <<y, x>> \notin R
  <2>1. IsWellFoundedOn(R, Nat)
    BY NatLessThanWellFounded
  <2> HIDE DEF R
  <2> QED
    BY <2>1, WFMin, Zenon
<1>2. PICK x \in S : \A y \in S : <<y, x>> \notin R
  BY <1>1
<1>3. ASSUME NEW y \in S PROVE x <= y
  <2>1. x \in Nat /\ y \in Nat /\ ~(y < x)
    BY <1>2 DEF OpToRel
  <2> QED
    BY <2>1
<1> QED
  BY <1>3

\* Of a circle of requests that all count, take the least row that is waited
\* for: who waits for it has locked a row that another one waits for, and that
\* comes before it.
LEMMA NoCircleOfCounts == OrderInv => CirclesNeedAWrite
<1> SUFFICES ASSUME OrderInv, NEW C \in SUBSET Requests, WaitCycle(C),
                    \A r \in C : ~Permitted(r)
             PROVE  FALSE
  BY DEF CirclesNeedAWrite
<1> DEFINE W == {u \in Users : \E r \in C : u \in Wants(r)}
<1>1. ASSUME NEW r \in C, NEW u \in Wants(r)
      PROVE  txn[r].pc = "locking" /\ u \in txn[r].todo /\ u \in Users
  <2>1. txn[r].pc = "locking" /\ u \in NextToLock(r)
    BY <1>1 DEF Wants
  <2> QED
    BY <2>1, TxnTypes DEF NextToLock, OrderInv
<1>2. W \in SUBSET Nat /\ W # {}
  <2>1. PICK r \in C : \E p \in C : Waits(r, p)
    BY DEF WaitCycle
  <2>2. PICK u \in Wants(r) : TRUE
    BY <2>1 DEF Waits
  <2> QED
    BY <1>1, <2>2, AdminsAssumption
<1>3. PICK x \in W : \A y \in W : x <= y
  <2> HIDE DEF W
  <2> QED
    BY <1>2, Least
<1>4. PICK r \in C : x \in Wants(r)
  OBVIOUS
<1>5. PICK p \in C : Waits(p, r)
  BY DEF WaitCycle
<1>6. PICK u \in Wants(p) : lock[u] = r
  BY <1>5 DEF Waits
<1>7. u \in W /\ u \in Users
  BY <1>1, <1>6
<1>8. u < x
  BY <1>1, <1>4, <1>6, <1>7 DEF OrderInv, LocksInOrder
<1> QED
  BY <1>2, <1>3, <1>7, <1>8

\* Rows, locks and requests keep their types, whatever the patches change.
THEOREM TypeCorrect == Spec => []TypeOK
<1>1. OrderInv => TypeOK
  BY DEF OrderInv
<1> QED
  BY <1>1, InitOrder, NextOrder, PTL DEF Spec

\* users.py:71-81: however many requests overlap and whatever they change, those
\* that are still counting never wait in a circle; every circle has one that
\* has counted and waits to write.
THEOREM CountsStayApart == Spec => []CirclesNeedAWrite
<1> QED
  BY NoCircleOfCounts, InitOrder, NextOrder, PTL DEF Spec
=============================================================================
