---------------------------- MODULE JobBooksProof ----------------------------
(* Theorems about what is booked on jobs (JobBooks): attendance, expenses    *)
(* and the jobs that are archived and deleted meanwhile, for any number of   *)
(* workers, jobs, users, texts and concurrent requests.                      *)
EXTENDS JobBooks, FiniteSetTheorems, WellFoundedInduction, TLAPS

-----------------------------------------------------------------------------
(* The order of the workers. *)

\* Strict inclusion, as a relation.
LEMMA StrictlyIn ==
    ASSUME NEW S, NEW A \in SUBSET S, NEW B \in SUBSET S, A \subseteq B, A # B
    PROVE  <<A, B>> \in StrictSubsetOrdering(S)
BY DEF StrictSubsetOrdering

\* In a set of workers one comes first.
LEMMA Least ==
    ASSUME NEW S, S \subseteq Workers, S # {}
    PROVE  \E w \in S : \A v \in S : w <= v
<1> DEFINE Below(w) == {v \in S : v < w}
           T == {Below(w) : w \in S}
           R == StrictSubsetOrdering(Workers)
<1>0. S \subseteq Nat
  BY LabourAssumption
<1>1. \A w \in S : Below(w) \in SUBSET Workers
  OBVIOUS
<1>2. T \subseteq FiniteSubsetsOf(Workers) /\ T # {}
  <2>1. ASSUME NEW w \in S PROVE Below(w) \in FiniteSubsetsOf(Workers)
    BY <1>1, <2>1, LabourAssumption, FS_Subset DEF FiniteSubsetsOf
  <2> QED BY <2>1
<1>3. \E x \in T : \A y \in T : <<y, x>> \notin R
  <2>1. IsWellFoundedOn(R, FiniteSubsetsOf(Workers))
    BY FS_StrictSubsetOrderingWellFounded
  <2> HIDE DEF R, T
  <2> QED BY <1>2, <2>1, WFMin, Zenon
<1>4. PICK w \in S : \A v \in S : <<Below(v), Below(w)>> \notin R
  BY <1>3
<1>5. ASSUME NEW v \in S, v < w PROVE FALSE
  <2>1. v \in Below(w) /\ v \notin Below(v)
    BY <1>0, <1>5
  <2>2. Below(v) \subseteq Below(w)
    <3>1. ASSUME NEW x \in S PROVE x < v /\ v < w => x < w
      <4>1. x \in Nat /\ v \in Nat /\ w \in Nat
        BY <1>0
      <4> QED BY <4>1
    <3> QED BY <1>5, <3>1
  <2>3. Below(v) # Below(w)
    BY <2>1
  <2> HIDE DEF Below
  <2>4. <<Below(v), Below(w)>> \in R
    BY <1>1, <2>2, <2>3, StrictlyIn
  <2> QED BY <1>4, <2>4
<1>6. \A v \in S : w <= v
  BY <1>0, <1>5
<1> QED BY <1>6

\* One comes last.
LEMMA Greatest ==
    ASSUME NEW S, S \subseteq Workers, S # {}
    PROVE  \E w \in S : \A v \in S : v <= w
<1> DEFINE Above(w) == {v \in S : w < v}
           T == {Above(w) : w \in S}
           R == StrictSubsetOrdering(Workers)
<1>0. S \subseteq Nat
  BY LabourAssumption
<1>1. \A w \in S : Above(w) \in SUBSET Workers
  OBVIOUS
<1>2. T \subseteq FiniteSubsetsOf(Workers) /\ T # {}
  <2>1. ASSUME NEW w \in S PROVE Above(w) \in FiniteSubsetsOf(Workers)
    BY <1>1, <2>1, LabourAssumption, FS_Subset DEF FiniteSubsetsOf
  <2> QED BY <2>1
<1>3. \E x \in T : \A y \in T : <<y, x>> \notin R
  <2>1. IsWellFoundedOn(R, FiniteSubsetsOf(Workers))
    BY FS_StrictSubsetOrderingWellFounded
  <2> HIDE DEF R, T
  <2> QED BY <1>2, <2>1, WFMin, Zenon
<1>4. PICK w \in S : \A v \in S : <<Above(v), Above(w)>> \notin R
  BY <1>3
<1>5. ASSUME NEW v \in S, w < v PROVE FALSE
  <2>1. v \in Above(w) /\ v \notin Above(v)
    BY <1>0, <1>5
  <2>2. Above(v) \subseteq Above(w)
    <3>1. ASSUME NEW x \in S PROVE w < v /\ v < x => w < x
      <4>1. x \in Nat /\ v \in Nat /\ w \in Nat
        BY <1>0
      <4> QED BY <4>1
    <3> QED BY <1>5, <3>1
  <2>3. Above(v) # Above(w)
    BY <2>1
  <2> HIDE DEF Above
  <2>4. <<Above(v), Above(w)>> \in R
    BY <1>1, <2>2, <2>3, StrictlyIn
  <2> QED BY <1>4, <2>4
<1>6. \A v \in S : v <= w
  BY <1>0, <1>5
<1> QED BY <1>6

\* Whose turn it is (labour.py:297-301): the first of those to do.
LEMMA TurnIsFirst ==
    ASSUME NEW q, q.todo \subseteq Workers, q.todo # {}
    PROVE  Turn(q) \in q.todo /\ \A v \in q.todo : Turn(q) <= v
BY Least DEF Turn

-----------------------------------------------------------------------------
(* The hours of a day: a sum over jobs.  Induction over sets is by a least   *)
(* counterexample, which has no smaller one.                                 *)

\* Of sets of jobs, one has no other one inside.
LEMMA LeastSet ==
    ASSUME NEW Q \in SUBSET (SUBSET Jobs), Q # {}
    PROVE  \E S \in Q : \A T \in Q : T \subseteq S => T = S
<1> DEFINE R == StrictSubsetOrdering(Jobs)
<1>1. Q \subseteq FiniteSubsetsOf(Jobs)
  BY LabourAssumption, FS_Subset DEF FiniteSubsetsOf
<1>2. \E S \in Q : \A T \in Q : <<T, S>> \notin R
  <2>1. IsWellFoundedOn(R, FiniteSubsetsOf(Jobs))
    BY LabourAssumption, FS_StrictSubsetOrderingWellFounded
  <2> HIDE DEF R
  <2> QED BY <1>1, <2>1, WFMin, Zenon
<1>3. PICK S \in Q : \A T \in Q : <<T, S>> \notin R
  BY <1>2
<1>4. ASSUME NEW T \in Q, T \subseteq S, T # S PROVE FALSE
  BY <1>3, <1>4, StrictlyIn
<1> QED BY <1>3, <1>4

\* What HoursOf adds up: g has the sum of every part of S.
One(s) == CHOOSE x \in s : TRUE
Adds(e, S, g) ==
    g = [s \in SUBSET S |-> IF s = {} THEN 0 ELSE e[One(s)].hours + g[s \ {One(s)}]]
Sums(e, S) == CHOOSE g : Adds(e, S, g)
Total(e, S) == Sums(e, S)[S]

LEMMA HoursAreTotal ==
    ASSUME NEW w, NEW S
    PROVE  HoursOf(w, S) = Total(entry[w], S)
BY DEF HoursOf, MapThenSumSet, MapThenFoldSet, Total, Sums, Adds, One

LEMMA HoursBecomeTotal ==
    ASSUME NEW w, NEW S
    PROVE  HoursOf(w, S)' = Total(entry'[w], S)
BY DEF HoursOf, MapThenSumSet, MapThenFoldSet, Total, Sums, Adds, One

LEMMA OneIn == ASSUME NEW s, s # {} PROVE One(s) \in s
BY DEF One

LEMMA AddsStep ==
    ASSUME NEW e, NEW S, NEW g, Adds(e, S, g), NEW U \in SUBSET S
    PROVE  g[U] = IF U = {} THEN 0 ELSE e[One(U)].hours + g[U \ {One(U)}]
BY DEF Adds

\* Two of them agree.
LEMMA AddsAgree ==
    ASSUME NEW e, NEW S \in SUBSET Jobs, NEW T \in SUBSET Jobs, NEW g, NEW h,
           Adds(e, S, g), Adds(e, T, h), NEW U \in SUBSET S, U \in SUBSET T
    PROVE  g[U] = h[U]
<1> DEFINE Q == {V \in SUBSET (S \cap T) : g[V] # h[V]}
<1>1. SUFFICES ASSUME Q # {} PROVE FALSE
  OBVIOUS
<1>2. Q \in SUBSET (SUBSET Jobs)
  OBVIOUS
<1>3. PICK V \in Q : \A X \in Q : X \subseteq V => X = V
  <2> HIDE DEF Q
  <2> QED BY <1>1, <1>2, LeastSet
<1>4. V # {}
  BY <1>3, AddsStep
<1>5. One(V) \in V
  BY <1>4, OneIn
<1> DEFINE X == V \ {One(V)}
<1>6. X \in SUBSET (S \cap T) /\ X # V /\ X \subseteq V
  BY <1>5
<1>7. g[X] = h[X]
  BY <1>3, <1>6
<1>8. g[V] = e[One(V)].hours + g[X] /\ h[V] = e[One(V)].hours + h[X]
  BY <1>4, AddsStep
<1> QED BY <1>7, <1>8

\* There is one.
LEMMA AddsExist ==
    ASSUME NEW e, NEW S0 \in SUBSET Jobs
    PROVE  Adds(e, S0, Sums(e, S0))
<1> DEFINE Q == {T \in SUBSET Jobs : ~ \E g : Adds(e, T, g)}
<1>1. SUFFICES ASSUME Q # {} PROVE FALSE
  BY DEF Sums
<1>2. PICK S \in Q : \A X \in Q : X \subseteq S => X = S
  <2>1. Q \in SUBSET (SUBSET Jobs)
    OBVIOUS
  <2> HIDE DEF Q
  <2> QED BY <1>1, <2>1, LeastSet
<1>3. ASSUME NEW T \in SUBSET S, T # S PROVE Adds(e, T, Sums(e, T))
  <2>1. T \in SUBSET Jobs /\ T \notin Q
    BY <1>2, <1>3
  <2>2. \E g : Adds(e, T, g)
    BY <2>1
  <2> QED BY <2>2 DEF Sums
<1> DEFINE At(T) == IF T = {} THEN 0
                    ELSE e[One(T)].hours + Sums(e, T \ {One(T)})[T \ {One(T)}]
           g == [T \in SUBSET S |-> At(T)]
<1>4. ASSUME NEW T \in SUBSET S, T # S PROVE Sums(e, T)[T] = At(T)
  <2>1. CASE T = {}
    BY <1>3, <1>4, <2>1, AddsStep
  <2>2. CASE T # {}
    <3> DEFINE X == T \ {One(T)}
    <3>1. One(T) \in T
      BY <2>2, OneIn
    <3>2. X \in SUBSET T /\ X \in SUBSET S /\ X # S
      BY <3>1, <1>4
    <3>3. Adds(e, T, Sums(e, T)) /\ Adds(e, X, Sums(e, X))
      BY <1>3, <1>4, <3>2
    <3>4. Sums(e, T)[T] = e[One(T)].hours + Sums(e, T)[X]
      BY <2>2, <3>3, AddsStep
    <3>5. T \in SUBSET Jobs /\ X \in SUBSET Jobs
      BY <1>2, <3>2
    <3>6. Sums(e, T)[X] = Sums(e, X)[X]
      <4> HIDE DEF X
      <4> QED BY <3>2, <3>3, <3>5, AddsAgree
    <3> QED BY <2>2, <3>4, <3>6
  <2> QED BY <2>1, <2>2
<1>5. ASSUME NEW T \in SUBSET S
      PROVE  g[T] = IF T = {} THEN 0 ELSE e[One(T)].hours + g[T \ {One(T)}]
  <2>1. g[T] = At(T)
    OBVIOUS
  <2>2. CASE T # {}
    <3>1. One(T) \in T
      BY <2>2, OneIn
    <3>2. T \ {One(T)} \in SUBSET S /\ T \ {One(T)} # S
      BY <3>1
    <3>3. g[T \ {One(T)}] = At(T \ {One(T)})
      BY <3>2
    <3>4. Sums(e, T \ {One(T)})[T \ {One(T)}] = At(T \ {One(T)})
      <4> HIDE DEF At
      <4> QED BY <1>4, <3>2
    <3> QED BY <2>1, <2>2, <3>3, <3>4
  <2> QED BY <2>1, <2>2
<1>6. g = [T \in SUBSET S |-> IF T = {} THEN 0 ELSE e[One(T)].hours + g[T \ {One(T)}]]
  <2>1. g = [T \in SUBSET S |-> g[T]]
    OBVIOUS
  <2> HIDE DEF g
  <2> QED BY <1>5, <2>1
<1>7. Adds(e, S, g)
  <2> HIDE DEF g
  <2> QED BY <1>6 DEF Adds
<1> QED BY <1>2, <1>7

\* The sum of no jobs, and of some.
LEMMA TotalStep ==
    ASSUME NEW e, NEW S \in SUBSET Jobs
    PROVE  Total(e, S) = IF S = {} THEN 0
                         ELSE e[One(S)].hours + Total(e, S \ {One(S)})
<1>1. CASE S = {}
  BY <1>1, AddsExist, AddsStep DEF Total
<1>2. CASE S # {}
  <2> DEFINE X == S \ {One(S)}
  <2>1. Sums(e, S)[S] = e[One(S)].hours + Sums(e, S)[X]
    BY <1>2, AddsExist, AddsStep
  <2>2. X \in SUBSET Jobs /\ X \in SUBSET S
    OBVIOUS
  <2>3. Sums(e, S)[X] = Sums(e, X)[X]
    <3> HIDE DEF X
    <3> QED BY <2>2, AddsExist, AddsAgree
  <2> QED BY <1>2, <2>1, <2>3 DEF Total
<1> QED BY <1>1, <1>2

LEMMA TotalType ==
    ASSUME NEW e \in [Jobs -> Entry], NEW S0 \in SUBSET Jobs
    PROVE  Total(e, S0) \in Nat
<1> DEFINE Q == {T \in SUBSET Jobs : Total(e, T) \notin Nat}
<1>1. SUFFICES ASSUME Q # {} PROVE FALSE
  OBVIOUS
<1>2. PICK S \in Q : \A X \in Q : X \subseteq S => X = S
  <2>1. Q \in SUBSET (SUBSET Jobs)
    OBVIOUS
  <2> HIDE DEF Q
  <2> QED BY <1>1, <2>1, LeastSet
<1>3. S # {} /\ S \in SUBSET Jobs
  <2>1. Total(e, {}) = 0
    BY TotalStep
  <2> QED BY <1>2, <2>1
<1>4. One(S) \in S
  BY <1>3, OneIn
<1>5. Total(e, S \ {One(S)}) \in Nat
  <2>1. S \ {One(S)} \in SUBSET Jobs /\ S \ {One(S)} \subseteq S /\ S \ {One(S)} # S
    BY <1>4
  <2> QED BY <1>2, <2>1
<1>6. e[One(S)].hours \in Nat
  BY <1>4, LabourAssumption DEF Entry
<1>7. Total(e, S) = e[One(S)].hours + Total(e, S \ {One(S)})
  BY <1>3, TotalStep
<1> QED BY <1>2, <1>5, <1>6, <1>7

\* It depends on the hours of the set's jobs alone.
LEMMA TotalSame ==
    ASSUME NEW e, NEW f, NEW S0 \in SUBSET Jobs, \A j \in S0 : e[j].hours = f[j].hours
    PROVE  Total(e, S0) = Total(f, S0)
<1> DEFINE Q == {T \in SUBSET S0 : Total(e, T) # Total(f, T)}
<1>1. SUFFICES ASSUME Q # {} PROVE FALSE
  OBVIOUS
<1>2. PICK S \in Q : \A X \in Q : X \subseteq S => X = S
  <2>1. Q \in SUBSET (SUBSET Jobs)
    OBVIOUS
  <2> HIDE DEF Q
  <2> QED BY <1>1, <2>1, LeastSet
<1>3. S # {} /\ S \in SUBSET Jobs
  BY <1>2, TotalStep
<1>4. One(S) \in S
  BY <1>3, OneIn
<1>5. Total(e, S \ {One(S)}) = Total(f, S \ {One(S)})
  <2>1. S \ {One(S)} \in SUBSET S0 /\ S \ {One(S)} \subseteq S /\ S \ {One(S)} # S
    BY <1>4
  <2> QED BY <1>2, <2>1
<1>6. /\ Total(e, S) = e[One(S)].hours + Total(e, S \ {One(S)})
      /\ Total(f, S) = f[One(S)].hours + Total(f, S \ {One(S)})
  BY <1>3, TotalStep
<1> QED BY <1>2, <1>4, <1>5, <1>6

\* Any job can be taken out of the sum, not only the one that is chosen.
LEMMA TotalWithout ==
    ASSUME NEW e \in [Jobs -> Entry], NEW S0 \in SUBSET Jobs, NEW j0 \in S0
    PROVE  Total(e, S0) = e[j0].hours + Total(e, S0 \ {j0})
<1> DEFINE Q == {T \in SUBSET Jobs :
                    \E k \in T : Total(e, T) # e[k].hours + Total(e, T \ {k})}
<1>1. SUFFICES ASSUME Q # {} PROVE FALSE
  OBVIOUS
<1>2. PICK S \in Q : \A X \in Q : X \subseteq S => X = S
  <2>1. Q \in SUBSET (SUBSET Jobs)
    OBVIOUS
  <2> HIDE DEF Q
  <2> QED BY <1>1, <2>1, LeastSet
<1>3. PICK j \in S : Total(e, S) # e[j].hours + Total(e, S \ {j})
  BY <1>2
<1>4. PICK x \in S : x = One(S)
  BY <1>3, OneIn
<1>5. Total(e, S) = e[x].hours + Total(e, S \ {x}) /\ S \in SUBSET Jobs
  BY <1>2, <1>4, TotalStep
<1>6. x # j
  BY <1>3, <1>5
<1>7. ASSUME NEW k \in S, NEW l \in S \ {k}
      PROVE  Total(e, S \ {k}) = e[l].hours + Total(e, (S \ {k}) \ {l})
  <2>1. S \ {k} \in SUBSET Jobs /\ S \ {k} \subseteq S /\ S \ {k} # S
    BY <1>5
  <2> QED BY <1>2, <2>1
<1>8. /\ Total(e, S \ {x}) = e[j].hours + Total(e, (S \ {x}) \ {j})
      /\ Total(e, S \ {j}) = e[x].hours + Total(e, (S \ {j}) \ {x})
  BY <1>6, <1>7
<1>9. (S \ {x}) \ {j} = (S \ {j}) \ {x}
  OBVIOUS
<1>10. /\ Total(e, (S \ {j}) \ {x}) \in Nat
       /\ e[x].hours \in Nat /\ e[j].hours \in Nat
  <2>1. (S \ {j}) \ {x} \in SUBSET Jobs /\ x \in Jobs /\ j \in Jobs
    BY <1>5
  <2> QED BY <2>1, TotalType, LabourAssumption DEF Entry
<1>11. \A a, b, t \in Nat : a + (b + t) = b + (a + t)
  OBVIOUS
<1> DEFINE t == Total(e, (S \ {j}) \ {x})
<1>12. e[x].hours + (e[j].hours + t) = e[j].hours + (e[x].hours + t)
  BY <1>10, <1>11
<1> QED BY <1>3, <1>5, <1>8, <1>9, <1>12

\* No hours on any of the jobs.
LEMMA TotalOfNone ==
    ASSUME NEW e, NEW S0 \in SUBSET Jobs, \A j \in S0 : e[j].hours = 0
    PROVE  Total(e, S0) = 0
<1> DEFINE Q == {T \in SUBSET S0 : Total(e, T) # 0}
<1>1. SUFFICES ASSUME Q # {} PROVE FALSE
  OBVIOUS
<1>2. PICK S \in Q : \A X \in Q : X \subseteq S => X = S
  <2>1. Q \in SUBSET (SUBSET Jobs)
    OBVIOUS
  <2> HIDE DEF Q
  <2> QED BY <1>1, <2>1, LeastSet
<1>3. S # {} /\ S \in SUBSET Jobs
  BY <1>2, TotalStep
<1>4. One(S) \in S
  BY <1>3, OneIn
<1>5. Total(e, S \ {One(S)}) = 0
  <2>1. S \ {One(S)} \in SUBSET S0 /\ S \ {One(S)} \subseteq S /\ S \ {One(S)} # S
    BY <1>4
  <2> QED BY <1>2, <2>1
<1>6. Total(e, S) = e[One(S)].hours + Total(e, S \ {One(S)})
  BY <1>3, TotalStep
<1>7. e[One(S)].hours = 0
  BY <1>4
<1> QED BY <1>2, <1>5, <1>6, <1>7

-----------------------------------------------------------------------------
(* The inductive invariant. *)

\* A PATCH does not remove a job.
PatchesKeep == \A r \in JobTx : jobTx[r].pc = "patch" => jobTx[r].to # "gone"

\* A batch has the locks of what it has put, which come before those to do; an
\* entry it found is still there; and once it is flushed it has its job's share.
BatchHolds(r) ==
    LET q == dayTx[r]
    IN  /\ q.pc \in {"turn", "staged"} => q.todo \subseteq Listed(q.batch)
        /\ q.pc \in {"job", "turn", "staged"} => q.id # 0
        /\ q.pc = "job" => \A w \in Workers : q.put[w].id = 0
        /\ \A w \in Workers :
              /\ dayLock[w] = r =>
                    q.pc \in {"turn", "staged"} /\ \A v \in q.todo : w < v
              /\ q.put[w].id # 0 => dayLock[w] = r
              /\ q.put[w].id \notin {0, q.id} => entry[w][q.on].id # 0
        /\ q.pc = "turn" /\ Inserts(q) => q.shares

Ids == {e.id : e \in expenses}

\* A request that may still insert.
Open(q) == q.pc \in {"sent", "parsed", "looked"}

\* Its number is its own, and what it found there is still there.
CaptureHolds(r) ==
    LET q == capTx[r]
    IN  Open(q) =>
          /\ q.id <= begun /\ q.id \notin Ids /\ q.before \subseteq Ids
          /\ \A s \in CapTx \ {r} : Open(capTx[s]) => capTx[s].id # q.id

\* What the search for duplicates told a request, of expenses that were there.
Searched(r) ==
    LET q == capTx[r]
    IN  q.pc = "looked" =>
          /\ _merge(q) # NoJob
          /\ \A a \in expenses : a.id \in q.before /\ a.text = q.form.text =>
                IF q.parsed THEN a.job = q.read => q.dup
                ELSE a.job = _merge(q) => a.at + Window < now

\* Expenses have numbers of their own.
Numbered ==
    \A a \in expenses :
       /\ a.id <= begun /\ a.before \subseteq Ids
       /\ \A b \in expenses : a.id = b.id => a = b

IInv ==
    /\ TypeOK
    /\ PatchesKeep
    /\ \A r \in DayTx : BatchHolds(r)
    /\ \A r \in CapTx : CaptureHolds(r) /\ Searched(r)
    /\ Numbered
    /\ HistoryIsKept
    /\ TwinsOverlap

-----------------------------------------------------------------------------
(* Constants and initial values. *)

\* The null requests and rows have their types.
LEMMA Nulls ==
    /\ \A r \in JobTx : NoJobTx[r] \in JobRequest
    /\ NoJobTx \in [JobTx -> JobRequest]
    /\ NoEntry \in Entry /\ NoDayTx \in DayRequest
    /\ Empty \in Form /\ NoCapTx \in CaptureRequest
<1>1. (CHOOSE j \in Jobs : TRUE) \in Jobs /\ (CHOOSE u \in Users : TRUE) \in Users
      /\ (CHOOSE t \in Texts : TRUE) \in Texts
  BY LabourAssumption, CaptureAssumption
<1>2. NoJobTx \in [JobTx -> JobRequest]
  BY <1>1 DEF NoJobTx, J, JobRequest, JobStatuses
<1>3. NoEntry \in Entry
  BY <1>1, LabourAssumption DEF NoEntry, Entry
<1>4. NoDayTx \in DayRequest
  BY <1>1, <1>3 DEF NoDayTx, DayRequest
<1>5. Empty \in Form
  BY <1>1 DEF Empty, Form
<1>6. NoCapTx \in CaptureRequest
  BY <1>5 DEF NoCapTx, CaptureRequest
<1> QED BY <1>2, <1>3, <1>4, <1>5, <1>6

\* The invariant holds when the server starts.
LEMMA InitHolds == Init => IInv
<1> SUFFICES ASSUME Init PROVE IInv
  OBVIOUS
<1> USE DEF Init, JobInit, LabourInit, CaptureInit
<1>1. JobTypeOK
  BY Nulls, LabourAssumption DEF JobTypeOK, JobStatuses
<1>2. LabourTypeOK
  BY Nulls DEF LabourTypeOK
<1>3. CaptureTypeOK
  BY Nulls, CaptureAssumption DEF CaptureTypeOK
<1>4. PatchesKeep
  BY DEF PatchesKeep, NoJobTx, J
<1>5. ASSUME NEW r \in DayTx PROVE BatchHolds(r)
  <2>1. dayTx[r] = NoDayTx /\ \A w \in Workers : dayLock[w] = Nobody /\ Nobody # r
    BY LabourAssumption
  <2> QED BY <2>1 DEF BatchHolds, NoDayTx, NoEntry
<1>6. ASSUME NEW r \in CapTx PROVE CaptureHolds(r) /\ Searched(r)
  BY DEF CaptureHolds, Searched, Open, NoCapTx
<1>7. Numbered /\ TwinsOverlap
  BY DEF Numbered, TwinsOverlap
<1>8. HistoryIsKept
  BY DEF HistoryIsKept, NoEntry, NoDayTx
<1> QED BY <1>1, <1>2, <1>3, <1>4, <1>5, <1>6, <1>7, <1>8 DEF IInv, TypeOK

-----------------------------------------------------------------------------
(* What a step leaves alone. *)

\* A step that changes no attendance.
LEMMA DayStands ==
    ASSUME NEW r \in DayTx, BatchHolds(r), UNCHANGED <<entry, dayTx, dayLock>>
    PROVE  BatchHolds(r)'
BY DEF BatchHolds, Inserts, Listed

\* A step that changes no expenses and no requests about them.
LEMMA CapturesStand ==
    ASSUME TypeOK, \A r \in CapTx : CaptureHolds(r) /\ Searched(r), Numbered, TwinsOverlap,
           UNCHANGED <<capTx, expenses, now>>, begun' \in Nat, begun <= begun'
    PROVE  (\A r \in CapTx : CaptureHolds(r) /\ Searched(r))' /\ Numbered' /\ TwinsOverlap'
<1>1. begun \in Nat /\ capTx \in [CapTx -> CaptureRequest] /\ expenses \subseteq Row
  BY DEF TypeOK, JobTypeOK, CaptureTypeOK
<1>2. ASSUME NEW r \in CapTx PROVE CaptureHolds(r)'
  <2>1. CaptureHolds(r) /\ capTx[r].id \in Nat
    BY <1>1 DEF CaptureRequest
  <2> QED BY <1>1, <2>1 DEF CaptureHolds, Open, Ids
<1>3. ASSUME NEW r \in CapTx PROVE Searched(r)'
  BY DEF Searched, _merge
<1>4. Numbered'
  <2>1. \A a \in expenses : a.id \in Nat
    BY <1>1 DEF Row
  <2> QED BY <1>1, <2>1 DEF Numbered, Ids
<1>5. TwinsOverlap'
  BY DEF TwinsOverlap
<1> QED BY <1>2, <1>3, <1>4, <1>5

-----------------------------------------------------------------------------
(* Requests about jobs. *)

\* What they do to the jobs: one that is removed has no attendance, no expense
\* and no batch that has flushed an entry on it.
LEMMA JobMoves ==
    ASSUME JobTypeOK, PatchesKeep, NEW r \in JobTx, JobStep(r)
    PROVE  /\ JobTypeOK' /\ PatchesKeep' /\ begun <= begun'
           /\ \A j \in Jobs : job[j] # "gone" =>
                 job'[j] # "gone" \/ j \notin Referred \cup LabourShares
<1> USE DEF JobTypeOK
<1>0. begun \in Nat /\ MaxBegun \in Nat
  BY LabourAssumption
<1>1. ASSUME NEW pc \in {"patch", "read"}, NEW j \in Jobs, NEW to \in JobStatuses,
             get_job(r, pc, j, to), pc = "patch" => to # "gone"
      PROVE  JobTypeOK' /\ PatchesKeep' /\ begun <= begun' /\ job' = job
  <2>1. jobTx' = [jobTx EXCEPT ![r] = J(pc, j, job[j], to)] /\ job' = job
    BY <1>1 DEF get_job
  <2>2. begun' \in 0 .. MaxBegun /\ begun <= begun'
    BY <1>0, <1>1 DEF get_job, More
  <2>3. J(pc, j, job[j], to) \in JobRequest
    BY <1>1 DEF J, JobRequest
  <2> QED BY <1>1, <2>1, <2>2, <2>3 DEF PatchesKeep, J
<1>2. CASE \E j \in Jobs : PatchJob(r, j) \/ DeleteJob(r, j)
  BY <1>1, <1>2 DEF PatchJob, DeleteJob, JobStatuses
<1>3. ASSUME NEW pc \in {"idle", "counted", "empty"}, JobAt(r, pc)
      PROVE  JobTypeOK' /\ PatchesKeep' /\ begun <= begun' /\ job' = job
  <2>1. jobTx' = [jobTx EXCEPT ![r] = [@ EXCEPT !.pc = pc]] /\ UNCHANGED <<job, begun>>
    BY <1>3 DEF JobAt
  <2>2. [jobTx[r] EXCEPT !.pc = pc] \in JobRequest
    BY <1>3 DEF JobRequest
  <2> QED BY <1>0, <2>1, <2>2 DEF PatchesKeep, JobRequest
<1>4. CASE CountExpenses(r, Expensed) \/ CountLabour(r, Worked) \/ JobRollback(r)
  BY <1>3, <1>4 DEF CountExpenses, CountLabour, JobRollback
<1>5. CASE update_job(r)
  <2>1. /\ jobTx[r].pc = "patch" /\ begun' = begun
        /\ job' = IF job[jobTx[r].on] # "gone" /\ jobTx[r].to # jobTx[r].saw
                  THEN [job EXCEPT ![jobTx[r].on] = jobTx[r].to] ELSE job
        /\ jobTx' = [jobTx EXCEPT ![r] = [@ EXCEPT !.pc = "idle"]]
    BY <1>5 DEF update_job
  <2>2. jobTx[r].to \in JobStatuses \ {"gone"} /\ jobTx[r].on \in Jobs
    BY <2>1 DEF PatchesKeep, JobRequest
  <2>3. [jobTx[r] EXCEPT !.pc = "idle"] \in JobRequest
    BY DEF JobRequest
  <2> QED BY <1>0, <2>1, <2>2, <2>3 DEF PatchesKeep, JobRequest
<1>6. CASE delete_empty_job(r, Referred, LabourShares)
  <2>1. /\ jobTx[r].on \notin LabourShares /\ begun' = begun
        /\ job' = IF jobTx[r].on \in Referred THEN job
                  ELSE [job EXCEPT ![jobTx[r].on] = "gone"]
        /\ jobTx' = [jobTx EXCEPT ![r] = [@ EXCEPT !.pc = "idle"]]
    BY <1>6 DEF delete_empty_job
  <2>2. [jobTx[r] EXCEPT !.pc = "idle"] \in JobRequest
    BY DEF JobRequest
  <2>3. JobTypeOK' /\ PatchesKeep'
    BY <2>1, <2>2 DEF PatchesKeep, JobRequest, JobStatuses
  <2> QED BY <1>0, <2>1, <2>3
<1> QED BY <1>2, <1>4, <1>5, <1>6 DEF JobStep

\* Removing a job leaves nothing behind without it.
LEMMA JobStepHolds ==
    ASSUME IInv, NEW r \in JobTx, JobStep(r), UNCHANGED <<labourVars, captureVars>>
    PROVE  IInv'
<1>1. /\ JobTypeOK' /\ PatchesKeep' /\ begun <= begun'
      /\ \A j \in Jobs : job[j] # "gone" =>
            job'[j] # "gone" \/ j \notin Referred \cup LabourShares
  BY JobMoves DEF IInv, TypeOK
<1>2. UNCHANGED <<active, entry, dayTx, dayLock>>
      /\ UNCHANGED <<form, saving, heard, failed, capTx, expenses, now>>
  BY DEF labourVars, captureVars, phone
<1>3. TypeOK'
  BY <1>1, <1>2 DEF IInv, TypeOK, LabourTypeOK, CaptureTypeOK
<1>4. \A s \in DayTx : BatchHolds(s)'
  BY <1>2, DayStands DEF IInv
<1>5. (\A s \in CapTx : CaptureHolds(s) /\ Searched(s))' /\ Numbered' /\ TwinsOverlap'
  <2>1. begun' \in Nat
    BY <1>1 DEF JobTypeOK
  <2> QED BY <1>1, <1>2, <2>1, CapturesStand DEF IInv
<1>6. HistoryIsKept'
  <2>1. ASSUME NEW w \in Workers, NEW j \in Jobs, entry[w][j].id # 0 PROVE job'[j] # "gone"
    BY <1>1, <2>1 DEF IInv, HistoryIsKept, Referred, Worked
  <2>2. ASSUME NEW e \in expenses PROVE job'[e.job] # "gone"
    <3>1. e.job \in Jobs /\ e.job \in Expensed
      BY DEF IInv, TypeOK, CaptureTypeOK, Row, Expensed
    <3> QED BY <1>1, <3>1 DEF IInv, HistoryIsKept, Referred
  <2>3. ASSUME NEW s \in DayTx, dayTx[s].shares PROVE job'[dayTx[s].on] # "gone"
    <3>1. dayTx[s].on \in Jobs /\ dayTx[s].on \in LabourShares
      BY <2>3 DEF IInv, TypeOK, LabourTypeOK, DayRequest, LabourShares
    <3> QED BY <1>1, <2>3, <3>1 DEF IInv, HistoryIsKept
  <2> QED BY <1>2, <2>1, <2>2, <2>3 DEF HistoryIsKept
<1> QED BY <1>1, <1>3, <1>4, <1>5, <1>6 DEF IInv

-----------------------------------------------------------------------------
(* Requests about the day. *)

\* A step of r that touches no lock of another request, no entry of a worker
\* whose day another one has, and books on jobs that are there.
Sound(r) ==
    /\ dayTx' = [dayTx EXCEPT ![r] = dayTx'[r]]
    /\ dayTx'[r] \in DayRequest
    /\ begun' \in 0 .. MaxBegun /\ begun <= begun'
    /\ active' \subseteq Workers
    /\ dayLock' \in [Workers -> DayTx \cup {Nobody}]
    /\ entry' \in [Workers -> [Jobs -> Entry]]
    /\ \A w \in Workers :
          /\ dayLock[w] \in {Nobody, r} => dayLock'[w] \in {Nobody, r}
          /\ dayLock[w] \notin {Nobody, r} => dayLock'[w] = dayLock[w] /\ entry'[w] = entry[w]
          /\ \A j \in Jobs : entry'[w][j].id # 0 => entry[w][j].id # 0 \/ job[j] # "gone"
    /\ dayTx'[r].shares => job[dayTx'[r].on] # "gone"
    /\ BatchHolds(r)'

\* Such a step keeps the invariant.
LEMMA SoundSteps ==
    ASSUME IInv, NEW r \in DayTx, Sound(r), UNCHANGED <<job, jobTx, captureVars>>
    PROVE  IInv'
<1>1. TypeOK /\ LabourTypeOK /\ dayTx \in [DayTx -> DayRequest]
  BY DEF IInv, TypeOK, LabourTypeOK
<1>2. UNCHANGED <<form, saving, heard, failed, capTx, expenses, now>>
  BY DEF captureVars, phone
<1>3. TypeOK'
  <2>1. JobTypeOK' /\ CaptureTypeOK'
    BY <1>1, <1>2 DEF Sound, TypeOK, JobTypeOK, CaptureTypeOK
  <2>2. LabourTypeOK'
    BY <1>1 DEF Sound, LabourTypeOK
  <2> QED BY <2>1, <2>2 DEF TypeOK
<1>4. PatchesKeep'
  BY DEF IInv, PatchesKeep
<1>5. ASSUME NEW s \in DayTx, s # r PROVE BatchHolds(s)'
  <2>1. dayTx'[s] = dayTx[s] /\ BatchHolds(s) /\ s # Nobody
    BY <1>1, <1>5, LabourAssumption DEF Sound, IInv
  <2>2. ASSUME NEW w \in Workers
        PROVE  /\ dayLock'[w] = s => dayLock[w] = s
               /\ dayLock[w] = s => dayLock'[w] = s /\ entry'[w] = entry[w]
    BY <1>5, <2>1 DEF Sound
  <2> QED BY <2>1, <2>2 DEF BatchHolds, Inserts, Listed
<1>6. \A s \in DayTx : BatchHolds(s)'
  BY <1>5 DEF Sound
<1>7. (\A s \in CapTx : CaptureHolds(s) /\ Searched(s))' /\ Numbered' /\ TwinsOverlap'
  <2>1. begun' \in Nat /\ begun <= begun'
    BY LabourAssumption DEF Sound
  <2> QED BY <1>1, <1>2, <2>1, CapturesStand DEF IInv
<1>8. HistoryIsKept'
  <2>1. HistoryIsKept /\ job' = job /\ expenses' = expenses
    BY <1>2 DEF IInv
  <2>2. ASSUME NEW s \in DayTx, dayTx'[s].shares PROVE job'[dayTx'[s].on] # "gone"
    <3>1. CASE s = r
      BY <2>1, <2>2, <3>1 DEF Sound
    <3>2. CASE s # r
      BY <1>1, <2>1, <2>2, <3>2 DEF Sound, HistoryIsKept
    <3> QED BY <3>1, <3>2
  <2> QED BY <2>1, <2>2 DEF Sound, HistoryIsKept
<1> QED BY <1>3, <1>4, <1>6, <1>7, <1>8 DEF IInv

\* The end of a transaction.
LEMMA DayEndsSound ==
    ASSUME IInv, NEW r \in DayTx, DayEnds(r), UNCHANGED <<begun, active>>,
           entry' \in [Workers -> [Jobs -> Entry]],
           \A w \in Workers :
              /\ dayLock[w] \notin {Nobody, r} => entry'[w] = entry[w]
              /\ \A j \in Jobs : entry'[w][j].id # 0 => entry[w][j].id # 0 \/ job[j] # "gone"
    PROVE  Sound(r)
<1>1. LabourTypeOK /\ begun \in 0 .. MaxBegun /\ Nobody # r
  BY LabourAssumption DEF IInv, TypeOK, JobTypeOK
<1>2. dayTx'[r] = NoDayTx /\ dayTx' = [dayTx EXCEPT ![r] = dayTx'[r]]
  BY <1>1 DEF DayEnds, LabourTypeOK
<1>3. dayLock' = [w \in Workers |-> IF dayLock[w] = r THEN Nobody ELSE dayLock[w]]
  BY DEF DayEnds
<1>4. NoDayTx \in DayRequest /\ ~NoDayTx.shares
  BY Nulls DEF NoDayTx
<1>5. BatchHolds(r)'
  BY <1>1, <1>2, <1>3 DEF BatchHolds, NoDayTx, NoEntry
<1>6. dayLock' \in [Workers -> DayTx \cup {Nobody}]
  BY <1>1, <1>3 DEF LabourTypeOK
<1>7. begun <= begun' /\ begun' \in 0 .. MaxBegun /\ active' \subseteq Workers
  BY <1>1, LabourAssumption DEF LabourTypeOK
<1>8. ASSUME NEW w \in Workers
      PROVE  /\ dayLock[w] \in {Nobody, r} => dayLock'[w] \in {Nobody, r}
             /\ dayLock[w] \notin {Nobody, r} => dayLock'[w] = dayLock[w]
  BY <1>3
<1> QED BY <1>2, <1>4, <1>5, <1>6, <1>7, <1>8 DEF Sound

\* A rollback, which the actions end in when they refuse.
LEMMA DayRollbackSound ==
    ASSUME IInv, NEW r \in DayTx, DayRollback(r)
    PROVE  Sound(r)
<1>1. DayEnds(r) /\ UNCHANGED <<job, begun, active, entry>>
  BY DEF DayRollback
<1>2. entry \in [Workers -> [Jobs -> Entry]]
  BY DEF IInv, TypeOK, LabourTypeOK
<1> QED BY <1>1, <1>2, DayEndsSound

\* A step that moves only the request itself.
LEMMA RequestMoves ==
    ASSUME IInv, NEW r \in DayTx, dayTx' = [dayTx EXCEPT ![r] = dayTx'[r]],
           dayTx'[r] \in DayRequest, BatchHolds(r)', UNCHANGED <<active, entry, dayLock>>,
           begun' \in 0 .. MaxBegun, begun <= begun',
           dayTx'[r].shares => job[dayTx'[r].on] # "gone"
    PROVE  Sound(r)
<1>1. LabourTypeOK
  BY DEF IInv, TypeOK
<1> QED BY <1>1 DEF Sound, LabourTypeOK

\* The workers a batch lists, and the hours it gives them.
LEMMA BatchItems ==
    ASSUME NEW batch \in Batches \cup {<<>>}
    PROVE  /\ Listed(batch) \subseteq Workers
           /\ \A n \in DOMAIN batch : batch[n].hours \in 0 .. DayHours \cup {Omitted}
<1> DEFINE Item == [worker : Workers, hours : 0 .. DayHours \cup {Omitted}]
<1>1. ASSUME NEW n \in DOMAIN batch PROVE batch[n] \in Item
  <2>1. Batches \subseteq Seq(Item)
    BY LabourAssumption
  <2> HIDE DEF Item
  <2>2. CASE batch \in Batches
    BY <2>1, <2>2
  <2>3. CASE batch = <<>>
    BY <2>3
  <2> QED BY <2>2, <2>3
<1> QED BY <1>1 DEF Listed

\* What a batch saves for a listed worker.
LEMMA SavedType ==
    ASSUME LabourTypeOK, NEW r \in DayTx, NEW w \in Listed(dayTx[r].batch)
    PROVE  Saved(dayTx[r], w) \in Entry /\ w \in Workers
<1> DEFINE q == dayTx[r]
           sent == CHOOSE n \in DOMAIN q.batch : q.batch[n].worker = w
<1>1. q \in DayRequest
  BY DEF LabourTypeOK
<1>2. w \in Workers /\ q.batch \in Batches \cup {<<>>} /\ q.on \in Jobs
  BY <1>1, BatchItems DEF DayRequest
<1>3. sent \in DOMAIN q.batch
  BY DEF Listed
<1>4. q.batch[sent].hours \in 0 .. DayHours \cup {Omitted}
  BY <1>2, <1>3, BatchItems
<1>5. entry[w][q.on] \in Entry
  BY <1>2 DEF LabourTypeOK
<1>6. NewHours(q, w) \in 0 .. DayHours
  BY <1>4, <1>5 DEF NewHours, Entry
<1>7. q.id \in Nat /\ q.user \in Users
  BY <1>1 DEF DayRequest
<1> QED BY <1>2, <1>5, <1>6, <1>7 DEF Saved, Entry

\* batch_upsert_entries begins.
LEMMA BatchBeginsSound ==
    ASSUME IInv, NEW r \in DayTx, NEW user \in Users, NEW j \in Jobs, NEW batch \in Batches,
           BatchBegins(r, user, j, batch)
    PROVE  Sound(r)
<1> DEFINE q == [NoDayTx EXCEPT !.pc = "job", !.user = user, !.on = j, !.batch = batch,
                                !.id = begun + 1]
<1>1. LabourTypeOK /\ BatchHolds(r) /\ begun \in Nat /\ MaxBegun \in Nat
  BY LabourAssumption DEF IInv, TypeOK, JobTypeOK
<1>2. /\ dayTx[r].pc = "idle" /\ begun < MaxBegun /\ begun' = begun + 1
      /\ dayTx' = [dayTx EXCEPT ![r] = q] /\ UNCHANGED <<job, active, entry, dayLock>>
  BY DEF BatchBegins, More
<1>3. q \in DayRequest /\ dayTx'[r] = q
  <2>1. q \in DayRequest
    <3>1. NoDayTx \in DayRequest /\ begun + 1 \in Nat
      BY <1>1, Nulls
    <3>2. "job" \in {"idle", "job", "turn", "staged", "delete"} /\ batch \in Batches \cup {<<>>}
      OBVIOUS
    <3> QED BY <3>1, <3>2 DEF DayRequest
  <2> HIDE DEF q
  <2> QED BY <1>1, <1>2, <2>1 DEF LabourTypeOK
<1>4. q.pc = "job" /\ q.id = begun + 1 /\ ~q.shares /\ \A w \in Workers : q.put[w].id = 0
  BY DEF NoDayTx, NoEntry
<1>5. \A w \in Workers : dayLock[w] # r
  BY <1>1, <1>2 DEF BatchHolds
<1>6. BatchHolds(r)'
  <2> HIDE DEF q
  <2> QED BY <1>1, <1>2, <1>3, <1>4, <1>5 DEF BatchHolds
<1>7. begun' \in 0 .. MaxBegun /\ begun <= begun'
  BY <1>1, <1>2
<1> HIDE DEF q
<1> QED BY <1>2, <1>3, <1>4, <1>6, <1>7, RequestMoves

\* It has read the workers.
LEMMA ReadWorkersSound ==
    ASSUME IInv, NEW r \in DayTx, ReadWorkers(r)
    PROVE  Sound(r)
<1> DEFINE q == [dayTx[r] EXCEPT !.pc = "turn", !.saw = active,
                                 !.todo = Listed(dayTx[r].batch)]
<1>1. LabourTypeOK /\ BatchHolds(r) /\ begun \in 0 .. MaxBegun /\ MaxBegun \in Nat
      /\ HistoryIsKept
  BY LabourAssumption DEF IInv, TypeOK, JobTypeOK
<1>2. /\ dayTx[r].pc = "job" /\ dayTx' = [dayTx EXCEPT ![r] = q]
      /\ UNCHANGED <<job, begun, active, entry, dayLock>>
  BY DEF ReadWorkers
<1>3. dayTx[r] \in DayRequest /\ Listed(dayTx[r].batch) \subseteq Workers
      /\ active \subseteq Workers
  BY <1>1, BatchItems DEF LabourTypeOK, DayRequest
<1>4. q \in DayRequest /\ dayTx'[r] = q
  BY <1>1, <1>2, <1>3 DEF DayRequest, LabourTypeOK
<1>5. /\ q.pc = "turn" /\ q.todo = Listed(q.batch) /\ q.id = dayTx[r].id
      /\ q.put = dayTx[r].put /\ q.on = dayTx[r].on /\ q.shares = dayTx[r].shares
  BY <1>3 DEF DayRequest
<1>6. \A w \in Workers : dayLock[w] # r /\ q.put[w].id = 0
  BY <1>1, <1>2, <1>5 DEF BatchHolds
<1>10. q.id # 0
  BY <1>1, <1>2, <1>5 DEF BatchHolds
<1> HIDE DEF q
<1>7. BatchHolds(r)'
  BY <1>2, <1>4, <1>5, <1>6, <1>10 DEF BatchHolds, Inserts, Listed
<1>8. dayTx'[r].shares => job[dayTx'[r].on] # "gone"
  BY <1>1, <1>4, <1>5 DEF HistoryIsKept
<1>9. begun <= begun' /\ begun' \in 0 .. MaxBegun
  BY <1>1, <1>2
<1> QED BY <1>2, <1>4, <1>7, <1>8, <1>9, RequestMoves

\* One worker of the batch: its lock is the next in the order.
LEMMA SaveWorkerSound ==
    ASSUME IInv, NEW r \in DayTx, SaveWorker(r)
    PROVE  Sound(r)
<1> DEFINE w == Turn(dayTx[r])
           q == [dayTx[r] EXCEPT !.pc = "staged", !.todo = dayTx[r].todo \ {w},
                                 !.put = [dayTx[r].put EXCEPT ![w] = Saved(dayTx[r], w)]]
<1>1. LabourTypeOK /\ BatchHolds(r) /\ begun \in 0 .. MaxBegun /\ MaxBegun \in Nat
      /\ HistoryIsKept
  BY LabourAssumption DEF IInv, TypeOK, JobTypeOK
<1>2. dayTx[r].pc = "turn" /\ dayTx[r].todo # {} /\ Locked(r, w)
  BY DEF SaveWorker
<1>3. dayTx[r] \in DayRequest /\ dayTx[r].todo \subseteq Workers
  BY <1>1 DEF LabourTypeOK, DayRequest
<1>4. w \in dayTx[r].todo /\ \A v \in dayTx[r].todo : w <= v
  BY <1>2, <1>3, TurnIsFirst
<1>5. w \in Workers /\ Saved(dayTx[r], w) \in Entry
  BY <1>1, <1>2, <1>4, SavedType DEF BatchHolds
<1> HIDE DEF w
<1>6. CASE ~Accepted(dayTx[r], w)
  <2>1. DayRollback(r)
    BY <1>6 DEF SaveWorker, w
  <2> QED BY <2>1, DayRollbackSound
<1>7. CASE Accepted(dayTx[r], w)
  <2>1. /\ dayLock' = [dayLock EXCEPT ![w] = r] /\ dayTx' = [dayTx EXCEPT ![r] = q]
        /\ UNCHANGED <<job, begun, active, entry>>
    BY <1>7 DEF SaveWorker, w
  <2>2. q \in DayRequest /\ dayTx'[r] = q
    BY <1>1, <1>3, <1>5, <2>1 DEF DayRequest, LabourTypeOK
  <2>3. /\ q.pc = "staged" /\ q.todo = dayTx[r].todo \ {w} /\ q.batch = dayTx[r].batch
        /\ q.id = dayTx[r].id /\ q.on = dayTx[r].on /\ q.shares = dayTx[r].shares
        /\ q.put = [dayTx[r].put EXCEPT ![w] = Saved(dayTx[r], w)]
    BY <1>3 DEF DayRequest
  <2> HIDE DEF q
  <2>4. dayLock[w] \in {Nobody, r}
    BY <1>2 DEF Locked
  <2>5. ASSUME NEW v \in Workers
        PROVE  /\ dayLock'[v] = r => \A u \in q.todo : v < u
               /\ q.put[v].id # 0 => dayLock'[v] = r
               /\ q.put[v].id \notin {0, q.id} => entry'[v][q.on].id # 0
    <3>1. CASE v # w
      <4>1. dayLock'[v] = dayLock[v] /\ q.put[v] = dayTx[r].put[v]
        BY <1>1, <1>3, <2>1, <2>3, <3>1 DEF LabourTypeOK, DayRequest
      <4> QED BY <1>1, <2>1, <2>3, <4>1 DEF BatchHolds
    <3>2. CASE v = w
      <4>1. dayLock'[v] = r /\ q.put[v] = Saved(dayTx[r], w)
        BY <1>1, <1>3, <1>5, <2>1, <2>3, <3>2 DEF LabourTypeOK, DayRequest
      <4>2. \A u \in q.todo : v < u
        <5>1. ASSUME NEW u \in q.todo PROVE v < u
          <6>1. u \in Nat /\ w \in Nat /\ w <= u /\ w # u
            BY <1>3, <1>4, <1>5, <2>3, LabourAssumption
          <6> QED BY <3>2, <6>1
        <5> QED BY <5>1
      <4>3. entry[w][q.on] \in Entry
        BY <1>1, <1>3, <1>5, <2>3 DEF LabourTypeOK, DayRequest
      <4>4. Saved(dayTx[r], w).id \in {q.id, entry[w][q.on].id}
        BY <2>3, <4>3 DEF Saved, Entry
      <4> QED BY <2>1, <3>2, <4>1, <4>2, <4>4
    <3> QED BY <3>1, <3>2
  <2>6. BatchHolds(r)'
    <3>1. q.todo \subseteq Listed(q.batch) /\ q.id # 0
      BY <1>1, <1>2, <2>3 DEF BatchHolds
    <3> QED BY <2>2, <2>3, <2>5, <3>1 DEF BatchHolds, Listed
  <2>7. dayTx'[r].shares => job[dayTx'[r].on] # "gone"
    BY <1>1, <2>2, <2>3 DEF HistoryIsKept
  <2>8. ASSUME NEW v \in Workers
        PROVE  /\ dayLock[v] \in {Nobody, r} => dayLock'[v] \in {Nobody, r}
               /\ dayLock[v] \notin {Nobody, r} => dayLock'[v] = dayLock[v]
    BY <1>1, <2>1, <2>4 DEF LabourTypeOK
  <2>9. dayLock' \in [Workers -> DayTx \cup {Nobody}]
    BY <1>1, <2>1 DEF LabourTypeOK
  <2>10. begun <= begun'
    BY <1>1, <2>1
  <2> QED BY <1>1, <2>1, <2>2, <2>6, <2>7, <2>8, <2>9, <2>10 DEF Sound, LabourTypeOK
<1> QED BY <1>6, <1>7

\* The flush: what is new has its job's key share from here on.
LEMMA FlushBatchSound ==
    ASSUME IInv, NEW r \in DayTx, FlushBatch(r)
    PROVE  Sound(r)
<1> DEFINE q == [dayTx[r] EXCEPT !.pc = "turn", !.shares = Inserts(dayTx[r])]
<1>1. LabourTypeOK /\ BatchHolds(r) /\ begun \in 0 .. MaxBegun /\ MaxBegun \in Nat
  BY LabourAssumption DEF IInv, TypeOK, JobTypeOK
<1>2. CASE Inserts(dayTx[r]) /\ job[dayTx[r].on] = "gone"
  <2>1. DayRollback(r)
    BY <1>2 DEF FlushBatch
  <2> QED BY <2>1, DayRollbackSound
<1>3. CASE ~(Inserts(dayTx[r]) /\ job[dayTx[r].on] = "gone")
  <2>1. /\ dayTx[r].pc = "staged" /\ dayTx' = [dayTx EXCEPT ![r] = q]
        /\ UNCHANGED <<job, begun, active, entry, dayLock>>
    BY <1>3 DEF FlushBatch
  <2>2. dayTx[r] \in DayRequest
    BY <1>1 DEF LabourTypeOK
  <2>3. Inserts(dayTx[r]) \in BOOLEAN
    BY DEF Inserts
  <2>4. q \in DayRequest /\ dayTx'[r] = q
    BY <1>1, <2>1, <2>2, <2>3 DEF DayRequest, LabourTypeOK
  <2>5. /\ q.pc = "turn" /\ q.todo = dayTx[r].todo /\ q.batch = dayTx[r].batch
        /\ q.id = dayTx[r].id /\ q.on = dayTx[r].on /\ q.put = dayTx[r].put
        /\ q.shares = Inserts(dayTx[r])
    BY <2>2 DEF DayRequest
  <2> HIDE DEF q
  <2>6. Inserts(q) = Inserts(dayTx[r])
    BY <2>5 DEF Inserts
  <2>7. BatchHolds(r)'
    <3>1. /\ dayTx[r].todo \subseteq Listed(dayTx[r].batch) /\ dayTx[r].id # 0
          /\ \A w \in Workers :
                /\ dayLock[w] = r => \A v \in dayTx[r].todo : w < v
                /\ dayTx[r].put[w].id # 0 => dayLock[w] = r
                /\ dayTx[r].put[w].id \notin {0, dayTx[r].id} => entry[w][dayTx[r].on].id # 0
      BY <1>1, <2>1 DEF BatchHolds
    <3>2. /\ q.todo \subseteq Listed(q.batch) /\ q.id # 0
          /\ \A w \in Workers :
                /\ dayLock'[w] = r => \A v \in q.todo : w < v
                /\ q.put[w].id # 0 => dayLock'[w] = r
                /\ q.put[w].id \notin {0, q.id} => entry'[w][q.on].id # 0
      BY <2>1, <2>5, <3>1
    <3>3. q.pc = "turn" /\ (Inserts(q) => q.shares)
      BY <2>5, <2>6
    <3> QED BY <2>4, <3>2, <3>3 DEF BatchHolds, Inserts, Listed
  <2>8. dayTx'[r].shares => job[dayTx'[r].on] # "gone"
    BY <1>3, <2>4, <2>5
  <2>9. begun <= begun' /\ begun' \in 0 .. MaxBegun
    BY <1>1, <2>1
  <2> QED BY <2>1, <2>4, <2>7, <2>8, <2>9, RequestMoves
<1> QED BY <1>2, <1>3

\* The commit: the locks are the batch's, and the jobs are there.
LEMMA CommitBatchSound ==
    ASSUME IInv, NEW r \in DayTx, CommitBatch(r)
    PROVE  Sound(r)
<1> DEFINE q == dayTx[r]
<1>1. LabourTypeOK /\ BatchHolds(r) /\ HistoryIsKept
  BY DEF IInv, TypeOK
<1>2. /\ q.pc = "turn"
      /\ entry' = [w \in Workers |->
            IF q.put[w].id = 0 THEN entry[w] ELSE [entry[w] EXCEPT ![q.on] = q.put[w]]]
      /\ DayEnds(r) /\ UNCHANGED <<job, begun, active>>
  BY DEF CommitBatch
<1>3. q \in DayRequest /\ q.on \in Jobs /\ q.put \in [Workers -> Entry]
  BY <1>1 DEF LabourTypeOK, DayRequest
<1>4. entry \in [Workers -> [Jobs -> Entry]]
  BY <1>1 DEF LabourTypeOK
<1>5. entry' \in [Workers -> [Jobs -> Entry]]
  BY <1>2, <1>3, <1>4
<1>6. ASSUME NEW w \in Workers
      PROVE  /\ dayLock[w] \notin {Nobody, r} => entry'[w] = entry[w]
             /\ \A j \in Jobs : entry'[w][j].id # 0 => entry[w][j].id # 0 \/ job[j] # "gone"
  <2>1. CASE q.put[w].id = 0
    BY <1>2, <2>1
  <2>2. CASE q.put[w].id # 0
    <3>1. dayLock[w] = r
      BY <1>1, <2>2 DEF BatchHolds
    <3>2. entry[w][q.on].id # 0 \/ job[q.on] # "gone"
      <4>1. CASE q.put[w].id = q.id
        <5>1. Inserts(q)
          BY <4>1 DEF Inserts
        <5>2. q.shares
          BY <1>1, <1>2, <5>1 DEF BatchHolds
        <5> QED BY <1>1, <5>2 DEF HistoryIsKept
      <4>2. CASE q.put[w].id # q.id
        BY <1>1, <2>2, <4>2 DEF BatchHolds
      <4> QED BY <4>1, <4>2
    <3>3. entry'[w] = [entry[w] EXCEPT ![q.on] = q.put[w]]
      BY <1>2, <2>2
    <3> HIDE DEF q
    <3>4. ASSUME NEW j \in Jobs, entry'[w][j].id # 0
          PROVE  entry[w][j].id # 0 \/ job[j] # "gone"
      <4>1. CASE j = q.on
        BY <3>2, <4>1
      <4>2. CASE j # q.on
        <5>1. entry'[w][j] = entry[w][j]
          BY <1>4, <3>3, <4>2
        <5> QED BY <3>4, <5>1
      <4> QED BY <4>1, <4>2
    <3> QED BY <3>1, <3>4
  <2> QED BY <2>1, <2>2
<1> QED BY <1>2, <1>5, <1>6, DayEndsSound

\* delete_entry has read its entry.
LEMMA DeleteReadsSound ==
    ASSUME IInv, NEW r \in DayTx, NEW user \in Users, NEW w \in Workers, NEW j \in Jobs,
           DeleteReads(r, user, w, j)
    PROVE  Sound(r)
<1> DEFINE q == [NoDayTx EXCEPT !.pc = "delete", !.user = user, !.on = j,
                                !.id = entry[w][j].id, !.todo = {w}]
<1>1. LabourTypeOK /\ BatchHolds(r) /\ begun \in Nat /\ MaxBegun \in Nat
  BY LabourAssumption DEF IInv, TypeOK, JobTypeOK
<1>2. /\ dayTx[r].pc = "idle" /\ begun < MaxBegun /\ begun' = begun + 1
      /\ dayTx' = [dayTx EXCEPT ![r] = q] /\ UNCHANGED <<job, active, entry, dayLock>>
  BY DEF DeleteReads, More
<1>3. q \in DayRequest /\ dayTx'[r] = q
  <2>1. NoDayTx \in DayRequest /\ entry[w][j].id \in Nat
    BY <1>1, Nulls DEF LabourTypeOK, Entry
  <2>2. q \in DayRequest
    BY <2>1 DEF DayRequest
  <2> HIDE DEF q
  <2> QED BY <1>1, <1>2, <2>2 DEF LabourTypeOK
<1>4. q.pc = "delete" /\ ~q.shares /\ \A v \in Workers : q.put[v].id = 0
  BY DEF NoDayTx, NoEntry
<1>5. \A v \in Workers : dayLock[v] # r
  BY <1>1, <1>2 DEF BatchHolds
<1> HIDE DEF q
<1>6. BatchHolds(r)'
  BY <1>2, <1>3, <1>4, <1>5 DEF BatchHolds
<1>7. begun' \in 0 .. MaxBegun /\ begun <= begun'
  BY <1>1, <1>2
<1> QED BY <1>2, <1>3, <1>4, <1>6, <1>7, RequestMoves

\* It deletes the entry, which no batch has.
LEMMA DeleteEntrySound ==
    ASSUME IInv, NEW r \in DayTx, delete_entry(r)
    PROVE  Sound(r)
<1>1. LabourTypeOK
  BY DEF IInv, TypeOK
<1>2. PICK w \in dayTx[r].todo :
         /\ dayLock[w] = Nobody
         /\ entry' = IF entry[w][dayTx[r].on].id = dayTx[r].id
                     THEN [entry EXCEPT ![w] = [@ EXCEPT ![dayTx[r].on] = NoEntry]]
                     ELSE entry
  BY DEF delete_entry
<1>3. DayEnds(r) /\ UNCHANGED <<job, begun, active>>
  BY DEF delete_entry
<1>4. w \in Workers /\ dayTx[r].on \in Jobs
  BY <1>1 DEF LabourTypeOK, DayRequest
<1>5. entry \in [Workers -> [Jobs -> Entry]]
  BY <1>1 DEF LabourTypeOK
<1>6. entry' \in [Workers -> [Jobs -> Entry]]
  BY <1>2, <1>4, <1>5, Nulls
<1>7. ASSUME NEW v \in Workers
      PROVE  /\ dayLock[v] \notin {Nobody, r} => entry'[v] = entry[v]
             /\ \A j \in Jobs : entry'[v][j].id # 0 => entry[v][j].id # 0
  <2>1. NoEntry.id = 0
    BY DEF NoEntry
  <2> QED BY <1>2, <1>4, <1>5, <2>1
<1> QED BY <1>3, <1>6, <1>7, DayEndsSound

\* Each of them keeps the invariant.
LEMMA LabourStepHolds ==
    ASSUME IInv, NEW r \in DayTx, LabourStep(r), UNCHANGED <<jobTx, captureVars>>
    PROVE  IInv'
<1>1. job' = job
  BY DEF LabourStep, BatchBegins, ReadWorkers, SaveWorker, FlushBatch, CommitBatch,
         DeleteReads, delete_entry, DayRollback
<1>2. Sound(r)
  BY BatchBeginsSound, ReadWorkersSound, SaveWorkerSound, FlushBatchSound, CommitBatchSound,
     DeleteReadsSound, DeleteEntrySound, DayRollbackSound DEF LabourStep
<1> QED BY <1>1, <1>2, SoundSteps

\* A worker who is activated or deactivated keeps what is booked.
LEMMA RosterHolds ==
    ASSUME IInv, NEW w \in Workers, update_worker(w), UNCHANGED <<jobTx, captureVars>>
    PROVE  IInv'
<1>1. /\ begun' = begun + 1 /\ begun < MaxBegun /\ begun \in Nat /\ MaxBegun \in Nat
      /\ UNCHANGED <<job, entry, dayTx, dayLock>>
  BY LabourAssumption DEF update_worker, More, IInv, TypeOK, JobTypeOK
<1>2. active' \subseteq Workers
  BY DEF update_worker, IInv, TypeOK, LabourTypeOK
<1>3. UNCHANGED <<form, saving, heard, failed, capTx, expenses, now>>
  BY DEF captureVars, phone
<1>4. begun' \in 0 .. MaxBegun /\ begun' \in Nat /\ begun <= begun'
  BY <1>1
<1>5. TypeOK'
  BY <1>1, <1>2, <1>3, <1>4 DEF IInv, TypeOK, JobTypeOK, LabourTypeOK, CaptureTypeOK
<1>6. \A r \in DayTx : BatchHolds(r)'
  BY <1>1, DayStands DEF IInv
<1>7. (\A s \in CapTx : CaptureHolds(s) /\ Searched(s))' /\ Numbered' /\ TwinsOverlap'
  BY <1>3, <1>4, CapturesStand DEF IInv
<1>8. PatchesKeep' /\ HistoryIsKept'
  BY <1>1, <1>3 DEF IInv, PatchesKeep, HistoryIsKept
<1> QED BY <1>5, <1>6, <1>7, <1>8 DEF IInv

-----------------------------------------------------------------------------
(* The phone and create_expense. *)

\* What a step does to the requests and expenses, apart from the phone.
Captures ==
    /\ \A r \in CapTx : CaptureHolds(r) /\ Searched(r)
    /\ Numbered
    /\ TwinsOverlap

\* A step that leaves attendance and jobs alone, and adds expenses on jobs that
\* are there.
LEMMA BooksHold ==
    ASSUME IInv, UNCHANGED <<jobTx, labourVars, job>>, begun' \in 0 .. MaxBegun,
           CaptureTypeOK', Captures', \A e \in expenses' : job[e.job] # "gone"
    PROVE  IInv'
<1>1. UNCHANGED <<active, entry, dayTx, dayLock>>
  BY DEF labourVars
<1>2. TypeOK'
  BY <1>1 DEF IInv, TypeOK, JobTypeOK, LabourTypeOK
<1>3. \A r \in DayTx : BatchHolds(r)'
  BY <1>1, DayStands DEF IInv
<1>4. PatchesKeep' /\ HistoryIsKept'
  BY <1>1 DEF IInv, PatchesKeep, HistoryIsKept
<1> QED BY <1>2, <1>3, <1>4 DEF IInv, Captures

\* A step that moves one request, and no expenses.
LEMMA CaptureMoves ==
    ASSUME IInv, NEW r \in CapTx, NEW q \in CaptureRequest,
           capTx' = [capTx EXCEPT ![r] = q], UNCHANGED <<jobTx, labourVars, job, expenses, now>>,
           begun' \in 0 .. MaxBegun, begun <= begun',
           form' \in Form, saving' \in CapTx \cup {NoOne}, heard' \subseteq CapTx,
           failed' \subseteq Form, CaptureHolds(r)', Searched(r)'
    PROVE  IInv'
<1>1. TypeOK /\ Captures /\ HistoryIsKept
  BY DEF IInv, Captures
<1>2. begun \in Nat /\ capTx \in [CapTx -> CaptureRequest]
  BY <1>1 DEF TypeOK, JobTypeOK, CaptureTypeOK
<1>3. CaptureTypeOK'
  BY <1>1, <1>2 DEF TypeOK, CaptureTypeOK
<1>4. capTx'[r] = q
  BY <1>2
<1>5. ASSUME NEW s \in CapTx, s # r PROVE CaptureHolds(s)' /\ Searched(s)'
  <2>1. capTx'[s] = capTx[s] /\ capTx[s].id \in Nat
    BY <1>2, <1>5 DEF CaptureRequest
  <2>2. Ids' = Ids
    BY DEF Ids
  <2>3. ASSUME Open(capTx[s]), NEW t \in CapTx \ {s}, Open(capTx'[t])
        PROVE  capTx'[t].id # capTx[s].id
    <3>1. CASE t = r
      BY <1>5, <2>1, <2>3, <3>1 DEF CaptureHolds
    <3>2. CASE t # r
      BY <1>1, <1>2, <2>3, <3>2 DEF Captures, CaptureHolds
    <3> QED BY <3>1, <3>2
  <2>4. CaptureHolds(s)'
    <3>1. begun' \in Nat
      BY LabourAssumption
    <3> QED BY <1>1, <1>2, <2>1, <2>2, <2>3, <3>1 DEF Captures, CaptureHolds
  <2>5. Searched(s)'
    BY <1>1, <2>1 DEF Captures, Searched, _merge
  <2> QED BY <2>4, <2>5
<1>6. Numbered'
  <2>1. begun' \in Nat /\ \A a \in expenses : a.id \in Nat
    BY <1>1, LabourAssumption DEF TypeOK, CaptureTypeOK, Row
  <2> QED BY <1>1, <1>2, <2>1 DEF Captures, Numbered, Ids
<1>7. TwinsOverlap'
  BY <1>1 DEF Captures, TwinsOverlap
<1>8. Captures'
  BY <1>5, <1>6, <1>7 DEF Captures
<1> QED BY <1>1, <1>3, <1>8, BooksHold DEF HistoryIsKept

\* A step of the phone alone.
LEMMA PhoneMoves ==
    ASSUME IInv, UNCHANGED <<jobTx, labourVars, job, capTx, expenses, now>>,
           begun' \in 0 .. MaxBegun, begun <= begun',
           form' \in Form, saving' \in CapTx \cup {NoOne}, heard' \subseteq CapTx,
           failed' \subseteq Form
    PROVE  IInv'
<1>1. TypeOK /\ HistoryIsKept
  BY DEF IInv
<1>2. CaptureTypeOK'
  BY <1>1 DEF TypeOK, CaptureTypeOK
<1>3. Captures'
  <2>1. begun' \in Nat
    BY LabourAssumption
  <2> QED BY <2>1, CapturesStand DEF IInv, Captures
<1> QED BY <1>1, <1>2, <1>3, BooksHold DEF HistoryIsKept

\* The next number.
LEMMA MoreCounts ==
    ASSUME JobTypeOK, More
    PROVE  begun' = begun + 1 /\ begun' \in 0 .. MaxBegun /\ begun <= begun' /\ begun + 1 \in Nat
BY LabourAssumption DEF JobTypeOK, More

\* The values of the phone in a state of the invariant.
LEMMA PhoneType ==
    ASSUME IInv
    PROVE  /\ form \in Form /\ saving \in CapTx \cup {NoOne} /\ heard \subseteq CapTx
           /\ failed \subseteq Form
           /\ begun \in 0 .. MaxBegun /\ begun \in Nat /\ begun <= begun
           /\ \A r \in CapTx : capTx[r] \in CaptureRequest
BY LabourAssumption DEF IInv, TypeOK, JobTypeOK, CaptureTypeOK

\* A text without its job.
LEMMA Unpicked ==
    ASSUME NEW f \in Form, NEW chip \in Jobs \cup {NoJob}
    PROVE  [f EXCEPT !.chip = chip] \in Form
BY DEF Form

\* Typing, giving up and the list of failures.
LEMMA PhoneStepHolds ==
    ASSUME IInv, UNCHANGED <<jobTx, labourVars>>,
           \/ \E text \in Texts, chip \in Jobs \cup {NoJob} : Type(text, chip)
           \/ \E r \in CapTx : GiveUp(r)
           \/ onRefillFailure \/ dismissFailure \/ Leave
    PROVE  IInv'
<1>1. JobTypeOK
  BY DEF IInv, TypeOK
<1>2. CASE \E text \in Texts, chip \in Jobs \cup {NoJob} : Type(text, chip)
  <2>1. PICK text \in Texts, chip \in Jobs \cup {NoJob} : Type(text, chip)
    BY <1>2
  <2>2. /\ form' = [text |-> text, chip |-> chip, capture |-> begun + 1]
        /\ begun' = begun + 1 /\ begun' \in 0 .. MaxBegun /\ begun <= begun' /\ begun + 1 \in Nat
        /\ UNCHANGED <<saving, heard, failed, now, job, capTx, expenses>>
    BY <1>1, <2>1, MoreCounts DEF Type
  <2>3. form' \in Form
    BY <2>2 DEF Form
  <2> QED BY <2>2, <2>3, PhoneMoves, PhoneType
<1>3. CASE \E r \in CapTx : GiveUp(r)
  <2>1. PICK r \in CapTx : GiveUp(r)
    BY <1>3
  <2>2. capTx[r].form \in Form
    BY PhoneType DEF CaptureRequest
  <2>3. failed' \subseteq Form /\ saving' \in CapTx \cup {NoOne} /\ heard' \subseteq CapTx
    BY <2>1, <2>2, PhoneType, Unpicked DEF GiveUp, Heard, recordFailure
  <2>4. UNCHANGED <<form, now, job, begun, capTx, expenses>>
    BY <2>1 DEF GiveUp, server
  <2> QED BY <2>3, <2>4, PhoneMoves, PhoneType
<1>4. CASE onRefillFailure
  <2>1. form' \in Form
    <3>1. form.chip \in Jobs \cup {NoJob}
      BY PhoneType DEF Form
    <3> QED BY <1>4, <3>1, PhoneType, Unpicked DEF onRefillFailure
  <2>2. UNCHANGED <<saving, heard, failed, now, job, begun, capTx, expenses>>
    BY <1>4 DEF onRefillFailure, server
  <2> QED BY <2>1, <2>2, PhoneMoves, PhoneType
<1>5. CASE dismissFailure
  <2>1. failed' \subseteq Form
    BY <1>5, PhoneType DEF dismissFailure
  <2>2. UNCHANGED <<form, saving, heard, now, job, begun, capTx, expenses>>
    BY <1>5 DEF dismissFailure, server
  <2> QED BY <2>1, <2>2, PhoneMoves, PhoneType
<1>6. CASE Leave
  <2>1. form' \in Form /\ saving' \in CapTx \cup {NoOne} /\ heard' \subseteq CapTx
    BY <1>6, PhoneType, Nulls DEF Leave
  <2>2. UNCHANGED <<failed, now, job, begun, capTx, expenses>>
    BY <1>6 DEF Leave, server
  <2> QED BY <2>1, <2>2, PhoneMoves, PhoneType
<1> QED BY <1>2, <1>3, <1>4, <1>5, <1>6

\* Time only makes what a search has found older.
LEMMA TickHolds ==
    ASSUME IInv, UNCHANGED <<jobTx, labourVars>>, Tick
    PROVE  IInv'
<1>1. TypeOK /\ Captures /\ HistoryIsKept
  BY DEF IInv, Captures
<1>2. /\ now' = now + 1 /\ now' \in 0 .. MaxTime /\ now \in Nat
      /\ UNCHANGED <<form, saving, heard, failed, job, capTx, expenses>>
      /\ begun' = begun + 1 /\ begun' \in 0 .. MaxBegun /\ begun <= begun' /\ begun \in Nat
  BY <1>1, MoreCounts, PhoneType, CaptureAssumption DEF Tick, phone, TypeOK, CaptureTypeOK
<1>3. CaptureTypeOK'
  BY <1>1, <1>2 DEF TypeOK, CaptureTypeOK
<1>4. \A a \in expenses : a.at \in Nat /\ a.id \in Nat
  BY <1>1 DEF TypeOK, CaptureTypeOK, Row
<1>5. ASSUME NEW r \in CapTx PROVE CaptureHolds(r)' /\ Searched(r)'
  <2>1. capTx[r].id \in Nat
    BY PhoneType DEF CaptureRequest
  <2>2. CaptureHolds(r)'
    BY <1>1, <1>2, <2>1 DEF Captures, CaptureHolds, Open, Ids
  <2>3. ASSUME NEW a \in expenses, a.at + Window < now PROVE a.at + Window < now'
    BY <1>2, <1>4, <2>3, CaptureAssumption
  <2>4. Searched(r)'
    BY <1>1, <1>2, <2>3 DEF Captures, Searched, _merge
  <2> QED BY <2>2, <2>4
<1>6. Numbered' /\ TwinsOverlap'
  BY <1>1, <1>2, <1>4 DEF Captures, Numbered, Ids, TwinsOverlap
<1>7. Captures'
  BY <1>5, <1>6 DEF Captures
<1> QED BY <1>1, <1>2, <1>3, <1>7, BooksHold DEF HistoryIsKept

\* A request comes: its number is new, and it finds what is there.
LEMMA SendHolds ==
    ASSUME IInv, UNCHANGED <<jobTx, labourVars>>, NEW r \in CapTx, NEW f \in Form,
           NEW parsed \in BOOLEAN, Send(r, f, parsed),
           form' = form, failed' = failed, saving' \in {saving, r},
           heard' \in {heard, heard \cup {r}}
    PROVE  IInv'
<1> DEFINE q == [NoCapTx EXCEPT !.pc = "sent", !.parsed = parsed, !.form = f,
                                !.id = begun + 1, !.before = {e.id : e \in expenses}]
<1>1. /\ capTx' = [capTx EXCEPT ![r] = q] /\ UNCHANGED <<job, expenses, now>>
      /\ begun' = begun + 1 /\ begun' \in 0 .. MaxBegun /\ begun <= begun' /\ begun \in Nat
  BY MoreCounts, PhoneType DEF Send, IInv, TypeOK
<1>2. capTx \in [CapTx -> CaptureRequest] /\ expenses \subseteq Row
  BY DEF IInv, TypeOK, CaptureTypeOK
<1>3. Ids \subseteq Nat /\ Ids' = Ids /\ \A a \in expenses : a.id <= begun
  BY <1>1, <1>2 DEF Ids, Row, IInv, Numbered
<1>4. q \in CaptureRequest /\ q.id = begun + 1 /\ q.before = Ids /\ q.pc = "sent"
  <2>1. NoCapTx \in CaptureRequest
    BY Nulls
  <2>2. {e.id : e \in expenses} \in SUBSET Nat
    BY <1>3 DEF Ids
  <2>3. ASSUME NEW found \in SUBSET Nat, NEW id \in Nat
        PROVE  [NoCapTx EXCEPT !.pc = "sent", !.parsed = parsed, !.form = f, !.id = id,
                               !.before = found] \in CaptureRequest
    BY <2>1 DEF CaptureRequest
  <2>5. q \in CaptureRequest
    <3>1. begun + 1 \in Nat
      BY <1>1
    <3> QED BY <2>2, <2>3, <3>1
  <2>4. q.id = begun + 1 /\ q.pc = "sent" /\ q.before = {e.id : e \in expenses}
    BY DEF NoCapTx
  <2> QED BY <2>4, <2>5 DEF Ids
<1> HIDE DEF q
<1>5. capTx'[r] = q
  BY <1>1, <1>2
<1>6. begun + 1 \notin Ids
  BY <1>1, <1>3 DEF Ids
<1>7. ASSUME NEW s \in CapTx \ {r}, Open(capTx'[s]) PROVE capTx'[s].id # begun + 1
  <2>1. capTx'[s] = capTx[s] /\ capTx[s].id <= begun /\ capTx[s].id \in Nat
    <3>1. capTx'[s] = capTx[s]
      BY <1>1, <1>2
    <3> QED BY <1>2, <1>7, <3>1 DEF IInv, CaptureHolds, CaptureRequest
  <2> QED BY <1>1, <2>1
<1>8. CaptureHolds(r)' /\ Searched(r)'
  BY <1>1, <1>3, <1>4, <1>5, <1>6, <1>7 DEF CaptureHolds, Searched
<1>9. saving' \in CapTx \cup {NoOne} /\ heard' \subseteq CapTx
  BY PhoneType
<1> QED BY <1>1, <1>4, <1>8, <1>9, CaptureMoves, PhoneType

\* A request is answered, or its answer is read.
LEMMA AnswerHolds ==
    ASSUME IInv, UNCHANGED <<jobTx, labourVars, job, begun, expenses, now, failed>>,
           NEW r \in CapTx, NEW q \in CaptureRequest, ~Open(q),
           capTx' = [capTx EXCEPT ![r] = q],
           form' \in Form, saving' \in CapTx \cup {NoOne}, heard' \subseteq CapTx
    PROVE  IInv'
<1>1. capTx'[r] = q
  BY DEF IInv, TypeOK, CaptureTypeOK
<1>2. CaptureHolds(r)' /\ Searched(r)'
  BY <1>1 DEF CaptureHolds, Searched, Open
<1> QED BY <1>2, CaptureMoves, PhoneType

\* The answer as it is left: for the app, or for nobody.
LEMMA AnswerStep ==
    ASSUME IInv, UNCHANGED <<jobTx, labourVars>>, NEW r \in CapTx,
           NEW pc \in {"stored", "refused"}, Answer(r, pc)
    PROVE  IInv'
<1> DEFINE q == IF r \in heard \/ [capTx[r] EXCEPT !.pc = pc].pc \notin {"stored", "refused"}
                THEN [capTx[r] EXCEPT !.pc = pc] ELSE NoCapTx
<1>1. /\ capTx' = [capTx EXCEPT ![r] = q]
      /\ UNCHANGED <<job, begun, now, form, saving, heard, failed, expenses>>
  BY DEF Answer, CaptureAt, phone
<1>2. q \in CaptureRequest /\ ~Open(q)
  BY PhoneType, Nulls DEF CaptureRequest, Open, NoCapTx
<1> HIDE DEF q
<1> QED BY <1>1, <1>2, AnswerHolds, PhoneType

\* The app reads it.
LEMMA HeardHolds ==
    ASSUME IInv, UNCHANGED <<jobTx, labourVars>>, NEW r \in CapTx, Created(r) \/ Refused(r)
    PROVE  IInv'
<1>1. /\ capTx' = [capTx EXCEPT ![r] = NoCapTx] /\ UNCHANGED <<job, begun, expenses, now>>
      /\ saving' \in CapTx \cup {NoOne} /\ heard' \subseteq CapTx
  BY PhoneType DEF Created, Refused, Heard
<1>2. NoCapTx \in CaptureRequest /\ ~Open(NoCapTx)
  BY Nulls DEF NoCapTx, Open
<1>3. form' \in Form
  BY PhoneType, Nulls DEF Created, Refused
<1>4. failed' \subseteq Form
  <2>1. capTx[r].form \in Form
    BY PhoneType DEF CaptureRequest
  <2> QED BY <2>1, PhoneType, Unpicked DEF Created, Refused, recordFailure
<1>5. CaptureHolds(r)' /\ Searched(r)'
  <2>1. capTx'[r] = NoCapTx
    BY <1>1 DEF IInv, TypeOK, CaptureTypeOK
  <2> QED BY <1>2, <2>1 DEF CaptureHolds, Searched, NoCapTx
<1> QED BY <1>1, <1>2, <1>3, <1>4, <1>5, CaptureMoves, PhoneType

\* A request goes on, with its number and what it found.
LEMMA GoesOn ==
    ASSUME IInv, UNCHANGED <<jobTx, labourVars, job, begun, expenses, now, form, saving, heard,
                             failed>>,
           NEW r \in CapTx, Open(capTx[r]), NEW q \in CaptureRequest,
           q.id = capTx[r].id, q.before = capTx[r].before, q.pc \in {"parsed", "looked"},
           capTx' = [capTx EXCEPT ![r] = q], Searched(r)'
    PROVE  IInv'
<1>1. CaptureHolds(r) /\ capTx \in [CapTx -> CaptureRequest]
  BY DEF IInv, TypeOK, CaptureTypeOK
<1>2. capTx'[r] = q /\ \A s \in CapTx \ {r} : capTx'[s] = capTx[s]
  BY <1>1
<1>3. CaptureHolds(r)'
  BY <1>1, <1>2 DEF CaptureHolds, Ids
<1> QED BY <1>3, CaptureMoves, PhoneType

\* The parser resolves a job, or none.
LEMMA ParseHolds ==
    ASSUME IInv, UNCHANGED <<jobTx, labourVars>>, NEW r \in CapTx, Parse(r)
    PROVE  IInv'
<1> DEFINE read == IF capTx[r].parsed THEN match_job(capTx[r].form.text) ELSE NoJob
           q == [capTx[r] EXCEPT !.pc = "parsed", !.read = read]
<1>1. capTx[r] \in CaptureRequest /\ capTx[r].form \in Form
  BY PhoneType DEF CaptureRequest
<1>2. read \in Jobs \cup {NoJob}
  <2> DEFINE named == {j \in Mentions[capTx[r].form.text] : job[j] = "active"}
  <2>1. Mentions[capTx[r].form.text] \subseteq Jobs
    BY <1>1, CaptureAssumption DEF Form
  <2>2. Cardinality(named) = 1 => named # {}
    BY FS_EmptySet
  <2>3. Cardinality(named) = 1 => (CHOOSE j \in named : TRUE) \in Jobs
    BY <2>1, <2>2
  <2> QED BY <2>3 DEF match_job
<1> HIDE DEF read
<1>3. /\ q \in CaptureRequest /\ q.id = capTx[r].id /\ q.before = capTx[r].before
      /\ q.pc = "parsed"
  BY <1>1, <1>2 DEF CaptureRequest
<1>4. /\ capTx[r].pc = "sent" /\ capTx' = [capTx EXCEPT ![r] = q]
      /\ UNCHANGED <<job, begun, expenses, now, form, saving, heard, failed>>
  BY <1>3 DEF Parse, CaptureAt, phone, read
<1> HIDE DEF q
<1>5. capTx'[r] = q
  BY <1>4 DEF IInv, TypeOK, CaptureTypeOK
<1>6. Searched(r)'
  BY <1>3, <1>5 DEF Searched
<1> QED BY <1>3, <1>4, <1>6, GoesOn DEF Open

\* What the search says is so of every expense there is.
LEMMA LookHolds ==
    ASSUME IInv, UNCHANGED <<jobTx, labourVars>>, NEW r \in CapTx, Look(r)
    PROVE  IInv'
<1> DEFINE q == [capTx[r] EXCEPT !.pc = "looked", !.dup = capTx[r].parsed /\ Duplicated(capTx[r])]
<1>1. capTx[r] \in CaptureRequest
  BY PhoneType
<1>2. CASE Answer(r, "refused") \/ Answer(r, "stored")
  BY <1>2, AnswerStep
<1>3. CASE ~(Answer(r, "refused") \/ Answer(r, "stored"))
  <2>1. /\ capTx[r].pc = "parsed" /\ _merge(capTx[r]) # NoJob
        /\ ~(~capTx[r].parsed /\ Repeated(capTx[r]))
        /\ CaptureAt(r, q) /\ expenses' = expenses
    BY <1>3 DEF Look
  <2>2. (capTx[r].parsed /\ Duplicated(capTx[r])) \in BOOLEAN
    BY <1>1 DEF CaptureRequest, Duplicated
  <2>3. /\ q \in CaptureRequest /\ q.id = capTx[r].id /\ q.before = capTx[r].before
        /\ q.pc = "looked" /\ q.parsed = capTx[r].parsed /\ q.read = capTx[r].read
        /\ q.form = capTx[r].form
        /\ q.dup = (capTx[r].parsed /\ Duplicated(capTx[r]))
    BY <1>1, <2>2 DEF CaptureRequest, Duplicated
  <2>4. /\ capTx' = [capTx EXCEPT ![r] = q]
        /\ UNCHANGED <<job, begun, expenses, now, form, saving, heard, failed>>
    BY <2>1, <2>3 DEF CaptureAt, phone
  <2> HIDE DEF q
  <2>5. capTx'[r] = q
    BY <2>4 DEF IInv, TypeOK, CaptureTypeOK
  <2>6. _merge(q) = _merge(capTx[r])
    BY <2>3 DEF _merge
  <2>7. ASSUME NEW a \in expenses, a.text = q.form.text
        PROVE  IF q.parsed THEN a.job = q.read => q.dup
               ELSE a.job = _merge(q) => a.at + Window < now
    <3>1. CASE q.parsed
      BY <2>3, <2>7, <3>1 DEF Duplicated
    <3>2. CASE ~q.parsed
      <4>1. a.at \in Nat /\ now \in Nat /\ Window \in Nat
        BY CaptureAssumption DEF IInv, TypeOK, CaptureTypeOK, Row
      <4>2. a.job = _merge(q) => ~(a.at + Window >= now)
        BY <2>1, <2>3, <2>6, <2>7, <3>2 DEF Repeated
      <4> QED BY <3>2, <4>1, <4>2
    <3> QED BY <3>1, <3>2
  <2>8. Searched(r)'
    BY <2>1, <2>4, <2>5, <2>6, <2>7 DEF Searched, _merge
  <2> QED BY <2>1, <2>3, <2>4, <2>8, GoesOn DEF Open
<1> QED BY <1>2, <1>3

\* The expense is written: it repeats none of those the request found in silence.
LEMMA InsertHolds ==
    ASSUME IInv, UNCHANGED <<jobTx, labourVars>>, NEW r \in CapTx, Insert(r)
    PROVE  IInv'
<1> DEFINE q == capTx[r]
           e == [id |-> q.id, text |-> q.form.text, job |-> _merge(q), read |-> q.read,
                 parsed |-> q.parsed, dup |-> q.dup, pending |-> Gated(q), at |-> now,
                 capture |-> q.form.capture, before |-> q.before]
           k == IF r \in heard THEN [q EXCEPT !.pc = "stored"] ELSE NoCapTx
<1>1. CASE Answer(r, "refused")
  BY <1>1, AnswerStep
<1>2. CASE ~Answer(r, "refused")
  <2>1. /\ q.pc = "looked" /\ job[_merge(q)] # "gone"
        /\ CaptureAt(r, [q EXCEPT !.pc = "stored"]) /\ expenses' = expenses \cup {e}
    BY <1>2 DEF Insert
  <2>2. q \in CaptureRequest /\ q.form \in Form
    BY PhoneType DEF CaptureRequest
  <2>3. k \in CaptureRequest /\ ~Open(k)
    BY <2>2, Nulls DEF CaptureRequest, Open, NoCapTx
  <2>4. /\ capTx' = [capTx EXCEPT ![r] = k]
        /\ UNCHANGED <<job, begun, now, form, saving, heard, failed>>
    <3>1. [q EXCEPT !.pc = "stored"].pc = "stored"
      BY <2>2 DEF CaptureRequest
    <3> QED BY <2>1, <3>1 DEF CaptureAt, phone
  <2>5. TypeOK /\ Captures /\ HistoryIsKept /\ CaptureHolds(r) /\ Searched(r)
    BY DEF IInv, Captures
  <2>6. capTx \in [CapTx -> CaptureRequest] /\ expenses \subseteq Row /\ now \in Nat
    BY <2>5, CaptureAssumption DEF TypeOK, CaptureTypeOK
  <2>7. _merge(q) \in Jobs
    BY <2>1, <2>2, <2>5 DEF _merge, Searched, CaptureRequest, Form
  <2>8. Gated(q) \in BOOLEAN /\ (q.parsed /\ (q.dup \/ q.read = NoJob) => Gated(q))
    BY <2>2 DEF Gated, CaptureRequest
  <2>9. /\ e.id = q.id /\ e.text = q.form.text /\ e.job = _merge(q) /\ e.read = q.read
        /\ e.parsed = q.parsed /\ e.pending = Gated(q) /\ e.at = now /\ e.before = q.before
    OBVIOUS
  <2>10. e \in Row
    BY <2>2, <2>6, <2>7, <2>8 DEF Row, CaptureRequest, Form
  <2>11. q.id <= begun /\ q.id \notin Ids /\ q.before \subseteq Ids
    BY <2>1, <2>5 DEF CaptureHolds, Open
  <2> HIDE DEF q, e, k
  <2>12. Ids' = Ids \cup {q.id}
    BY <2>1, <2>9 DEF Ids
  <2>13. capTx'[r] = k /\ \A s \in CapTx \ {r} : capTx'[s] = capTx[s]
    BY <2>4, <2>6
  <2>14. ASSUME NEW s \in CapTx PROVE CaptureHolds(s)' /\ Searched(s)'
    <3>1. CASE s = r
      BY <2>3, <2>13, <3>1 DEF CaptureHolds, Searched, Open
    <3>2. CASE s # r
      <4>1. CaptureHolds(s) /\ Searched(s) /\ capTx'[s] = capTx[s]
        BY <2>5, <2>13, <3>2 DEF Captures
      <4>2. Open(capTx[s]) => capTx[s].id # q.id
        BY <2>1, <3>2, <4>1 DEF CaptureHolds, Open, q
      <4>3. CaptureHolds(s)'
        BY <2>3, <2>4, <2>12, <2>13, <4>1, <4>2 DEF CaptureHolds
      <4>4. capTx[s].pc = "looked" => e.id \notin capTx[s].before
        BY <2>9, <2>11, <4>1 DEF CaptureHolds, Open
      <4>5. Searched(s)'
        BY <2>1, <2>4, <4>1, <4>4 DEF Searched, _merge
      <4> QED BY <4>3, <4>5
    <3> QED BY <3>1, <3>2
  <2>15. Numbered'
    <3>1. Numbered
      BY <2>5 DEF Captures
    <3>2. ASSUME NEW a \in expenses PROVE a.id # e.id /\ a.before \subseteq Ids /\ a.id <= begun
      BY <2>9, <2>11, <3>1 DEF Numbered, Ids
    <3> QED BY <2>1, <2>4, <2>9, <2>11, <2>12, <3>1, <3>2 DEF Numbered
  <2>16. TwinsOverlap'
    <3>1. ASSUME NEW a \in expenses', NEW b \in expenses', a.text = b.text, a.id \in b.before
          PROVE  IF b.parsed THEN b.pending \/ b.read # a.job
                 ELSE a.job = b.job => a.at + Window < b.at
      <4>1. b.before \subseteq Ids
        BY <2>1, <2>5, <2>9, <2>11 DEF Captures, Numbered
      <4>2. a \in expenses
        BY <2>1, <2>9, <2>11, <3>1, <4>1
      <4>3. CASE b \in expenses
        BY <2>5, <3>1, <4>2, <4>3 DEF Captures, TwinsOverlap
      <4>4. CASE b = e
        <5>1. IF q.parsed THEN a.job = q.read => q.dup
              ELSE a.job = _merge(q) => a.at + Window < now
          BY <2>1, <2>5, <2>9, <3>1, <4>2, <4>4 DEF Searched, q
        <5> QED BY <2>8, <2>9, <4>4, <5>1
      <4> QED BY <2>1, <4>3, <4>4
    <3> QED BY <3>1 DEF TwinsOverlap
  <2>17. Captures'
    BY <2>14, <2>15, <2>16 DEF Captures
  <2>18. CaptureTypeOK'
    BY <2>1, <2>3, <2>4, <2>5, <2>6, <2>10 DEF TypeOK, CaptureTypeOK
  <2>19. \A a \in expenses' : job[a.job] # "gone"
    BY <2>1, <2>5, <2>9 DEF HistoryIsKept
  <2> QED BY <2>4, <2>17, <2>18, <2>19, BooksHold, PhoneType
<1> QED BY <1>1, <1>2

\* Each step of the phone and of its requests keeps the invariant.
LEMMA CaptureStepHolds ==
    ASSUME IInv, CaptureStep, UNCHANGED <<jobTx, labourVars>>
    PROVE  IInv'
<1>1. ASSUME NEW r \in CapTx, onSubmit(r) PROVE IInv'
  <2>1. Send(r, form, TRUE) /\ form' = form /\ failed' = failed
        /\ saving' = r /\ heard' = heard \cup {r}
    BY <1>1 DEF onSubmit
  <2> QED BY <2>1, SendHolds, PhoneType
<1>2. ASSUME NEW r \in CapTx, Post(r) PROVE IInv'
  <2>1. PICK text \in Texts, chip \in Jobs :
           Send(r, [text |-> text, chip |-> chip, capture |-> 0], FALSE)
    BY <1>2 DEF Post
  <2>2. [text |-> text, chip |-> chip, capture |-> 0] \in Form
    BY DEF Form
  <2>3. UNCHANGED <<form, saving, heard, failed>>
    BY <1>2 DEF Post, phone
  <2> QED BY <2>1, <2>2, <2>3, SendHolds
<1>3. ASSUME NEW r \in CapTx, Created(r) \/ Refused(r) PROVE IInv'
  BY <1>3, HeardHolds
<1>4. ASSUME NEW r \in CapTx, Fail(r) \/ Unheard(r) PROVE IInv'
  BY <1>4, AnswerStep DEF Fail, Unheard
<1>5. ASSUME NEW r \in CapTx, Parse(r) \/ Look(r) \/ Insert(r) PROVE IInv'
  BY <1>5, ParseHolds, LookHolds, InsertHolds
<1>6. CASE \/ \E text \in Texts, chip \in Jobs \cup {NoJob} : Type(text, chip)
           \/ \E r \in CapTx : GiveUp(r)
           \/ onRefillFailure \/ dismissFailure \/ Leave
  BY <1>6, PhoneStepHolds
<1>7. CASE Tick
  BY <1>7, TickHolds
<1> QED BY <1>1, <1>2, <1>3, <1>4, <1>5, <1>6, <1>7 DEF CaptureStep

-----------------------------------------------------------------------------
(* Every step. *)

LEMMA StutterHolds ==
    ASSUME IInv, UNCHANGED vars
    PROVE  IInv'
<1>1. UNCHANGED <<jobTx, labourVars, job, begun, capTx, expenses, now, form, saving, heard,
                  failed>>
  BY DEF vars, captureVars, phone
<1> QED BY <1>1, PhoneMoves, PhoneType

LEMMA NextHolds == IInv /\ [Next]_vars => IInv'
<1> SUFFICES ASSUME IInv, [Next]_vars PROVE IInv'
  OBVIOUS
<1>1. ASSUME NEW r \in JobTx, JobStep(r), UNCHANGED <<labourVars, captureVars>> PROVE IInv'
  BY <1>1, JobStepHolds
<1>2. ASSUME NEW r \in DayTx, LabourStep(r), UNCHANGED <<jobTx, captureVars>> PROVE IInv'
  BY <1>2, LabourStepHolds
<1>3. ASSUME NEW w \in Workers, update_worker(w), UNCHANGED <<jobTx, captureVars>> PROVE IInv'
  BY <1>3, RosterHolds
<1>4. ASSUME CaptureStep, UNCHANGED <<jobTx, labourVars>> PROVE IInv'
  BY <1>4, CaptureStepHolds
<1>5. CASE Quiet \/ UNCHANGED vars
  BY <1>5, StutterHolds DEF Quiet
<1> QED BY <1>1, <1>2, <1>3, <1>4, <1>5 DEF Next

\* What the invariant is for: of batches that all wait for one of them, take the
\* one that waits for the worker who comes last.  The batch that has that
\* worker's lock waits for a later one.
LEMMA NoCircle == IInv => NoCircularWait
<1> SUFFICES ASSUME IInv, NEW C \in SUBSET DayTx, C # {},
                    \A r \in C : \E s \in C : WaitsFor(r, s)
             PROVE  FALSE
  BY DEF NoCircularWait
<1> DEFINE T == {Turn(dayTx[r]) : r \in C}
<1>1. ASSUME NEW r \in C
      PROVE  Turn(dayTx[r]) \in Workers /\ Turn(dayTx[r]) \in dayTx[r].todo
  <2>1. dayTx[r].todo # {} /\ dayTx[r].todo \subseteq Workers
    BY DEF WaitsFor, IInv, TypeOK, LabourTypeOK, DayRequest
  <2> QED BY <2>1, TurnIsFirst
<1>2. T \subseteq Workers /\ T # {}
  BY <1>1
<1>3. PICK w \in T : \A v \in T : v <= w
  <2> HIDE DEF T
  <2> QED BY <1>2, Greatest
<1>4. PICK r \in C : w = Turn(dayTx[r])
  BY <1>3
<1>5. PICK s \in C : WaitsFor(r, s)
  OBVIOUS
<1>6. dayLock[w] = s /\ BatchHolds(s) /\ w \in Workers
  BY <1>1, <1>4, <1>5 DEF WaitsFor, IInv
<1>7. w < Turn(dayTx[s])
  BY <1>1, <1>6 DEF BatchHolds
<1>8. Turn(dayTx[s]) <= w /\ Turn(dayTx[s]) \in Nat /\ w \in Nat
  BY <1>1, <1>3, <1>6, LabourAssumption
<1> QED BY <1>7, <1>8

-----------------------------------------------------------------------------
(* The cap on a day's hours. *)

Else(j) == Jobs \ {j}

\* A day fits, and what a batch has put would fit the days it has locked.
DayFits(w) == Total(entry[w], Jobs) <= DayHours

PutFits(r) ==
    LET q == dayTx[r]
    IN  \A w \in Workers : q.put[w].id # 0 =>
           Total(entry[w], Else(q.on)) + q.put[w].hours <= DayHours

HoursInv == (\A w \in Workers : DayFits(w)) /\ (\A r \in DayTx : PutFits(r))

LEMMA InitHours == Init => HoursInv
<1> SUFFICES ASSUME Init PROVE HoursInv
  OBVIOUS
<1> USE DEF Init, LabourInit
<1>1. ASSUME NEW w \in Workers PROVE DayFits(w)
  <2>1. \A j \in Jobs : entry[w][j].hours = 0
    BY DEF NoEntry
  <2> QED BY <2>1, TotalOfNone, LabourAssumption DEF DayFits
<1>2. ASSUME NEW r \in DayTx PROVE PutFits(r)
  BY DEF PutFits, NoDayTx, NoEntry
<1> QED BY <1>1, <1>2 DEF HoursInv

\* A day without one of its jobs.
LEMMA Without ==
    ASSUME TypeOK, NEW w \in Workers, NEW j \in Jobs
    PROVE  /\ Total(entry[w], Jobs) = entry[w][j].hours + Total(entry[w], Else(j))
           /\ entry[w][j].hours \in Nat /\ Total(entry[w], Else(j)) \in Nat
<1>1. entry[w] \in [Jobs -> Entry]
  BY DEF TypeOK, LabourTypeOK
<1>2. entry[w][j].hours \in Nat
  BY <1>1, LabourAssumption DEF Entry
<1>3. Else(j) \in SUBSET Jobs
  BY DEF Else
<1>4. Total(entry[w], Else(j)) \in Nat
  BY <1>1, <1>3, TotalType
<1>5. Total(entry[w], Jobs) = entry[w][j].hours + Total(entry[w], Else(j))
  BY <1>1, TotalWithout DEF Else
<1> QED BY <1>2, <1>4, <1>5

\* A day with one of its jobs written over.
LEMMA WrittenOver ==
    ASSUME TypeOK, NEW w \in Workers, NEW j \in Jobs, NEW x \in Entry,
           Total(entry[w], Else(j)) + x.hours <= DayHours,
           NEW e, e = [entry[w] EXCEPT ![j] = x]
    PROVE  Total(e, Jobs) <= DayHours
<1>1. entry[w] \in [Jobs -> Entry]
  BY DEF TypeOK, LabourTypeOK
<1>2. e \in [Jobs -> Entry] /\ e[j] = x /\ \A k \in Jobs \ {j} : e[k] = entry[w][k]
  BY <1>1
<1>3. Total(e, Else(j)) = Total(entry[w], Else(j))
  <2>1. Else(j) \in SUBSET Jobs /\ \A k \in Else(j) : e[k].hours = entry[w][k].hours
    BY <1>2 DEF Else
  <2>2. PICK S \in SUBSET Jobs, f \in [Jobs -> Entry] : S = Else(j) /\ f = entry[w]
    BY <1>1, <2>1
  <2>3. \A k \in S : e[k].hours = f[k].hours
    BY <2>1, <2>2
  <2>4. Total(e, S) = Total(f, S)
    BY <2>3, TotalSame
  <2> QED BY <2>2, <2>4
<1>4. Total(e, Jobs) = x.hours + Total(e, Else(j))
  BY <1>2, TotalWithout DEF Else
<1>5. x.hours \in Nat /\ Total(entry[w], Else(j)) \in Nat /\ DayHours \in Nat
  BY Without, LabourAssumption DEF Entry
<1> QED BY <1>3, <1>4, <1>5

\* Who has a day's lock sees it stand.
LEMMA HoursMove ==
    ASSUME IInv, HoursInv, NEW r \in DayTx, Sound(r),
           \A w \in Workers : DayFits(w)', PutFits(r)'
    PROVE  HoursInv'
<1>1. ASSUME NEW s \in DayTx, s # r PROVE PutFits(s)'
  <2>1. dayTx'[s] = dayTx[s] /\ BatchHolds(s) /\ s # Nobody /\ PutFits(s)
    BY <1>1, LabourAssumption DEF Sound, IInv, TypeOK, LabourTypeOK, HoursInv
  <2>2. ASSUME NEW w \in Workers, dayTx[s].put[w].id # 0 PROVE entry'[w] = entry[w]
    BY <1>1, <2>1, <2>2 DEF Sound, BatchHolds
  <2> QED BY <2>1, <2>2 DEF PutFits
<1> QED BY <1>1 DEF HoursInv

\* A step that changes no day, nor what the request has put.
LEMMA HoursStay ==
    ASSUME IInv, HoursInv, NEW r \in DayTx, Sound(r), entry' = entry,
           \/ \A w \in Workers : dayTx'[r].put[w].id = 0
           \/ dayTx'[r].put = dayTx[r].put /\ dayTx'[r].on = dayTx[r].on
    PROVE  HoursInv'
<1>1. \A w \in Workers : DayFits(w)'
  BY DEF HoursInv, DayFits
<1>2. PutFits(r)'
  BY DEF HoursInv, PutFits
<1> QED BY <1>1, <1>2, HoursMove

\* A request that ends has put nothing.
LEMMA NothingPut ==
    ASSUME TypeOK, NEW r \in DayTx, DayEnds(r)
    PROVE  \A w \in Workers : dayTx'[r].put[w].id = 0
BY DEF TypeOK, LabourTypeOK, DayEnds, NoDayTx, NoEntry

\* The cap is checked against the other jobs of the locked day; an item without
\* hours takes none.
LEMMA SaveWorkerHours ==
    ASSUME IInv, HoursInv, NEW r \in DayTx, SaveWorker(r)
    PROVE  HoursInv'
<1> DEFINE w == Turn(dayTx[r])
<1>1. TypeOK /\ LabourTypeOK /\ BatchHolds(r) /\ Sound(r)
  BY SaveWorkerSound DEF IInv, TypeOK
<1>2. dayTx[r].pc = "turn" /\ dayTx[r].todo # {} /\ dayTx[r] \in DayRequest
  BY <1>1 DEF SaveWorker, LabourTypeOK
<1>3. w \in dayTx[r].todo /\ w \in Workers
  BY <1>2, TurnIsFirst DEF DayRequest
<1>4. Saved(dayTx[r], w) \in Entry
  BY <1>1, <1>2, <1>3, SavedType DEF BatchHolds
<1> HIDE DEF w
<1>5. CASE ~Accepted(dayTx[r], w)
  <2>1. DayEnds(r) /\ entry' = entry
    BY <1>5 DEF SaveWorker, DayRollback, w
  <2> QED BY <1>1, <2>1, NothingPut, HoursStay
<1>6. CASE Accepted(dayTx[r], w)
  <2>1. /\ dayTx' = [dayTx EXCEPT ![r] =
              [dayTx[r] EXCEPT !.pc = "staged", !.todo = dayTx[r].todo \ {w},
                               !.put = [dayTx[r].put EXCEPT ![w] = Saved(dayTx[r], w)]]]
        /\ entry' = entry
    BY <1>6 DEF SaveWorker, w
  <2>2. /\ dayTx'[r].put = [dayTx[r].put EXCEPT ![w] = Saved(dayTx[r], w)]
        /\ dayTx'[r].on = dayTx[r].on /\ dayTx[r].on \in Jobs
        /\ dayTx[r].put \in [Workers -> Entry]
    BY <1>1, <1>2, <2>1 DEF LabourTypeOK, DayRequest
  <2>3. Saved(dayTx[r], w).hours = NewHours(dayTx[r], w)
    <3>1. entry[w][dayTx[r].on] \in Entry
      BY <1>1, <1>3, <2>2 DEF LabourTypeOK
    <3> QED BY <3>1 DEF Saved, Entry
  <2>4. Total(entry[w], Else(dayTx[r].on)) + Saved(dayTx[r], w).hours <= DayHours
    <3>1. CASE NewHours(dayTx[r], w) # 0
      <4>1. HoursOf(w, Else(dayTx[r].on)) + NewHours(dayTx[r], w) <= DayHours
        BY <1>6, <3>1 DEF Accepted, Fits, Else
      <4> QED BY <2>3, <4>1, HoursAreTotal
    <3>2. CASE NewHours(dayTx[r], w) = 0
      BY <1>1, <1>3, <2>2, <2>3, <3>2, Without, LabourAssumption DEF HoursInv, DayFits
    <3> QED BY <3>1, <3>2
  <2>5. PutFits(r)'
    BY <1>3, <2>1, <2>2, <2>4 DEF PutFits, HoursInv
  <2>6. \A v \in Workers : DayFits(v)'
    BY <2>1 DEF HoursInv, DayFits
  <2> QED BY <1>1, <2>5, <2>6, HoursMove
<1> QED BY <1>5, <1>6

\* The commit writes over what was checked.
LEMMA CommitBatchHours ==
    ASSUME IInv, HoursInv, NEW r \in DayTx, CommitBatch(r)
    PROVE  HoursInv'
<1>1. TypeOK /\ Sound(r) /\ dayTx[r] \in DayRequest
  BY CommitBatchSound DEF IInv, TypeOK, LabourTypeOK
<1>2. /\ entry' = [w \in Workers |->
            IF dayTx[r].put[w].id = 0 THEN entry[w]
            ELSE [entry[w] EXCEPT ![dayTx[r].on] = dayTx[r].put[w]]]
      /\ DayEnds(r)
  BY DEF CommitBatch
<1>3. dayTx[r].on \in Jobs /\ dayTx[r].put \in [Workers -> Entry]
  BY <1>1 DEF DayRequest
<1>4. ASSUME NEW w \in Workers PROVE DayFits(w)'
  <2>1. CASE dayTx[r].put[w].id = 0
    BY <1>2, <2>1 DEF HoursInv, DayFits
  <2>2. CASE dayTx[r].put[w].id # 0
    <3>1. entry'[w] = [entry[w] EXCEPT ![dayTx[r].on] = dayTx[r].put[w]]
      BY <1>2, <2>2
    <3>2. Total(entry[w], Else(dayTx[r].on)) + dayTx[r].put[w].hours <= DayHours
      BY <2>2 DEF HoursInv, PutFits
    <3> QED BY <1>1, <1>3, <3>1, <3>2, WrittenOver DEF DayFits
  <2> QED BY <2>1, <2>2
<1>5. PutFits(r)'
  BY <1>1, <1>2, NothingPut DEF PutFits
<1> QED BY <1>1, <1>4, <1>5, HoursMove

\* A delete takes hours away.
LEMMA DeleteEntryHours ==
    ASSUME IInv, HoursInv, NEW r \in DayTx, delete_entry(r)
    PROVE  HoursInv'
<1>1. TypeOK /\ Sound(r) /\ dayTx[r] \in DayRequest
  BY DeleteEntrySound DEF IInv, TypeOK, LabourTypeOK
<1>2. PICK w \in dayTx[r].todo :
         entry' = IF entry[w][dayTx[r].on].id = dayTx[r].id
                  THEN [entry EXCEPT ![w] = [@ EXCEPT ![dayTx[r].on] = NoEntry]]
                  ELSE entry
  BY DEF delete_entry
<1>3. DayEnds(r)
  BY DEF delete_entry
<1>4. w \in Workers /\ dayTx[r].on \in Jobs
  BY <1>1 DEF DayRequest
<1>5. ASSUME NEW v \in Workers PROVE DayFits(v)'
  <2>1. CASE entry'[v] = entry[v]
    BY <2>1 DEF HoursInv, DayFits
  <2>2. CASE entry'[v] # entry[v]
    <3>1. entry'[v] = [entry[v] EXCEPT ![dayTx[r].on] = NoEntry]
      BY <1>1, <1>2, <1>4, <2>2 DEF TypeOK, LabourTypeOK
    <3>2. NoEntry \in Entry /\ NoEntry.hours = 0
      BY Nulls DEF NoEntry
    <3>3. Total(entry[v], Else(dayTx[r].on)) + 0 <= DayHours
      BY <1>1, <1>4, Without, LabourAssumption DEF HoursInv, DayFits
    <3> QED BY <1>1, <1>4, <3>1, <3>2, <3>3, WrittenOver DEF DayFits
  <2> QED BY <2>1, <2>2
<1>6. PutFits(r)'
  BY <1>1, <1>3, NothingPut DEF PutFits
<1> QED BY <1>1, <1>5, <1>6, HoursMove

\* The other steps about the day.
LEMMA OtherHours ==
    ASSUME IInv, HoursInv, NEW r \in DayTx,
           \/ \E user \in Users, j \in Jobs, batch \in Batches : BatchBegins(r, user, j, batch)
           \/ \E user \in Users, w \in Workers, j \in Jobs : DeleteReads(r, user, w, j)
           \/ ReadWorkers(r) \/ FlushBatch(r) \/ DayRollback(r)
    PROVE  HoursInv'
<1>1. TypeOK /\ LabourTypeOK /\ dayTx[r] \in DayRequest
  BY DEF IInv, TypeOK, LabourTypeOK
<1>2. Sound(r)
  BY BatchBeginsSound, DeleteReadsSound, ReadWorkersSound, FlushBatchSound, DayRollbackSound
<1>3. ASSUME DayRollback(r) PROVE HoursInv'
  BY <1>1, <1>2, <1>3, NothingPut, HoursStay DEF DayRollback
<1>4. ASSUME NEW user \in Users, NEW j \in Jobs, NEW batch \in Batches,
             BatchBegins(r, user, j, batch)
      PROVE  HoursInv'
  <2>1. dayTx'[r].put = NoDayTx.put /\ entry' = entry
    BY <1>1, <1>4 DEF BatchBegins, LabourTypeOK, NoDayTx
  <2>2. \A w \in Workers : dayTx'[r].put[w].id = 0
    BY <2>1 DEF NoDayTx, NoEntry
  <2> QED BY <1>2, <2>1, <2>2, HoursStay
<1>5. ASSUME NEW user \in Users, NEW w \in Workers, NEW j \in Jobs, DeleteReads(r, user, w, j)
      PROVE  HoursInv'
  <2>1. dayTx'[r].put = NoDayTx.put /\ entry' = entry
    BY <1>1, <1>5 DEF DeleteReads, LabourTypeOK, NoDayTx
  <2>2. \A v \in Workers : dayTx'[r].put[v].id = 0
    BY <2>1 DEF NoDayTx, NoEntry
  <2> QED BY <1>2, <2>1, <2>2, HoursStay
<1>6. CASE ReadWorkers(r)
  <2>1. /\ dayTx'[r].put = dayTx[r].put /\ dayTx'[r].on = dayTx[r].on
        /\ entry' = entry
    BY <1>1, <1>6 DEF ReadWorkers, LabourTypeOK, DayRequest
  <2> QED BY <1>2, <2>1, HoursStay
<1>7. CASE FlushBatch(r) /\ ~DayRollback(r)
  <2>1. /\ dayTx'[r].put = dayTx[r].put /\ dayTx'[r].on = dayTx[r].on
        /\ entry' = entry
    BY <1>1, <1>7, ZenonT(30) DEF FlushBatch, LabourTypeOK, DayRequest
  <2> QED BY <1>2, <2>1, HoursStay
<1> QED BY <1>3, <1>4, <1>5, <1>6, <1>7

LEMMA NextHours == IInv /\ HoursInv /\ [Next]_vars => HoursInv'
<1> SUFFICES ASSUME IInv, HoursInv, [Next]_vars PROVE HoursInv'
  OBVIOUS
<1>1. ASSUME NEW r \in DayTx, LabourStep(r) PROVE HoursInv'
  BY <1>1, SaveWorkerHours, CommitBatchHours, DeleteEntryHours, OtherHours DEF LabourStep
<1>2. CASE UNCHANGED <<entry, dayTx>>
  BY <1>2 DEF HoursInv, DayFits, PutFits
<1>3. CASE ~ \E r \in DayTx : LabourStep(r)
  BY <1>2, <1>3 DEF Next, vars, labourVars, update_worker, Quiet
<1> QED BY <1>1, <1>3

-----------------------------------------------------------------------------
(* Theorems. *)

\* The inductive invariant, of every reachable state.
THEOREM Invariant == Spec => []IInv
<1>1. Init => IInv
  BY InitHolds
<1>2. IInv /\ [Next]_vars => IInv'
  BY NextHolds
<1> QED BY <1>1, <1>2, PTL DEF Spec

\* Jobs, attendance, expenses, requests and locks keep their types.
THEOREM TypeCorrect == Spec => []TypeOK
<1>1. IInv => TypeOK
  BY DEF IInv
<1> QED BY <1>1, Invariant, PTL

\* jobs.py:596-740: whatever is archived, reopened and deleted, no attendance and
\* no expense is left without its job.
THEOREM HistoryStaysKept == Spec => []HistoryIsKept
<1>1. IInv => HistoryIsKept
  BY DEF IInv
<1> QED BY <1>1, Invariant, PTL

\* labour.py:297-312: any number of batches over any workers, in any order of
\* their lists, never all wait for one another.
THEOREM NoBatchesInACircle == Spec => []NoCircularWait
<1>1. IInv => NoCircularWait
  BY NoCircle
<1> QED BY <1>1, Invariant, PTL

\* expenses.py:557-585, duplicates.py:72-130: what repeats an expense in silence
\* came before it was there, or when the window had passed.
THEOREM TwinsMustOverlap == Spec => []TwinsOverlap
<1>1. IInv => TwinsOverlap
  BY DEF IInv
<1> QED BY <1>1, Invariant, PTL

\* labour.py:363-377: a worker's hours over all the jobs of a day stay within
\* the cap, whichever batches and deletes overlap.
THEOREM DaysFit == Spec => []DayWithin24h
<1>1. IInv /\ HoursInv => DayWithin24h
  BY HoursAreTotal DEF HoursInv, DayFits, DayWithin24h
<1> QED BY <1>1, Invariant, InitHours, NextHours, PTL DEF Spec
=============================================================================
