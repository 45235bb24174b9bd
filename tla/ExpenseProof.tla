---------------------------- MODULE ExpenseProof -----------------------------
(* What holds of expenses: of a line of text and what is made of it, for    *)
(* any catalogue, words and numbers (CjkAmounts, CaptureText), and of their *)
(* review, for any requests, patches and amounts (ExpenseReview).           *)
EXTENDS ExpenseReview, CaptureText, FiniteSetTheorems, SequenceTheorems, WellFoundedInduction, TLAPS

-----------------------------------------------------------------------------
(* A scan of a text, character by character.  Induction over the length is   *)
(* by a least counterexample.                                                *)

\* A set of natural numbers that is not empty has a least one.
LEMMA LeastNumber ==
    ASSUME NEW Q \in SUBSET Nat, Q # {}
    PROVE  \E m \in Q : \A k \in Q : m <= k
<1> DEFINE R == OpToRel(<, Nat)
<1>1. \E m \in Q : \A k \in Q : <<k, m>> \notin R
  <2>1. IsWellFoundedOn(R, Nat)
    BY NatLessThanWellFounded
  <2> HIDE DEF R
  <2> QED BY <2>1, WFMin, Zenon
<1>2. PICK m \in Q : \A k \in Q : <<k, m>> \notin R
  BY <1>1
<1>3. ASSUME NEW k \in Q PROVE m <= k
  <2>1. k \in Nat /\ m \in Nat /\ <<k, m>> \notin R
    BY <1>2
  <2>2. k < m => <<k, m>> \in R
    BY <2>1 DEF OpToRel
  <2> HIDE DEF R
  <2> QED BY <2>1, <2>2
<1> QED BY <1>3

\* What FoldLeft makes of every part of the positions.
Parts(n) == SUBSET (1 .. n)
Folded(text, n, h) ==
    h = [s \in SUBSET (1 .. n) |->
            IF s = {} THEN Scanned ELSE Scan(h[s \ {Max(s)}], text[Max(s)])]
Fold(text, n) == CHOOSE h : Folded(text, n, h)

\* The state after the first k characters.
After(text, k) == Fold(text, k)[1 .. k]

\* The library's fold of a text is the state after its last character.
LEMMA FoldIsAfter ==
    ASSUME NEW S, NEW text \in Seq(S)
    PROVE  FoldLeft(Scan, Scanned, text) = After(text, Len(text))
<1>1. DOMAIN text = 1 .. Len(text)
  OBVIOUS
<1> QED BY <1>1, Zenon DEF FoldLeft, MapThenFoldSet, After, Fold, Folded

\* What a fold of a text is at a set of its positions.
LEMMA FoldedStep ==
    ASSUME NEW text, NEW n, NEW h, Folded(text, n, h), NEW s \in Parts(n)
    PROVE  h[s] = IF s = {} THEN Scanned ELSE Scan(h[s \ {Max(s)}], text[Max(s)])
BY DEF Folded, Parts

\* The same, at a set whose greatest position is known.
LEMMA FoldedAt ==
    ASSUME NEW text, NEW n, NEW h, Folded(text, n, h), NEW s \in Parts(n), s # {},
           NEW j, Max(s) = j
    PROVE  h[s] = Scan(h[s \ {j}], text[j])
BY FoldedStep, SMT

\* The greatest of the positions up to n + 1, when n + 1 is one of them.
LEMMA MaxIs ==
    ASSUME NEW n \in Nat, NEW s \in SUBSET (1 .. n + 1), n + 1 \in s
    PROVE  Max(s) = n + 1
<1>1. \A y \in s : n + 1 >= y
  OBVIOUS
<1>2. \A x \in s : (\A y \in s : x >= y) => x = n + 1
  OBVIOUS
<1> QED BY <1>1, <1>2 DEF Max

\* Two folds over texts that begin alike.
LEMMA FoldsAgree ==
    ASSUME NEW t, NEW u, NEW m \in Nat, NEW n \in Nat, NEW g, NEW h,
           Folded(t, m, g), Folded(u, n, h),
           NEW k \in Nat, k <= m, k <= n, \A i \in 1 .. k : t[i] = u[i]
    PROVE  \A s \in SUBSET (1 .. k) : g[s] = h[s]
<1> DEFINE Q == {j \in 0 .. k : \E s \in SUBSET (1 .. j) : g[s] # h[s]}
<1>1. SUFFICES ASSUME Q # {} PROVE FALSE
  OBVIOUS
<1>2. PICK j \in Q : \A i \in Q : j <= i
  <2>1. Q \in SUBSET Nat
    OBVIOUS
  <2> HIDE DEF Q
  <2> QED BY <1>1, <2>1, LeastNumber
<1>3. PICK s \in SUBSET (1 .. j) : g[s] # h[s]
  BY <1>2
<1>4. s # {}
  <2>1. {} \in Parts(m) /\ {} \in Parts(n)
    BY DEF Parts
  <2>2. g[{}] = h[{}]
    BY <2>1, FoldedStep
  <2> QED BY <1>3, <2>2
<1>5. j \in 1 .. k /\ j - 1 \in Nat
  <2>1. j \in 0 .. k
    BY <1>2
  <2>2. PICK x : x \in s
    BY <1>4
  <2>3. x \in 1 .. j
    BY <1>3, <2>2
  <2> HIDE DEF Q
  <2> QED BY <2>1, <2>3
<1>6. \A v \in SUBSET (1 .. j - 1) : g[v] = h[v]
  BY <1>2, <1>5
<1>7. j \in s
  BY <1>3, <1>5, <1>6
<1>8. Max(s) = j
  <2>1. s \in SUBSET (1 .. (j - 1) + 1) /\ (j - 1) + 1 = j
    BY <1>3, <1>5
  <2> QED BY <1>5, <1>7, <2>1, MaxIs
<1>9. g[s] = Scan(g[s \ {j}], t[j]) /\ h[s] = Scan(h[s \ {j}], u[j])
  <2>1. s \in Parts(m) /\ s \in Parts(n)
    BY <1>3, <1>5 DEF Parts
  <2>2. g[s] = Scan(g[s \ {j}], t[j])
    BY <1>4, <1>8, <2>1, FoldedAt
  <2>3. h[s] = Scan(h[s \ {j}], u[j])
    BY <1>4, <1>8, <2>1, FoldedAt
  <2> QED BY <2>2, <2>3
<1>10. s \ {j} \in SUBSET (1 .. j - 1)
  BY <1>3, <1>5
<1>11. g[s \ {j}] = h[s \ {j}] /\ t[j] = u[j]
  BY <1>5, <1>6, <1>10
<1> QED BY <1>3, <1>9, <1>11

\* A set of positions that is not empty has its greatest in it.
LEMMA MaxIn ==
    ASSUME NEW n \in Nat, NEW s \in SUBSET (1 .. n), s # {}
    PROVE  Max(s) \in s
<1> DEFINE Q == {n - x : x \in s}
<1>1. PICK m \in Q : \A k \in Q : m <= k
  <2>1. \A x \in s : n - x \in Nat
    OBVIOUS
  <2>2. Q \in SUBSET Nat /\ Q # {}
    BY <2>1
  <2> HIDE DEF Q
  <2> QED BY <2>2, LeastNumber
<1>2. PICK x \in s : \A y \in s : n - x <= n - y
  BY <1>1
<1>3. \A y \in s : x >= y
  BY <1>2
<1> QED BY <1>3 DEF Max

\* There is a fold.
LEMMA FoldExists ==
    ASSUME NEW text, NEW n \in Nat
    PROVE  Folded(text, n, Fold(text, n))
<1> DEFINE Q == {j \in Nat : ~ \E h : Folded(text, j, h)}
<1>1. SUFFICES ASSUME Q # {} PROVE FALSE
  BY DEF Fold
<1>2. PICK j \in Q : \A i \in Q : j <= i
  <2>1. Q \in SUBSET Nat
    OBVIOUS
  <2> HIDE DEF Q
  <2> QED BY <1>1, <2>1, LeastNumber
<1>3. j # 0
  <2> DEFINE h == [s \in SUBSET (1 .. 0) |-> Scanned]
  <2>1. h = [s \in SUBSET (1 .. 0) |->
                IF s = {} THEN Scanned ELSE Scan(h[s \ {Max(s)}], text[Max(s)])]
    OBVIOUS
  <2>2. Folded(text, 0, h)
    BY <2>1 DEF Folded
  <2> QED BY <1>2, <2>2
<1> DEFINE i == j - 1
<1>4. i \in Nat /\ i + 1 = j
  BY <1>2, <1>3
<1>5. PICK g : Folded(text, i, g)
  BY <1>2, <1>4
<1> HIDE DEF i
<1> DEFINE h == [s \in SUBSET (1 .. j) |->
                    IF j \in s THEN Scan(g[s \ {j}], text[j]) ELSE g[s]]
<1>6. ASSUME NEW s \in SUBSET (1 .. j)
      PROVE  h[s] = IF s = {} THEN Scanned ELSE Scan(h[s \ {Max(s)}], text[Max(s)])
  <2>1. CASE s = {}
    <3>1. h[s] = g[s]
      BY <2>1
    <3>2. s \in Parts(i)
      BY <2>1 DEF Parts
    <3> QED BY <1>5, <2>1, <3>1, <3>2, FoldedStep
  <2>2. CASE s # {} /\ j \in s
    <3>1. Max(s) = j
      BY <1>4, <2>2, MaxIs
    <3>2. s \ {j} \in SUBSET (1 .. j)
      OBVIOUS
    <3>3. h[s \ {j}] = g[s \ {j}]
      BY <3>2
    <3> QED BY <2>2, <3>1, <3>3
  <2>3. CASE s # {} /\ j \notin s
    <3>1. s \in SUBSET (1 .. i)
      BY <1>4, <2>3
    <3>2. Max(s) \in s
      BY <1>4, <2>3, <3>1, MaxIn
    <3> DEFINE m == Max(s)
    <3>3. s \ {m} \in SUBSET (1 .. j) /\ j \notin s \ {m}
      BY <2>3
    <3>4. h[s \ {m}] = g[s \ {m}] /\ h[s] = g[s]
      <4> HIDE DEF m
      <4> QED BY <2>3, <3>3
    <3>5. s \in Parts(i)
      BY <3>1 DEF Parts
    <3> QED BY <1>5, <2>3, <3>4, <3>5, FoldedStep
  <2> QED BY <2>1, <2>2, <2>3
<1>7. h = [s \in SUBSET (1 .. j) |->
              IF s = {} THEN Scanned ELSE Scan(h[s \ {Max(s)}], text[Max(s)])]
  <2>1. h = [s \in SUBSET (1 .. j) |-> h[s]]
    OBVIOUS
  <2> HIDE DEF h
  <2> QED BY <1>6, <2>1
<1>8. Folded(text, j, h)
  <2> HIDE DEF h
  <2> QED BY <1>7 DEF Folded
<1> QED BY <1>2, <1>8

\* The shorter of two folds of a text is a part of the longer.
LEMMA FoldsMeet ==
    ASSUME NEW t, NEW m \in Nat, NEW k \in Nat, k <= m, NEW g, NEW h, Folded(t, m, g), Folded(t, k, h)
    PROVE  g[1 .. k] = h[1 .. k]
<1>1. k <= k /\ \A i \in 1 .. k : t[i] = t[i]
  OBVIOUS
<1>2. \A s \in SUBSET (1 .. k) : g[s] = h[s]
  BY <1>1, FoldsAgree, SMTT(40)
<1>3. 1 .. k \in SUBSET (1 .. k)
  OBVIOUS
<1> QED BY <1>2, <1>3, Zenon

\* The state before the first character, and after one more.
LEMMA AfterNone == ASSUME NEW text PROVE After(text, 0) = Scanned
<1>1. 1 .. 0 = {} /\ {} \in Parts(0)
  BY DEF Parts
<1> QED BY <1>1, FoldExists, FoldedStep DEF After

\* One more character is one more step of the scan.
LEMMA AfterOneMore ==
    ASSUME NEW text, NEW k \in Nat
    PROVE  After(text, k + 1) = Scan(After(text, k), text[k + 1])
<1> DEFINE s == 1 .. k + 1
           f == Fold(text, k + 1)
           g == Fold(text, k)
<1>1. s \in Parts(k + 1) /\ k + 1 \in s /\ s # {} /\ s \ {k + 1} = 1 .. k
  BY DEF Parts
<1>2. Max(s) = k + 1
  <2> HIDE DEF s
  <2> QED BY <1>1, MaxIs DEF Parts
<1>3. Folded(text, k + 1, f) /\ Folded(text, k, g)
  BY FoldExists
<1>4. f[s] = Scan(f[s \ {k + 1}], text[k + 1])
  <2>1. Folded(text, k + 1, f)
    BY <1>3
  <2> HIDE DEF s, f, g
  <2> QED BY <1>1, <1>2, <2>1, FoldedStep
<1>5. f[1 .. k] = g[1 .. k]
  <2> HIDE DEF f, g, s
  <2>1. ASSUME NEW m \in Nat, k <= m, NEW u, NEW v, Folded(text, m, u), Folded(text, k, v)
        PROVE  u[1 .. k] = v[1 .. k]
    BY <2>1, FoldsMeet, SMT
  <2>2. k + 1 \in Nat /\ k <= k + 1
    OBVIOUS
  <2> QED BY <1>3, <2>1, <2>2, SMT
<1> QED BY <1>1, <1>4, <1>5 DEF After

\* The state after k characters depends on those alone.
LEMMA AfterPrefix ==
    ASSUME NEW t, NEW u, NEW k \in Nat, \A i \in 1 .. k : t[i] = u[i]
    PROVE  After(t, k) = After(u, k)
<1>1. Folded(t, k, Fold(t, k)) /\ Folded(u, k, Fold(u, k))
  BY FoldExists
<1>2. \A s \in SUBSET (1 .. k) : Fold(t, k)[s] = Fold(u, k)[s]
  <2>1. k <= k
    OBVIOUS
  <2> QED BY <1>1, <2>1, FoldsAgree
<1> QED BY <1>2 DEF After

\* The characters below 10 000.
Low == _CJK_DIGITS \cup _CJK_SUB_WAN_PLACES
Texts == Seq(Low)
Reads(text) == FoldLeft(Scan, Scanned, text)

\* An empty text leaves the scan where it begins.
LEMMA ReadsNone == Reads(<<>>) = Scanned
<1>1. <<>> \in Seq(Low) /\ Len(<<>>) = 0
  OBVIOUS
<1>2. Reads(<<>>) = After(<<>>, 0)
  BY <1>1, FoldIsAfter DEF Reads
<1> QED BY <1>2, AfterNone

\* A character at the end of a text is scanned last.
LEMMA ReadsOneMore ==
    ASSUME NEW S, NEW t \in Seq(S), NEW x \in S
    PROVE  Reads(t \o <<x>>) = Scan(Reads(t), x)
<1> DEFINE u == t \o <<x>>
           k == Len(t)
<1>1. <<x>> \in Seq(S) /\ Len(<<x>>) = 1 /\ <<x>>[1] = x
  OBVIOUS
<1>2. k \in Nat /\ u \in Seq(S) /\ Len(u) = k + 1 /\ u[k + 1] = x /\ \A i \in 1 .. k : t[i] = u[i]
  <2>1. \A i \in 1 .. k + 1 : u[i] = IF i <= k THEN t[i] ELSE <<x>>[i - k]
    BY <1>1, ConcatProperties
  <2>2. k \in Nat /\ u \in Seq(S) /\ Len(u) = k + 1
    BY <1>1, ConcatProperties, LenProperties
  <2>3. (k + 1) - k = 1 /\ k + 1 \in 1 .. k + 1 /\ ~ (k + 1 <= k)
    BY <2>2
  <2> HIDE DEF u, k
  <2> QED BY <1>1, <2>1, <2>2, <2>3
<1>3. Reads(u) = After(u, k + 1) /\ Reads(t) = After(t, k)
  BY <1>2, FoldIsAfter DEF Reads
<1>4. After(u, k + 1) = Scan(After(u, k), x)
  <2> HIDE DEF u, k
  <2> QED BY <1>2, AfterOneMore
<1>5. After(t, k) = After(u, k)
  <2> HIDE DEF u, k
  <2> QED BY <1>2, AfterPrefix
<1> QED BY <1>3, <1>4, <1>5

\* The same for two characters.
LEMMA ReadsTwoMore ==
    ASSUME NEW S, NEW t \in Seq(S), NEW x \in S, NEW y \in S
    PROVE  Reads(t \o <<x, y>>) = Scan(Scan(Reads(t), x), y)
<1>1. <<x>> \in Seq(S) /\ <<y>> \in Seq(S) /\ <<x, y>> = <<x>> \o <<y>>
  <2>1. <<x>> \in Seq(S) /\ <<y>> \in Seq(S) /\ <<x, y>> = Append(<<x>>, y)
    OBVIOUS
  <2> QED BY <2>1, AppendIsConcat
<1>2. t \o <<x, y>> = (t \o <<x>>) \o <<y>>
  BY <1>1, ConcatAssociative
<1>3. t \o <<x>> \in Seq(S)
  BY <1>1, ConcatProperties
<1> QED BY <1>2, <1>3, ReadsOneMore

Bit == {0, 1}
Places == {1} \cup _CJK_SUB_WAN_PLACES

\* A scan that has met nothing wrong; zero is 1 if it met a zero since the last place.
State(sum, digit, place, zero) ==
    [ok |-> TRUE, sum |-> sum, digit |-> digit, place |-> place, skip |-> zero = 1]

\* The scan begins with nothing accumulated, pending or skipped.
LEMMA ScannedIs == Scanned = State(0, 0, 0, 0)
<1>1. (0 = 1) = FALSE
  OBVIOUS
<1> QED BY <1>1, Zenon DEF Scanned, State

\* A zero drops the pending digit and is remembered.
LEMMA ScanZero ==
    ASSUME NEW s \in Int, NEW d \in Int, NEW q \in Int, NEW k \in Bit
    PROVE  Scan(State(s, d, q, k), 0) = State(s, 0, q, 1)
BY DEF Scan, State

\* A digit waits for its place.
LEMMA ScanDigit ==
    ASSUME NEW s \in Int, NEW q \in Int, NEW k \in Bit, NEW d \in _CJK_DIGITS \ {0}
    PROVE  Scan(State(s, 0, q, k), d) = State(s, d, q, k)
<1> DEFINE x == State(s, 0, q, k)
<1>1. d # 0 /\ d \in _CJK_DIGITS
  BY DEF _CJK_DIGITS
<1>2. Scan(x, d) = [x EXCEPT !.ok = x.ok /\ x.digit = 0, !.digit = d]
  BY <1>1 DEF Scan
<1>3. x.ok = TRUE /\ x.digit = 0
  BY DEF State
<1>4. Scan(x, d) = [x EXCEPT !.ok = TRUE, !.digit = d]
  <2> HIDE DEF x
  <2> QED BY <1>2, <1>3
<1> QED BY <1>4 DEF State

\* A place below the last one takes its digit, or one.
LEMMA ScanPlace ==
    ASSUME NEW s \in Int, NEW d \in _CJK_DIGITS, NEW q \in Int, NEW k \in Bit, NEW p \in _CJK_SUB_WAN_PLACES,
           q = 0 \/ p < q
    PROVE  Scan(State(s, d, q, k), p) = State(s + p * (IF d = 0 THEN 1 ELSE d), 0, p, 0)
<1> DEFINE x == State(s, d, q, k)
<1>1. p # 0 /\ p \notin _CJK_DIGITS /\ p \in _CJK_SUB_WAN_PLACES
  BY DEF _CJK_DIGITS, _CJK_SUB_WAN_PLACES
<1>2. x.ok = TRUE /\ x.sum = s /\ x.digit = d /\ x.place = q
  BY DEF State
<1>3. Scan(x, p) = [ok |-> x.ok /\ p \in _CJK_SUB_WAN_PLACES /\ (x.place = 0 \/ p < x.place),
                    sum |-> x.sum + p * (IF x.digit = 0 THEN 1 ELSE x.digit),
                    digit |-> 0, place |-> p, skip |-> FALSE]
  <2> HIDE DEF x
  <2> QED BY <1>1, Zenon DEF Scan
<1>4. (x.ok /\ p \in _CJK_SUB_WAN_PLACES /\ (x.place = 0 \/ p < x.place)) = TRUE
  <2> HIDE DEF x
  <2> QED BY <1>1, <1>2
<1> HIDE DEF x
<1>5. Scan(x, p) = [ok |-> TRUE, sum |-> s + p * (IF d = 0 THEN 1 ELSE d),
                    digit |-> 0, place |-> p, skip |-> FALSE]
  BY <1>2, <1>3, <1>4, Zenon
<1>6. (0 = 1) = FALSE
  OBVIOUS
<1> QED BY <1>5, <1>6, Zenon DEF x, State

\* A digit and its place add their product.
LEMMA ScanDigitPlace ==
    ASSUME NEW s \in Int, NEW d \in _CJK_DIGITS \ {0}, NEW q \in Int, NEW k \in Bit, NEW p \in _CJK_SUB_WAN_PLACES,
           q = 0 \/ p < q
    PROVE  Scan(Scan(State(s, 0, q, k), d), p) = State(s + p * d, 0, p, 0)
<1>1. d \in _CJK_DIGITS /\ d # 0
  OBVIOUS
<1>2. Scan(State(s, 0, q, k), d) = State(s, d, q, k)
  BY ScanDigit
<1>3. Scan(State(s, d, q, k), p) = State(s + p * (IF d = 0 THEN 1 ELSE d), 0, p, 0)
  BY <1>1, ScanPlace
<1> QED BY <1>1, <1>2, <1>3

\* What a trailing digit is worth.
Worth(q, k) == IF q = 0 \/ k = 1 THEN 1 ELSE q \div 10

\* What the scan returns: the sum, and the trailing digit at its worth.
LEMMA TotalIs ==
    ASSUME NEW s \in Int, NEW d \in Int, NEW q \in Int, NEW k \in Bit
    PROVE  Total(State(s, d, q, k)) = s + d * Worth(q, k)
BY DEF Total, TrailingDigit, State, Worth

\* The texts below 10 000: the empty one, characters, and concatenations.
LEMMA TextProperties ==
    /\ <<>> \in Texts
    /\ \A x \in Low : <<x>> \in Texts
    /\ \A x, y \in Low : <<x, y>> \in Texts
    /\ \A t, u \in Texts : t \o u \in Texts
    /\ \A t \in Texts : t \o <<>> = t
<1>1. \A x \in Low : <<x>> \in Texts
  BY DEF Texts
<1>2. \A x, y \in Low : <<x, y>> \in Texts
  BY DEF Texts
<1>3. \A t, u \in Texts : t \o u \in Texts
  BY ConcatProperties DEF Texts
<1>4. \A t \in Texts : t \o <<>> = t
  BY ConcatEmptySeq DEF Texts
<1> QED BY <1>1, <1>2, <1>3, <1>4 DEF Texts

\* ReadsOneMore for these texts.
LEMMA ReadsOne ==
    ASSUME NEW t \in Texts, NEW x \in Low
    PROVE  Reads(t \o <<x>>) = Scan(Reads(t), x)
BY ReadsOneMore DEF Texts

\* ReadsTwoMore for these texts.
LEMMA ReadsTwo ==
    ASSUME NEW t \in Texts, NEW x \in Low, NEW y \in Low
    PROVE  Reads(t \o <<x, y>>) = Scan(Scan(Reads(t), x), y)
BY ReadsTwoMore DEF Texts

-----------------------------------------------------------------------------
(* A number below 10 000, place by place. *)

\* The digit at a place is a digit.
LEMMA DigitIs == ASSUME NEW n \in Nat, NEW p \in Places
                 PROVE  DigitAt(n, p) \in _CJK_DIGITS
<1>1. p \in {1, 10, 100, 1000}
  BY DEF Places, _CJK_SUB_WAN_PLACES
<1>2. n \div p \in Nat
  BY <1>1
<1>3. (n \div p) % 10 \in 0 .. 9
  BY <1>2
<1> QED BY <1>3 DEF DigitAt, _CJK_DIGITS

\* How the sets of characters and places lie in one another.
LEMMA CharSets ==
    /\ 0 \in _CJK_DIGITS /\ _CJK_DIGITS \subseteq Low /\ _CJK_SUB_WAN_PLACES \subseteq Low
    /\ _CJK_SUB_WAN_PLACES \subseteq Places /\ 1 \in Places /\ _CJK_DIGITS \subseteq Int
    /\ \A p \in _CJK_SUB_WAN_PLACES : p \in Int /\ p > 1
    /\ \A p \in Places : p = 1 \/ p \in _CJK_SUB_WAN_PLACES
BY DEF Low, Places, _CJK_DIGITS, _CJK_SUB_WAN_PLACES

\* What is written for a place is such a text.
LEMMA WrittenIsLow ==
    ASSUME NEW n \in Nat, NEW p \in Places
    PROVE  Written(n, p) \in Texts
<1>1. \A x, y \in Low : <<x>> \in Texts /\ <<x, y>> \in Texts
  BY TextProperties
<1>2. DigitAt(n, p) \in Low /\ 0 \in Low /\ (p # 1 => p \in Low)
  BY DigitIs, CharSets
<1>3. CASE DigitAt(n, p) # 0 /\ p = 1
  BY <1>1, <1>2, <1>3 DEF Written
<1>4. CASE DigitAt(n, p) # 0 /\ p # 1
  BY <1>1, <1>2, <1>4 DEF Written
<1>5. CASE DigitAt(n, p) = 0
  <2>1. Written(n, p) \in {<<0>>, <<>>}
    BY <1>5 DEF Written
  <2>2. <<0>> \in Texts /\ <<>> \in Texts
    BY <1>1, <1>2, TextProperties
  <2> QED BY <2>1, <2>2
<1> QED BY <1>3, <1>4, <1>5

\* Whether a zero stands for the place.
Skips(n, p) == n > 10 * p /\ DigitAt(n, p \div 10) # 0

\* A place more is read.
LEMMA PlaceIsRead ==
    ASSUME NEW n \in Nat, NEW p \in _CJK_SUB_WAN_PLACES, NEW t \in Texts,
           NEW s \in Int, NEW q \in Int, NEW k \in Bit,
           Reads(t) = State(s, 0, q, k), q = 0 \/ p < q
    PROVE  Reads(t \o Written(n, p)) =
              State(s + p * DigitAt(n, p), 0, IF DigitAt(n, p) # 0 THEN p ELSE q,
                    IF DigitAt(n, p) # 0 THEN 0 ELSE IF Skips(n, p) THEN 1 ELSE k)
<1>1. PICK d \in _CJK_DIGITS : DigitAt(n, p) = d
  BY DigitIs, CharSets
<1>2. p > 1 /\ p \in Low /\ d \in Low /\ 0 \in Low /\ p \in Int
  BY CharSets
<1>3. CASE d # 0
  <2>1. Written(n, p) = <<d, p>>
    BY <1>1, <1>2, <1>3 DEF Written
  <2>2. Reads(t \o <<d, p>>) = Scan(Scan(State(s, 0, q, k), d), p)
    BY <1>2, ReadsTwo
  <2>3. d \in _CJK_DIGITS \ {0}
    BY <1>3
  <2>4. Scan(Scan(State(s, 0, q, k), d), p) = State(s + p * d, 0, p, 0)
    BY <2>3, ScanDigitPlace
  <2> QED BY <1>1, <1>3, <2>1, <2>2, <2>4
<1>4. s + p * 0 = s
  BY <1>2
<1>5. CASE d = 0 /\ Skips(n, p)
  <2>1. Written(n, p) = <<0>>
    BY <1>1, <1>2, <1>5 DEF Written, Skips
  <2>2. Reads(t \o <<0>>) = Scan(State(s, 0, q, k), 0)
    BY <1>2, ReadsOne
  <2>3. Scan(State(s, 0, q, k), 0) = State(s, 0, q, 1)
    BY ScanZero
  <2> QED BY <1>1, <1>4, <1>5, <2>1, <2>2, <2>3, Zenon
<1>6. CASE d = 0 /\ ~ Skips(n, p)
  <2>1. Written(n, p) = <<>>
    BY <1>1, <1>2, <1>6 DEF Written, Skips
  <2>2. t \o <<>> = t
    BY TextProperties
  <2> QED BY <1>1, <1>4, <1>6, <2>1, <2>2, Zenon
<1> QED BY <1>3, <1>5, <1>6

\* The digit d and the characters w of a place, and the scan's place and zero after it.
Placed(n, p, d, w, q, qq, k, kk) ==
    /\ d = DigitAt(n, p)
    /\ w = Written(n, p)
    /\ qq = IF d # 0 THEN p ELSE q
    /\ kk = IF d # 0 THEN 0 ELSE IF Skips(n, p) THEN 1 ELSE k

\* What is written for a place adds the digit times the place.
LEMMA PlacedIsRead ==
    ASSUME NEW n \in Nat, NEW p \in _CJK_SUB_WAN_PLACES, NEW t \in Texts,
           NEW s \in Int, NEW q \in Int, NEW k \in Bit,
           Reads(t) = State(s, 0, q, k), q = 0 \/ p < q,
           NEW d, NEW w, NEW qq, NEW kk, Placed(n, p, d, w, q, qq, k, kk)
    PROVE  Reads(t \o w) = State(s + p * d, 0, qq, kk)
BY PlaceIsRead DEF Placed

\* What is written for the ones leaves them pending.
LEMMA OnesAreRead ==
    ASSUME NEW n \in Nat, NEW t \in Texts, NEW s \in Int, NEW q \in Int, NEW k \in Bit,
           Reads(t) = State(s, 0, q, k)
    PROVE  Reads(t \o Written(n, 1)) = State(s, DigitAt(n, 1), q, k)
<1>1. PICK d \in _CJK_DIGITS : DigitAt(n, 1) = d
  BY DigitIs, CharSets
<1>2. CASE d # 0
  <2>1. Written(n, 1) = <<d>>
    BY <1>1, <1>2 DEF Written
  <2>2. d \in Low /\ d \in _CJK_DIGITS \ {0}
    BY <1>2, CharSets
  <2>3. Reads(t \o <<d>>) = Scan(State(s, 0, q, k), d)
    BY <2>2, ReadsOne
  <2>4. Scan(State(s, 0, q, k), d) = State(s, d, q, k)
    BY <2>2, ScanDigit
  <2> QED BY <1>1, <2>1, <2>3, <2>4
<1>3. CASE d = 0
  <2>1. Written(n, 1) = <<>>
    BY <1>1, <1>3 DEF Written
  <2>2. t \o <<>> = t
    BY TextProperties
  <2> QED BY <1>1, <1>3, <2>1, <2>2, Zenon
<1> QED BY <1>2, <1>3

Small == {n \in Nat : n <= 9999}
\* The digits of a number, and what is written for them.
LEMMA Digits ==
    ASSUME NEW n \in Small
    PROVE  n = 1000 * DigitAt(n, 1000) + 100 * DigitAt(n, 100) + 10 * DigitAt(n, 10)
                + DigitAt(n, 1)
<1> DEFINE x == n \div 10
           y == x \div 10
           z == y \div 10
<1> USE DEF Small
<1>1. x \in Nat /\ 10 * x <= n /\ n <= 10 * x + 9 /\ n % 10 = n - 10 * x
  BY SMT
<1>2. y \in Nat /\ 10 * y <= x /\ x <= 10 * y + 9 /\ x % 10 = x - 10 * y
  <2>1. x \in Nat
    BY <1>1
  <2> HIDE DEF x
  <2> QED BY <2>1, SMT
<1>3. z \in Nat /\ 10 * z <= y /\ y <= 10 * z + 9 /\ y % 10 = y - 10 * z
  <2>1. y \in Nat
    BY <1>2
  <2> HIDE DEF y
  <2> QED BY <2>1, SMT
<1> HIDE DEF x, y, z
<1>4. n \div 100 = y
  BY <1>1, <1>2, SMT
<1>5. n \div 1000 = z
  BY <1>1, <1>2, <1>3, SMT
<1>6. z \in 0 .. 9
  <2>1. 1000 * z <= n /\ n <= 9999 /\ z \in Nat
    BY <1>1, <1>2, <1>3, SMT
  <2> QED BY <2>1, SMT
<1>7. z % 10 = z /\ n \div 1 = n
  BY <1>6, SMT
<1> QED BY <1>1, <1>2, <1>3, <1>4, <1>5, <1>7, SMT DEF DigitAt, x

\* The ones are written as their digit, or not at all.
LEMMA WrittenOnes ==
    ASSUME NEW n \in Nat, NEW d \in _CJK_DIGITS, DigitAt(n, 1) = d
    PROVE  Written(n, 1) = IF d # 0 THEN <<d>> ELSE <<>>
BY DEF Written

\* The four places of a number, with a zero between them where one is skipped.
Body(n) == Written(n, 1000) \o Written(n, 100) \o Written(n, 10) \o Written(n, 1)

\* The four places together are such a text.
LEMMA BodyIsLow == ASSUME NEW n \in Nat PROVE Body(n) \in Texts
<1>1. \A p \in Places : Written(n, p) \in Texts
  BY WrittenIsLow
<1>2. 1 \in Places /\ 10 \in Places /\ 100 \in Places /\ 1000 \in Places
  BY DEF Places, _CJK_SUB_WAN_PLACES
<1> QED BY <1>1, <1>2, TextProperties DEF Body

Regrouped(t, u, v) == (t \o u) \o v = t \o (u \o v)

\* Concatenation is associative.
LEMMA RegroupThree ==
    ASSUME NEW S, NEW t \in Seq(S), NEW u \in Seq(S), NEW v \in Seq(S)
    PROVE  Regrouped(t, u, v)
BY ConcatAssociative DEF Regrouped

RegroupedAll(t, w, x, y, z) == (((t \o w) \o x) \o y) \o z = t \o (((w \o x) \o y) \o z)

\* The same for five texts.
LEMMA Regroup ==
    ASSUME NEW t \in Texts, NEW w \in Texts, NEW x \in Texts, NEW y \in Texts, NEW z \in Texts
    PROVE  RegroupedAll(t, w, x, y, z)
<1>1. w \o x \in Texts /\ (w \o x) \o y \in Texts
  BY TextProperties
<1>2. \A u, v \in Texts : Regrouped(t, u, v)
  BY RegroupThree DEF Texts
<1>3. Regrouped(t, w, x) /\ Regrouped(t, w \o x, y) /\ Regrouped(t, (w \o x) \o y, z)
  BY <1>1, <1>2
<1> QED BY <1>3, Zenon DEF Regrouped, RegroupedAll

\* A number below 10 000 is the sum of its four digits at their places.
LEMMA ItsDigits ==
    ASSUME NEW n \in Small
    PROVE  \E a, b, c, d \in _CJK_DIGITS :
              /\ DigitAt(n, 1000) = a /\ DigitAt(n, 100) = b /\ DigitAt(n, 10) = c
              /\ DigitAt(n, 1) = d /\ n = 1000 * a + 100 * b + 10 * c + d
<1>1. n \in Nat /\ 1 \in Places /\ 10 \in Places /\ 100 \in Places /\ 1000 \in Places
  BY DEF Places, _CJK_SUB_WAN_PLACES, Small
<1>2. DigitAt(n, 1000) \in _CJK_DIGITS /\ DigitAt(n, 100) \in _CJK_DIGITS
      /\ DigitAt(n, 10) \in _CJK_DIGITS /\ DigitAt(n, 1) \in _CJK_DIGITS
  BY <1>1, DigitIs
<1>3. n = 1000 * DigitAt(n, 1000) + 100 * DigitAt(n, 100) + 10 * DigitAt(n, 10) + DigitAt(n, 1)
  BY Digits
<1> QED BY <1>2, <1>3

\* What a text begins with does not count, if it is nothing or a zero.
LEMMA BodyIsRead ==
    ASSUME NEW n \in Small, NEW t \in Texts, NEW k \in Bit, Reads(t) = State(0, 0, 0, k)
    PROVE  Total(Reads(t \o Body(n))) = n
<1>1. PICK a, b, c, d \in _CJK_DIGITS :
         /\ DigitAt(n, 1000) = a /\ DigitAt(n, 100) = b /\ DigitAt(n, 10) = c
         /\ DigitAt(n, 1) = d /\ n = 1000 * a + 100 * b + 10 * c + d
  BY ItsDigits
<1>2. n \in Nat /\ n <= 9999 /\ n = 1000 * a + 100 * b + 10 * c + d
  BY <1>1 DEF Small
<1>3. 10 \in _CJK_SUB_WAN_PLACES /\ 100 \in _CJK_SUB_WAN_PLACES /\ 1000 \in _CJK_SUB_WAN_PLACES
      /\ 10 \div 10 = 1 /\ 100 \div 10 = 10 /\ 0 \in Int /\ _CJK_DIGITS \subseteq Int
  BY DEF _CJK_SUB_WAN_PLACES, _CJK_DIGITS
<1>4. PICK w, x, y, z \in Texts :
         w = Written(n, 1000) /\ x = Written(n, 100) /\ y = Written(n, 10) /\ z = Written(n, 1)
  BY <1>2, WrittenIsLow DEF Places, _CJK_SUB_WAN_PLACES
<1>5. PICK qa, qb, qc \in Int :
         /\ qa = IF a # 0 THEN 1000 ELSE 0
         /\ qb = IF b # 0 THEN 100 ELSE qa
         /\ qc = IF c # 0 THEN 10 ELSE qb
  BY <1>3
<1>6. PICK ka, kb, kc \in Bit :
         /\ ka = IF a # 0 THEN 0 ELSE k
         /\ kb = IF b # 0 THEN 0 ELSE IF Skips(n, 100) THEN 1 ELSE ka
         /\ kc = IF c # 0 THEN 0 ELSE IF Skips(n, 10) THEN 1 ELSE kb
  BY DEF Bit
<1>7. PICK sa, sb, sc \in Int : sa = 1000 * a /\ sb = sa + 100 * b /\ sc = sb + 10 * c
  BY <1>3
<1>8. /\ Placed(n, 1000, a, w, 0, qa, k, ka)
      /\ Placed(n, 100, b, x, qa, qb, ka, kb)
      /\ Placed(n, 10, c, y, qb, qc, kb, kc)
  <2>1. ~ Skips(n, 1000)
    BY <1>2 DEF Skips
  <2> QED BY <1>1, <1>4, <1>5, <1>6, <2>1 DEF Placed
<1> DEFINE u == t \o w
           v == u \o x
<1>9. u \in Texts /\ v \in Texts /\ v \o y \in Texts
  BY TextProperties
<1>10. Reads(u) = State(sa, 0, qa, ka) /\ (qa = 0 \/ 100 < qa)
  <2>1. Reads(u) = State(0 + 1000 * a, 0, qa, ka)
    BY <1>2, <1>3, <1>8, PlacedIsRead
  <2>2. 0 + 1000 * a = sa
    BY <1>3, <1>7
  <2> HIDE DEF u
  <2> QED BY <1>5, <2>1, <2>2
<1>11. Reads(v) = State(sb, 0, qb, kb) /\ (qb = 0 \/ 10 < qb)
  <2> HIDE DEF u
  <2>1. Reads(v) = State(sa + 100 * b, 0, qb, kb)
    BY <1>2, <1>3, <1>8, <1>9, <1>10, PlacedIsRead
  <2> HIDE DEF v
  <2> QED BY <1>5, <1>7, <2>1
<1>14. Reads(v \o y) = State(sc, 0, qc, kc)
  <2> HIDE DEF v
  <2>1. Reads(v \o y) = State(sb + 10 * c, 0, qc, kc)
    BY <1>2, <1>3, <1>8, <1>9, <1>11, PlacedIsRead
  <2> QED BY <1>7, <2>1
<1>12. Reads((v \o y) \o z) = State(sc, d, qc, kc)
  <2> HIDE DEF v
  <2> QED BY <1>1, <1>2, <1>4, <1>9, <1>14, OnesAreRead
<1>13. (v \o y) \o z = t \o Body(n)
  <2>1. Body(n) = ((w \o x) \o y) \o z
    BY <1>4 DEF Body
  <2>2. RegroupedAll(t, w, x, y, z)
    BY Regroup
  <2> QED BY <2>1, <2>2, Zenon DEF RegroupedAll
<1>16. Total(State(sc, d, qc, kc)) = sc + d * Worth(qc, kc)
  <2>1. d \in Int
    BY <1>3
  <2> QED BY <2>1, TotalIs
<1>17. d = 0 \/ Worth(qc, kc) = 1
  <2>1. CASE c # 0
    BY <1>3, <1>5, <2>1 DEF Worth
  <2>2. CASE d # 0 /\ c = 0 /\ n > 100
    <3>1. Skips(n, 10)
      BY <1>1, <1>3, <2>2 DEF Skips
    <3> QED BY <1>3, <1>6, <2>2, <3>1 DEF Worth
  <2>3. CASE d # 0 /\ c = 0 /\ n <= 100
    <3>1. a = 0 /\ b = 0
      BY <1>2, <2>3 DEF _CJK_DIGITS
    <3> QED BY <1>3, <1>5, <2>3, <3>1 DEF Worth
  <2> QED BY <1>2, <2>1, <2>2, <2>3
<1>18. Total(Reads(t \o Body(n))) = sc + d
  <2>1. d * Worth(qc, kc) = d
    <3>1. Worth(qc, kc) \in Int /\ d \in Int
      BY <1>3 DEF Worth
    <3> QED BY <3>1, <1>17
  <2> QED BY <1>12, <1>13, <1>16, <2>1
<1> QED BY <1>2, <1>7, <1>18

\* What is written for each digit.
LEMMA WrittenAs ==
    ASSUME NEW n \in Nat, NEW p \in _CJK_SUB_WAN_PLACES
    PROVE  /\ DigitAt(n, p) # 0 => Written(n, p) = <<DigitAt(n, p), p>>
           /\ DigitAt(n, p) = 0 /\ Skips(n, p) => Written(n, p) = <<0>>
           /\ DigitAt(n, p) = 0 /\ ~ Skips(n, p) => Written(n, p) = <<>>
<1>1. p # 1 /\ p > 1
  BY CharSets
<1> QED BY <1>1 DEF Written, Skips

Teens == {n \in Nat : 10 <= n /\ n <= 19}

\* Ten to nineteen are written without the one before the ten.
LEMMA TeenIs ==
    ASSUME NEW n \in Teens
    PROVE  \E d \in _CJK_DIGITS :
              /\ n = 10 + d /\ DigitAt(n, 1) = d
              /\ WrittenBelowWan(n) = <<10>> \o (IF d # 0 THEN <<d>> ELSE <<>>)
<1>1. n \in Small /\ n \in Nat /\ 10 <= n /\ n <= 19
  BY DEF Teens, Small
<1>2. PICK a, b, c, d \in _CJK_DIGITS :
         /\ DigitAt(n, 1000) = a /\ DigitAt(n, 100) = b /\ DigitAt(n, 10) = c
         /\ DigitAt(n, 1) = d /\ n = 1000 * a + 100 * b + 10 * c + d
  BY <1>1, ItsDigits
<1>3. n = 10 + d
  BY <1>1, <1>2 DEF _CJK_DIGITS
<1>4. Written(n, 1) = IF d # 0 THEN <<d>> ELSE <<>>
  BY <1>1, <1>2, WrittenOnes
<1>5. WrittenBelowWan(n) = <<10>> \o Written(n, 1)
  <2>1. n \in 10 .. 19
    BY <1>1
  <2> QED BY <2>1, SMT DEF WrittenBelowWan
<1> QED BY <1>2, <1>3, <1>4, <1>5

\* The other numbers are written place by place.
LEMMA BelowIs ==
    ASSUME NEW n \in Small \ Teens
    PROVE  WrittenBelowWan(n) = Body(n)
BY DEF WrittenBelowWan, Body, Teens, Small

\* A number below 10 000 is written below 10 000.
LEMMA BelowIsText == ASSUME NEW n \in Small PROVE WrittenBelowWan(n) \in Texts
<1>1. CASE n \in Teens
  <2>1. PICK d \in _CJK_DIGITS : WrittenBelowWan(n) = <<10>> \o (IF d # 0 THEN <<d>> ELSE <<>>)
    BY <1>1, TeenIs
  <2>2. 10 \in Low /\ d \in Low
    BY DEF Low, _CJK_SUB_WAN_PLACES
  <2>3. <<10>> \in Texts /\ (IF d # 0 THEN <<d>> ELSE <<>>) \in Texts
    BY <2>2, TextProperties
  <2> QED BY <2>1, <2>3, TextProperties
<1>2. CASE n \notin Teens
  <2>1. n \in Nat
    BY DEF Small
  <2> QED BY <1>2, <2>1, BelowIs, BodyIsLow
<1> QED BY <1>1, <1>2

\* A number below 10 000 is read as itself, also after a zero.
LEMMA BelowIsRead ==
    ASSUME NEW n \in Small, NEW t \in Texts, NEW k \in Bit, Reads(t) = State(0, 0, 0, k)
    PROVE  Total(Reads(t \o WrittenBelowWan(n))) = n
<1>1. CASE n \notin Teens
  BY <1>1, BelowIs, BodyIsRead
<1>2. CASE n \in Teens
  <2>1. n \in Nat /\ 10 \in Low /\ 10 \in _CJK_SUB_WAN_PLACES /\ 0 \in _CJK_DIGITS
    BY DEF Low, _CJK_SUB_WAN_PLACES, _CJK_DIGITS, Small
  <2>2. Scan(State(0, 0, 0, k), 10) = State(10, 0, 10, 0)
    <3>1. Scan(State(0, 0, 0, k), 10) = State(0 + 10 * (IF 0 = 0 THEN 1 ELSE 0), 0, 10, 0)
      BY <2>1, ScanPlace
    <3>2. 0 + 10 * (IF 0 = 0 THEN 1 ELSE 0) = 10
      OBVIOUS
    <3> QED BY <3>1, <3>2
  <2>3. PICK u \in Texts : u = t \o <<10>> /\ Reads(u) = State(10, 0, 10, 0)
    <3>1. <<10>> \in Texts
      BY <2>1, TextProperties
    <3>2. t \o <<10>> \in Texts /\ Reads(t \o <<10>>) = State(10, 0, 10, 0)
      BY <2>1, <2>2, <3>1, TextProperties, ReadsOne
    <3> QED BY <3>2
  <2>4. PICK d \in _CJK_DIGITS : n = 10 + d /\ DigitAt(n, 1) = d
    BY <1>2, TeenIs
  <2>5. 0 \in Bit /\ Worth(10, 0) = 1 /\ d \in Int
    BY DEF Bit, Worth, _CJK_DIGITS
  <2>6. Reads(u \o Written(n, 1)) = State(10, d, 10, 0)
    BY <2>1, <2>3, <2>4, <2>5, OnesAreRead
  <2>7. Total(State(10, d, 10, 0)) = 10 + d * Worth(10, 0)
    BY <2>5, TotalIs
  <2>8. t \o WrittenBelowWan(n) = u \o Written(n, 1)
    <3>1. n \in 10 .. 19
      BY <1>2 DEF Teens
    <3>2. <<10>> \in Texts /\ Written(n, 1) \in Texts
      BY <2>1, WrittenIsLow, TextProperties, CharSets
    <3>3. Regrouped(t, <<10>>, Written(n, 1))
      BY <3>2, RegroupThree DEF Texts
    <3> QED BY <2>3, <3>1, <3>3, Zenon DEF WrittenBelowWan, Regrouped
  <2>9. 10 + d * Worth(10, 0) = n
    BY <2>4, <2>5
  <2> QED BY <2>6, <2>7, <2>8, <2>9
<1> QED BY <1>1, <1>2

-----------------------------------------------------------------------------
(* The split at 10 000.                                                      *)

Chars == Low \cup {_WAN}

\* A character below 10 000 is neither the 10 000 nor Arabic.
LEMMA CharIs ==
    ASSUME NEW ch \in Low
    PROVE  ch \in Int /\ ch >= 0 /\ ch # _WAN /\ ~ IsArabic(ch)
BY DEF Low, _CJK_DIGITS, _CJK_SUB_WAN_PLACES, _WAN, IsArabic

\* The 10 000 is a magnitude, and not one of the smaller places.
LEMMA WanIs == ~ IsArabic(_WAN) /\ IsMagnitude(_WAN) /\ _WAN \notin _CJK_SUB_WAN_PLACES /\ _WAN # 0
BY DEF _WAN, IsArabic, IsMagnitude, _CJK_SUB_WAN_PLACES

\* The characters of a text split at 10 000.
IsSplit(f, h, t) ==
    /\ f \in Seq(Chars) /\ Len(f) = Len(h) + 1 + Len(t)
    /\ \A i \in 1 .. Len(h) : f[i] = h[i]
    /\ f[Len(h) + 1] = _WAN
    /\ \A i \in 1 .. Len(t) : f[Len(h) + 1 + i] = t[i]

\* A text with one 10 000 in it is split there.
LEMMA SplitText ==
    ASSUME NEW h \in Texts, NEW t \in Texts
    PROVE  IsSplit((h \o <<_WAN>>) \o t, h, t)
<1> DEFINE g == h \o <<_WAN>>
<1>1. h \in Seq(Chars) /\ t \in Seq(Chars) /\ <<_WAN>> \in Seq(Chars)
  <2>1. Low \subseteq Chars /\ _WAN \in Chars
    BY DEF Chars
  <2> QED BY <2>1 DEF Texts
<1>2. Len(<<_WAN>>) = 1 /\ <<_WAN>>[1] = _WAN /\ Len(h) \in Nat /\ Len(t) \in Nat
  BY <1>1, LenProperties
<1>3. g \in Seq(Chars) /\ Len(g) = Len(h) + 1
      /\ \A i \in 1 .. Len(h) + 1 : g[i] = IF i <= Len(h) THEN h[i] ELSE <<_WAN>>[i - Len(h)]
  BY <1>1, <1>2, ConcatProperties
<1>4. (\A i \in 1 .. Len(h) : g[i] = h[i]) /\ g[Len(h) + 1] = _WAN
  <2>1. (Len(h) + 1) - Len(h) = 1 /\ ~ (Len(h) + 1 <= Len(h)) /\ Len(h) + 1 \in 1 .. Len(h) + 1
    BY <1>2
  <2> HIDE DEF g
  <2> QED BY <1>2, <1>3, <2>1
<1> HIDE DEF g
<1>5. /\ g \o t \in Seq(Chars) /\ Len(g \o t) = Len(g) + Len(t)
      /\ \A i \in 1 .. Len(g) + Len(t) : (g \o t)[i] = IF i <= Len(g) THEN g[i] ELSE t[i - Len(g)]
  <2>1. g \in Seq(Chars) /\ t \in Seq(Chars)
    BY <1>1, <1>3
  <2> QED BY <2>1, ConcatProperties, Zenon
<1>6. PICK f : f = g \o t
  OBVIOUS
<1>7. \A i \in 1 .. Len(g) : f[i] = g[i]
  BY <1>2, <1>3, <1>5, <1>6
<1>8. \A i \in 1 .. Len(t) : f[Len(h) + 1 + i] = t[i]
  <2> TAKE i \in 1 .. Len(t)
  <2>1. Len(h) + 1 + i \in 1 .. Len(g) + Len(t) /\ ~ (Len(h) + 1 + i <= Len(g))
        /\ (Len(h) + 1 + i) - Len(g) = i
    BY <1>2, <1>3
  <2> QED BY <1>5, <1>6, <2>1
<1>9. Len(h) + 1 \in 1 .. Len(g) /\ \A i \in 1 .. Len(h) : i \in 1 .. Len(g)
  BY <1>2, <1>3
<1>10. f[Len(h) + 1] = _WAN /\ \A i \in 1 .. Len(h) : f[i] = h[i]
  BY <1>4, <1>7, <1>9
<1>11. f \in Seq(Chars) /\ Len(f) = Len(h) + 1 + Len(t)
  BY <1>3, <1>5, <1>6
<1>12. IsSplit(f, h, t)
  BY <1>8, <1>10, <1>11, Zenon DEF IsSplit
<1> QED BY <1>6, <1>12 DEF g

\* A text's characters, by their positions.
LEMMA TextIs ==
    ASSUME NEW t \in Texts
    PROVE  /\ t \in Seq(Low) /\ Len(t) \in Nat /\ DOMAIN t = 1 .. Len(t)
           /\ \A i \in 1 .. Len(t) : t[i] \in Low
BY LenProperties, ElementOfSeq DEF Texts

\* A numeral with one 10 000 is read in its two halves.
LEMMA SplitIsRead ==
    ASSUME NEW h \in Texts, NEW t \in Texts
    PROVE  _parse_cjk_numeral((h \o <<_WAN>>) \o t) = Joined(HighPart(h), LowPart(t))
<1>1. PICK f : f = (h \o <<_WAN>>) \o t
  OBVIOUS
<1>2. /\ f \in Seq(Chars) /\ Len(f) = Len(h) + 1 + Len(t)
      /\ \A i \in 1 .. Len(h) : f[i] = h[i]
      /\ f[Len(h) + 1] = _WAN
      /\ \A i \in 1 .. Len(t) : f[Len(h) + 1 + i] = t[i]
  <2>1. IsSplit(f, h, t)
    BY <1>1, SplitText
  <2> QED BY <2>1, Zenon DEF IsSplit
<1>3. PICK k \in Nat : k = Len(h)
  BY TextIs
<1>4. PICK m \in Nat : m = Len(t)
  BY TextIs
<1>5. DOMAIN f = 1 .. k + 1 + m
  BY <1>2, <1>3, <1>4, LenProperties
<1>6. ASSUME NEW i \in DOMAIN f PROVE (f[i] = _WAN <=> i = k + 1) /\ ~ IsArabic(f[i])
  <2>1. i \in 1 .. k \/ i = k + 1 \/ i \in k + 2 .. k + 1 + m
    BY <1>5
  <2>2. CASE i \in 1 .. k
    <3>1. f[i] = h[i] /\ h[i] \in Low /\ i # k + 1
      BY <1>2, <1>3, <2>2, TextIs
    <3> QED BY <3>1, CharIs
  <2>3. CASE i = k + 1
    BY <1>2, <1>3, <2>3, WanIs
  <2>4. CASE i \in k + 2 .. k + 1 + m
    <3>1. PICK j \in 1 .. m : i = k + 1 + j
      <4>1. i - (k + 1) \in 1 .. m /\ i = k + 1 + (i - (k + 1))
        BY <2>4
      <4> QED BY <4>1
    <3>2. f[i] = t[j] /\ t[j] \in Low /\ i # k + 1
      BY <1>2, <1>3, <1>4, <3>1, TextIs
    <3> QED BY <3>2, CharIs
  <2> QED BY <2>1, <2>2, <2>3, <2>4
<1>7. k + 1 \in DOMAIN f
  BY <1>5
<1>8. {i \in DOMAIN f : f[i] = _WAN} = {k + 1}
  BY <1>6, <1>7
<1>9. Cardinality({k + 1}) = 1 /\ (CHOOSE i \in {k + 1} : TRUE) = k + 1
  BY FS_Singleton
<1>10. _has_cjk_magnitude(f)
  BY <1>2, <1>3, <1>7, WanIs DEF _has_cjk_magnitude
<1>11. SubSeq(f, 1, k) = h
  <2>1. CASE k = 0
    <3>1. h = <<>>
      BY <1>3, <2>1, TextIs, EmptySeq
    <3>2. SubSeq(f, 1, k) = <<>>
      BY <2>1, SubSeqEmpty
    <3> QED BY <3>1, <3>2
  <2>2. CASE k > 0
    <3>1. \A i \in 1 .. k : f[i] \in Low /\ f[i] = h[i]
      BY <1>2, <1>3, TextIs
    <3>2. SubSeq(f, 1, k) \in Seq(Low) /\ Len(SubSeq(f, 1, k)) = k
          /\ \A i \in 1 .. k : SubSeq(f, 1, k)[i] = f[i]
      <4>1. 1 \in Int /\ k \in Int /\ 1 <= k /\ k - 1 + 1 = k /\ \A i \in 1 .. k : 1 + i - 1 = i
        BY <2>2
      <4> QED BY <3>1, <4>1, SubSeqProperties
    <3>3. PICK u : u = SubSeq(f, 1, k)
      OBVIOUS
    <3>4. u \in Seq(Low) /\ h \in Seq(Low) /\ Len(u) = Len(h) /\ \A i \in 1 .. Len(u) : u[i] = h[i]
      BY <1>3, <3>1, <3>2, <3>3, TextIs
    <3> QED BY <3>3, <3>4, SeqEqual
  <2> QED BY <2>1, <2>2
<1>12. SubSeq(f, k + 2, k + 1 + m) = t
  <2>1. CASE m = 0
    <3>1. t = <<>>
      BY <1>4, <2>1, TextIs, EmptySeq
    <3>2. SubSeq(f, k + 2, k + 1 + m) = <<>>
      BY <2>1, SubSeqEmpty
    <3> QED BY <3>1, <3>2
  <2>2. CASE m > 0
    <3>1. \A i \in 1 .. m : f[k + 1 + i] \in Low /\ f[k + 1 + i] = t[i]
      BY <1>2, <1>3, <1>4, TextIs
    <3>2. \A i \in k + 2 .. k + 1 + m : f[i] \in Low
      <4> TAKE i \in k + 2 .. k + 1 + m
      <4>1. i - (k + 1) \in 1 .. m /\ k + 1 + (i - (k + 1)) = i
        OBVIOUS
      <4> QED BY <3>1, <4>1
    <3>3. PICK u : u = SubSeq(f, k + 2, k + 1 + m)
      OBVIOUS
    <3>4. u \in Seq(Low) /\ Len(u) = m /\ \A i \in 1 .. m : u[i] = f[k + 1 + i]
      <4>1. k + 2 \in Int /\ k + 1 + m \in Int /\ k + 2 <= k + 1 + m
            /\ (k + 1 + m) - (k + 2) + 1 = m /\ \A i \in 1 .. m : (k + 2) + i - 1 = k + 1 + i
        BY <2>2
      <4> QED BY <3>2, <3>3, <4>1, SubSeqProperties
    <3>5. t \in Seq(Low) /\ Len(u) = Len(t) /\ \A i \in 1 .. Len(u) : u[i] = t[i]
      BY <1>4, <3>1, <3>4, TextIs
    <3> QED BY <3>3, <3>4, <3>5, SeqEqual
  <2> QED BY <2>1, <2>2
<1>13. (k + 1) - 1 = k /\ (k + 1) + 1 = k + 2 /\ Len(f) = k + 1 + m /\ ~ (1 > 1)
  BY <1>2, <1>3, <1>4
<1>14. ~ \E i \in DOMAIN f : IsArabic(f[i])
  BY <1>6
<1>15. {k + 1} # {}
  OBVIOUS
<1>16. _parse_cjk_numeral(f) =
          Joined(HighPart(SubSeq(f, 1, (k + 1) - 1)), LowPart(SubSeq(f, (k + 1) + 1, Len(f))))
  BY <1>8, <1>9, <1>10, <1>13, <1>14, <1>15, Zenon DEF _parse_cjk_numeral
<1> QED BY <1>1, <1>11, <1>12, <1>13, <1>16

\* A numeral without one is read in one go.
LEMMA UnsplitIsRead ==
    ASSUME NEW t \in Texts, _has_cjk_magnitude(t)
    PROVE  _parse_cjk_numeral(t) = InRange(_parse_sub_wan(t))
<1>1. {i \in DOMAIN t : t[i] = _WAN} = {} /\ ~ \E i \in DOMAIN t : IsArabic(t[i])
  BY TextIs, CharIs
<1>2. Cardinality({}) = 0 /\ ~ (0 > 1)
  BY FS_EmptySet
<1> QED BY <1>1, <1>2, Zenon DEF _parse_cjk_numeral

\* Magnitudes, and what a text begins with.
LEMMA ConcatIs ==
    ASSUME NEW t \in Texts, NEW u \in Texts
    PROVE  /\ Len(t \o u) = Len(t) + Len(u)
           /\ \A i \in 1 .. Len(t) : (t \o u)[i] = t[i]
           /\ \A i \in 1 .. Len(u) : (t \o u)[Len(t) + i] = u[i]
<1>1. PICK f : f = t \o u
  OBVIOUS
<1>2. PICK m, k \in Nat : m = Len(t) /\ k = Len(u)
  BY TextIs
<1>3. Len(f) = m + k /\ \A i \in 1 .. m + k : f[i] = IF i <= m THEN t[i] ELSE u[i - m]
  <2>1. t \in Seq(Low) /\ u \in Seq(Low)
    BY DEF Texts
  <2>2. /\ Len(t \o u) = Len(t) + Len(u)
        /\ \A i \in 1 .. Len(t) + Len(u) :
              (t \o u)[i] = IF i <= Len(t) THEN t[i] ELSE u[i - Len(t)]
    BY <2>1, ConcatProperties, Zenon
  <2> QED BY <1>1, <1>2, <2>2, Zenon
<1>4. \A i \in 1 .. m : f[i] = t[i]
  BY <1>2, <1>3
<1>5. \A i \in 1 .. k : f[m + i] = u[i]
  <2> TAKE i \in 1 .. k
  <2>1. m + i \in 1 .. m + k /\ ~ (m + i <= m) /\ (m + i) - m = i
    BY <1>2
  <2> QED BY <1>3, <2>1
<1> QED BY <1>1, <1>2, <1>3, <1>4, <1>5, Zenon

\* A magnitude of a concatenation is one of its parts'.
LEMMA MagnitudeOfConcat ==
    ASSUME NEW t \in Texts, NEW u \in Texts
    PROVE  _has_cjk_magnitude(t \o u) <=> _has_cjk_magnitude(t) \/ _has_cjk_magnitude(u)
<1>1. PICK f \in Texts : f = t \o u
  BY TextProperties
<1>2. PICK m, k \in Nat : m = Len(t) /\ k = Len(u)
  BY TextIs
<1>3. Len(f) = m + k /\ (\A i \in 1 .. m : f[i] = t[i]) /\ \A i \in 1 .. k : f[m + i] = u[i]
  BY <1>1, <1>2, ConcatIs, Zenon
<1>4. DOMAIN f = 1 .. m + k /\ DOMAIN t = 1 .. m /\ DOMAIN u = 1 .. k
  BY <1>2, <1>3, TextIs
<1>5. ASSUME NEW i \in DOMAIN f, IsMagnitude(f[i])
      PROVE  _has_cjk_magnitude(t) \/ _has_cjk_magnitude(u)
  <2>1. CASE i \in 1 .. m
    <3>1. IsMagnitude(t[i])
      BY <1>3, <1>5, <2>1
    <3> QED BY <1>4, <2>1, <3>1 DEF _has_cjk_magnitude
  <2>2. CASE i \notin 1 .. m
    <3>1. i - m \in 1 .. k /\ m + (i - m) = i
      BY <1>4, <2>2
    <3>2. IsMagnitude(u[i - m])
      BY <1>3, <1>5, <3>1
    <3> QED BY <1>4, <3>1, <3>2 DEF _has_cjk_magnitude
  <2> QED BY <2>1, <2>2
<1>6. ASSUME NEW i \in DOMAIN t, IsMagnitude(t[i])
      PROVE  _has_cjk_magnitude(f)
  <2>1. i \in DOMAIN f /\ f[i] = t[i]
    BY <1>3, <1>4
  <2> QED BY <1>6, <2>1 DEF _has_cjk_magnitude
<1>7. ASSUME NEW i \in DOMAIN u, IsMagnitude(u[i])
      PROVE  _has_cjk_magnitude(f)
  <2>1. m + i \in DOMAIN f /\ f[m + i] = u[i]
    BY <1>3, <1>4
  <2> QED BY <1>7, <2>1 DEF _has_cjk_magnitude
<1> QED BY <1>1, <1>5, <1>6, <1>7 DEF _has_cjk_magnitude

\* The magnitudes of texts of up to two characters.
LEMMA MagnitudeOfFew ==
    /\ ~ _has_cjk_magnitude(<<>>)
    /\ \A x : _has_cjk_magnitude(<<x>>) <=> IsMagnitude(x)
    /\ \A x, y : _has_cjk_magnitude(<<x, y>>) <=> IsMagnitude(x) \/ IsMagnitude(y)
<1>1. ~ _has_cjk_magnitude(<<>>)
  BY DEF _has_cjk_magnitude
<1>2. \A x : _has_cjk_magnitude(<<x>>) <=> IsMagnitude(x)
  BY DEF _has_cjk_magnitude
<1>3. \A x, y : _has_cjk_magnitude(<<x, y>>) <=> IsMagnitude(x) \/ IsMagnitude(y)
  BY DEF _has_cjk_magnitude
<1> QED BY <1>1, <1>2, <1>3

\* Digits are no magnitudes, places are.
LEMMA MagnitudesAre ==
    /\ \A d \in _CJK_DIGITS : ~ IsMagnitude(d) /\ d \notin _CJK_SUB_WAN_PLACES
    /\ \A p \in _CJK_SUB_WAN_PLACES : IsMagnitude(p)
BY DEF IsMagnitude, _CJK_DIGITS, _CJK_SUB_WAN_PLACES, _WAN

\* A concatenation begins as its first part does.
LEMMA BeginsAs ==
    ASSUME NEW t \in Texts, NEW u \in Texts, t # <<>>
    PROVE  t \o u # <<>> /\ (t \o u)[1] = t[1]
<1>1. PICK m, k \in Nat : m = Len(t) /\ k = Len(u)
  BY TextIs
<1>2. m > 0
  BY <1>1, EmptySeq DEF Texts
<1>3. (t \o u)[1] = t[1] /\ Len(t \o u) = m + k
  <2>1. 1 \in 1 .. Len(t)
    BY <1>1, <1>2
  <2> QED BY <1>1, <2>1, ConcatIs
<1>4. Len(<<>>) = 0
  OBVIOUS
<1> QED BY <1>2, <1>3, <1>4

\* What begins a number below 10 000, and whether it has a place.
LEMMA BelowBegins ==
    ASSUME NEW n \in Small
    PROVE  /\ n >= 10 => _has_cjk_magnitude(WrittenBelowWan(n))
           /\ n >= 1000 => WrittenBelowWan(n) # <<>> /\ WrittenBelowWan(n)[1] \in _CJK_DIGITS
           /\ n \in _CJK_DIGITS \ {0} => WrittenBelowWan(n) = <<n>>
           /\ n = 0 => WrittenBelowWan(n) = <<>>
<1>1. PICK a, b, c, d \in _CJK_DIGITS :
         /\ DigitAt(n, 1000) = a /\ DigitAt(n, 100) = b /\ DigitAt(n, 10) = c
         /\ DigitAt(n, 1) = d /\ n = 1000 * a + 100 * b + 10 * c + d
  BY ItsDigits
<1>2. n \in Nat /\ n <= 9999
  BY DEF Small
<1>3. 10 \in _CJK_SUB_WAN_PLACES /\ 100 \in _CJK_SUB_WAN_PLACES /\ 1000 \in _CJK_SUB_WAN_PLACES
  BY DEF _CJK_SUB_WAN_PLACES
<1>4. PICK w, x, y, z \in Texts :
         w = Written(n, 1000) /\ x = Written(n, 100) /\ y = Written(n, 10) /\ z = Written(n, 1)
  BY <1>2, WrittenIsLow DEF Places, _CJK_SUB_WAN_PLACES
<1>5. /\ a # 0 => w = <<a, 1000>>
      /\ b # 0 => x = <<b, 100>>
      /\ c # 0 => y = <<c, 10>>
      /\ z = IF d # 0 THEN <<d>> ELSE <<>>
  BY <1>1, <1>2, <1>3, <1>4, WrittenAs, WrittenOnes
<1>6. n \notin Teens => WrittenBelowWan(n) = ((w \o x) \o y) \o z
  <2>1. Body(n) = ((w \o x) \o y) \o z
    BY <1>4 DEF Body
  <2> QED BY <2>1, BelowIs
<1>7. w \o x \in Texts /\ (w \o x) \o y \in Texts
  BY TextProperties
<1>8. ASSUME n >= 10 PROVE _has_cjk_magnitude(WrittenBelowWan(n))
  <2>1. CASE n \in Teens
    <3>1. n \in 10 .. 19
      BY <2>1 DEF Teens
    <3>2. WrittenBelowWan(n) = <<10>> \o z
      BY <1>4, <3>1, SMT DEF WrittenBelowWan
    <3>3. <<10>> \in Texts /\ _has_cjk_magnitude(<<10>>)
      BY <1>3, TextProperties, CharSets, MagnitudeOfFew, MagnitudesAre
    <3> QED BY <3>2, <3>3, MagnitudeOfConcat
  <2>2. CASE n \notin Teens
    <3>1. a # 0 \/ b # 0 \/ c # 0
      BY <1>1, <1>8 DEF _CJK_DIGITS
    <3>2. _has_cjk_magnitude(w) \/ _has_cjk_magnitude(x) \/ _has_cjk_magnitude(y)
      BY <1>3, <1>5, <3>1, MagnitudeOfFew, MagnitudesAre
    <3>3. _has_cjk_magnitude(w \o x) <=> _has_cjk_magnitude(w) \/ _has_cjk_magnitude(x)
      BY MagnitudeOfConcat
    <3>4. _has_cjk_magnitude((w \o x) \o y) <=> _has_cjk_magnitude(w \o x) \/ _has_cjk_magnitude(y)
      BY <1>7, MagnitudeOfConcat
    <3>5. _has_cjk_magnitude(((w \o x) \o y) \o z)
          <=> _has_cjk_magnitude((w \o x) \o y) \/ _has_cjk_magnitude(z)
      BY <1>7, MagnitudeOfConcat
    <3> QED BY <1>6, <2>2, <3>2, <3>3, <3>4, <3>5, Zenon
  <2> QED BY <2>1, <2>2
<1>9. ASSUME n >= 1000 PROVE WrittenBelowWan(n) # <<>> /\ WrittenBelowWan(n)[1] \in _CJK_DIGITS
  <2>1. a # 0 /\ n \notin Teens
    BY <1>1, <1>9 DEF _CJK_DIGITS, Teens
  <2>2. w # <<>> /\ w[1] \in _CJK_DIGITS
    BY <1>5, <2>1
  <2>3. w \o x # <<>> /\ (w \o x)[1] = w[1]
    BY <2>2, BeginsAs
  <2>4. (w \o x) \o y # <<>> /\ ((w \o x) \o y)[1] = w[1]
    BY <1>7, <2>3, BeginsAs
  <2>5. ((w \o x) \o y) \o z # <<>> /\ (((w \o x) \o y) \o z)[1] = w[1]
    BY <1>7, <2>4, BeginsAs
  <2> QED BY <1>6, <2>1, <2>2, <2>5
<1>10. ASSUME n \in _CJK_DIGITS
       PROVE  WrittenBelowWan(n) = IF n # 0 THEN <<n>> ELSE <<>>
  <2>1. a = 0 /\ b = 0 /\ c = 0 /\ d = n /\ n < 10 /\ n \notin Teens
    BY <1>1, <1>10 DEF _CJK_DIGITS, Teens
  <2>2. ~ Skips(n, 1000) /\ ~ Skips(n, 100) /\ ~ Skips(n, 10)
    BY <1>2, <2>1 DEF Skips
  <2>3. w = <<>> /\ x = <<>> /\ y = <<>>
    BY <1>1, <1>2, <1>3, <1>4, <2>1, <2>2, WrittenAs
  <2>4. ((<<>> \o <<>>) \o <<>>) \o z = z
    BY ConcatEmptySeq DEF Texts
  <2> QED BY <1>5, <1>6, <2>1, <2>3, <2>4
<1>11. 0 \in _CJK_DIGITS
  BY DEF _CJK_DIGITS
<1> QED BY <1>8, <1>9, <1>10, <1>11

-----------------------------------------------------------------------------
(* A number as it is written in full.                                        *)

Payable == {n \in Nat : 1 <= n /\ n <= _MAX_CJK_VALUE}

\* Both halves of an amount at 10 000 are below 10 000.
LEMMA HalvesOf ==
    ASSUME NEW n \in Payable
    PROVE  /\ n \div _WAN \in Small /\ n % _WAN \in Small
           /\ n = (n \div _WAN) * _WAN + (n % _WAN)
<1>1. n \in Nat /\ 1 <= n /\ n <= 99999999
  BY DEF Payable, _MAX_CJK_VALUE
<1>2. PICK q, r \in Int : q = n \div 10000 /\ r = n % 10000
  BY <1>1
<1>3. n = 10000 * q + r /\ 0 <= r /\ r <= 9999
  BY <1>1, <1>2
<1>4. 0 <= q /\ q <= 9999
  BY <1>1, <1>3
<1>5. q \in Small /\ r \in Small
  BY <1>3, <1>4 DEF Small
<1> QED BY <1>2, <1>3, <1>5 DEF _WAN

\* An empty text, or a single zero, is worth nothing.
LEMMA NothingRead == /\ Reads(<<>>) = State(0, 0, 0, 0) /\ _parse_sub_wan(<<>>) = 0
                     /\ Reads(<<0>>) = State(0, 0, 0, 1) /\ _parse_sub_wan(<<0>>) = 0
<1>1. Reads(<<>>) = State(0, 0, 0, 0)
  BY ReadsNone, ScannedIs
<1>2. 0 \in Bit /\ 1 \in Bit /\ 0 \in Low /\ 0 \in Int /\ Worth(0, 0) = 1 /\ Worth(0, 1) = 1
  BY CharSets DEF Bit, Worth
<1>3. Reads(<<0>>) = State(0, 0, 0, 1)
  <2>1. <<>> \o <<0>> = <<0>>
    OBVIOUS
  <2>2. Reads(<<>> \o <<0>>) = Scan(State(0, 0, 0, 0), 0)
    BY <1>1, <1>2, TextProperties, ReadsOne
  <2> QED BY <1>2, <2>1, <2>2, ScanZero
<1>4. Total(State(0, 0, 0, 0)) = 0 /\ Total(State(0, 0, 0, 1)) = 0
  <2>1. Total(State(0, 0, 0, 0)) = 0 + 0 * Worth(0, 0)
    BY <1>2, TotalIs
  <2>2. Total(State(0, 0, 0, 1)) = 0 + 0 * Worth(0, 1)
    BY <1>2, TotalIs
  <2> QED BY <1>2, <2>1, <2>2
<1> QED BY <1>1, <1>3, <1>4 DEF _parse_sub_wan, Reads

\* The high part and the low one.
LEMMA HighIsRead ==
    ASSUME NEW h \in Small, h # 0
    PROVE  HighPart(WrittenBelowWan(h)) = h /\ WrittenBelowWan(h) # <<>>
<1>1. WrittenBelowWan(h) \in Texts
  BY BelowIsText
<1>2. WrittenBelowWan(h) # <<>>
  <2>1. CASE h >= 10
    BY <2>1, BelowBegins, MagnitudeOfFew
  <2>2. CASE ~ (h >= 10)
    <3>1. h \in _CJK_DIGITS \ {0}
      BY <2>2 DEF Small, _CJK_DIGITS
    <3>2. WrittenBelowWan(h) = <<h>>
      BY <3>1, BelowBegins
    <3> QED BY <3>2
  <2> QED BY <2>1, <2>2
<1>3. Total(Reads(<<>> \o WrittenBelowWan(h))) = h
  <2>1. 0 \in Bit
    BY DEF Bit
  <2> QED BY <2>1, NothingRead, TextProperties, BelowIsRead
<1>4. <<>> \o WrittenBelowWan(h) = WrittenBelowWan(h)
  BY <1>1, ConcatEmptySeq DEF Texts
<1> QED BY <1>2, <1>3, <1>4 DEF HighPart, _parse_sub_wan, Reads

Gap(n) == IF n % _WAN \in 1 .. 999 THEN <<0>> ELSE <<>>
Rest(n) == Gap(n) \o WrittenBelowWan(n % _WAN)

\* What follows the 10 000 is a text below 10 000.
LEMMA RestIsText == ASSUME NEW n \in Payable PROVE Rest(n) \in Texts /\ Gap(n) \in {<<0>>, <<>>}
<1>1. WrittenBelowWan(n % _WAN) \in Texts
  BY HalvesOf, BelowIsText
<1>2. Gap(n) \in {<<0>>, <<>>}
  BY DEF Gap
<1>3. Gap(n) \in Texts
  BY <1>2, TextProperties, CharSets
<1> QED BY <1>1, <1>2, <1>3, TextProperties DEF Rest

\* A number is written as its high half, the 10 000, and the rest.
LEMMA InFullIs ==
    ASSUME NEW n \in Payable
    PROVE  InFull(n) = IF n \div _WAN = 0 THEN WrittenBelowWan(n)
                       ELSE (WrittenBelowWan(n \div _WAN) \o <<_WAN>>) \o Rest(n)
<1>1. PICK h, l \in Small : h = n \div _WAN /\ l = n % _WAN /\ n = h * _WAN + l
  BY HalvesOf
<1>2. PICK x, y \in Texts : x = WrittenBelowWan(h) /\ y = WrittenBelowWan(l)
  BY BelowIsText
<1>3. h \in Nat /\ l \in Nat
  BY DEF Small
<1>4. CASE h = 0
  <2>1. l = n /\ ~ (h > 0)
    BY <1>1, <1>3, <1>4 DEF _WAN
  <2>2. (<<>> \o <<>>) \o y = y
    BY ConcatEmptySeq DEF Texts
  <2>3. InFull(n) = (<<>> \o <<>>) \o WrittenBelowWan(l)
    BY <1>1, <1>4, <2>1, ZenonT(60) DEF InFull
  <2> QED BY <1>1, <1>2, <1>4, <2>1, <2>2, <2>3
<1>5. CASE h # 0
  <2>1. h > 0
    BY <1>3, <1>5
  <2>2. Append(x, _WAN) = x \o <<_WAN>>
    <3>1. x \in Seq(Chars) /\ _WAN \in Chars
      BY DEF Texts, Chars
    <3> QED BY <3>1, AppendIsConcat
  <2>3. InFull(n) = (Append(x, _WAN) \o Gap(n)) \o y
    BY <1>1, <1>2, <1>5, <2>1, ZenonT(60) DEF InFull, Gap
  <2>4. PICK g \in Texts : g = Gap(n)
    BY RestIsText, TextProperties, CharSets
  <2>5. Regrouped(x \o <<_WAN>>, g, y)
    <3>1. x \in Seq(Chars) /\ <<_WAN>> \in Seq(Chars) /\ g \in Seq(Chars) /\ y \in Seq(Chars)
      BY DEF Texts, Chars
    <3>2. x \o <<_WAN>> \in Seq(Chars)
      BY <3>1, ConcatProperties
    <3> QED BY <3>1, <3>2, RegroupThree
  <2> QED BY <1>1, <1>2, <1>5, <2>2, <2>3, <2>4, <2>5 DEF Regrouped, Rest
<1> QED BY <1>4, <1>5

\* What is read after the 10 000, by its low part.
LEMMA RestIsRead ==
    ASSUME NEW h \in Small, h # 0, NEW u \in Texts, LowPart(u) \in Nat, LowPart(u) <= 9999
    PROVE  _parse_cjk_numeral((WrittenBelowWan(h) \o <<_WAN>>) \o u) = h * _WAN + LowPart(u)
<1>1. PICK v \in Nat : v = LowPart(u) /\ v <= 9999
  OBVIOUS
<1>2. h \in Nat /\ h > 0 /\ h <= 9999
  BY DEF Small
<1>3. _parse_cjk_numeral((WrittenBelowWan(h) \o <<_WAN>>) \o u) = Joined(h, v)
  BY <1>1, BelowIsText, HighIsRead, SplitIsRead
<1>4. Joined(h, v) = h * _WAN + v
  BY <1>1, <1>2 DEF Joined, InRange, NoValue, _WAN, _MAX_CJK_VALUE
<1> QED BY <1>1, <1>3, <1>4

\* The reading below 10 000, by the scan's state.
LEMMA SubWanIs == ASSUME NEW t PROVE _parse_sub_wan(t) = Total(Reads(t))
BY DEF _parse_sub_wan, Reads

\* A zero stands for the thousands that are missing.
LEMMA GapIs ==
    ASSUME NEW n, NEW l \in Nat, l = n % _WAN
    PROVE  Gap(n) = IF l # 0 /\ l <= 999 THEN <<0>> ELSE <<>>
<1>1. (l \in 1 .. 999) <=> (l # 0 /\ l <= 999)
  OBVIOUS
<1> QED BY <1>1, SMT DEF Gap

\* The rest is read as the low half, and single ones as thousands.
LEMMA LowOf ==
    ASSUME NEW n \in Payable, NEW l \in Small, l = n % _WAN
    PROVE  LowPart(Rest(n)) = IF l \in _CJK_DIGITS THEN l * 1000 ELSE l
<1>1. l \in Nat /\ l <= 9999
  BY DEF Small
<1>2. PICK y \in Texts : y = WrittenBelowWan(l)
  BY BelowIsText
<1>3. PICK g \in Texts : g = Gap(n) /\ g \in {<<0>>, <<>>}
  BY RestIsText, TextProperties, CharSets
<1>4. PICK r \in Texts : r = g \o y /\ r = Rest(n)
  BY <1>2, <1>3, RestIsText DEF Rest
<1>5. PICK k \in Bit : Reads(g) = State(0, 0, 0, k)
  <2>1. 0 \in Bit /\ 1 \in Bit
    BY DEF Bit
  <2> QED BY <1>3, <2>1, NothingRead
<1>6. _parse_sub_wan(r) = l
  BY <1>2, <1>4, <1>5, BelowIsRead, SubWanIs
<1>7. _has_cjk_magnitude(r) <=> _has_cjk_magnitude(y)
  <2>1. ~ _has_cjk_magnitude(g)
    BY <1>3, CharSets, MagnitudeOfFew, MagnitudesAre
  <2> QED BY <1>4, <2>1, MagnitudeOfConcat, ZenonT(60)
<1>8. CASE l = 0
  <2>1. g = <<>> /\ y = <<>>
    BY <1>1, <1>2, <1>3, <1>8, BelowBegins, GapIs
  <2>2. r = <<>>
    BY <1>4, <2>1, ConcatEmptySeq DEF Texts
  <2>3. LowPart(r) = InThousands(r, 0)
    BY <1>6, <1>8, <2>2 DEF LowPart
  <2>4. LowPart(r) = 0
    BY <2>3 DEF InThousands
  <2> QED BY <1>4, <1>8, <2>4 DEF _CJK_DIGITS
<1>9. ASSUME l # 0 PROVE r # <<>> /\ r[1] \notin _CJK_SUB_WAN_PLACES
  <2>1. CASE l <= 999
    <3>1. g = <<0>>
      BY <1>1, <1>3, <1>9, <2>1, GapIs
    <3>2. g # <<>> /\ g[1] = 0
      BY <3>1
    <3> QED BY <1>4, <3>2, BeginsAs, MagnitudesAre, CharSets
  <2>2. CASE l >= 1000
    <3>1. g = <<>>
      BY <1>1, <1>3, <2>2, GapIs
    <3>2. r = y
      BY <1>4, <3>1, ConcatEmptySeq DEF Texts
    <3> QED BY <1>2, <2>2, <3>2, BelowBegins, MagnitudesAre
  <2> QED BY <1>1, <2>1, <2>2
<1>10. ASSUME l # 0 PROVE LowPart(r) = InThousands(r, l)
  BY <1>6, <1>9, <1>10, Zenon DEF LowPart
<1>11. CASE l # 0 /\ l \in _CJK_DIGITS
  <2>1. y = <<l>>
    BY <1>2, <1>11, BelowBegins
  <2>2. ~ _has_cjk_magnitude(r)
    BY <1>7, <1>11, <2>1, MagnitudeOfFew, MagnitudesAre
  <2>3. l > 0
    BY <1>1, <1>11
  <2> QED BY <1>4, <1>10, <1>11, <2>2, <2>3 DEF InThousands
<1>12. CASE l \notin _CJK_DIGITS
  <2>1. l >= 10 /\ l # 0
    BY <1>1, <1>12 DEF _CJK_DIGITS
  <2>2. _has_cjk_magnitude(r)
    BY <1>2, <1>7, <2>1, BelowBegins
  <2> QED BY <1>4, <1>10, <1>12, <2>1, <2>2 DEF InThousands
<1> QED BY <1>8, <1>11, <1>12

\* A text with a magnitude is read as the numeral it is.
LEMMA NumeralIsRead ==
    ASSUME NEW t, _has_cjk_magnitude(t), NEW v \in Nat, _parse_cjk_numeral(t) = v,
           NEW unit \in BOOLEAN
    PROVE  cjk_to_decimal(t, unit) = v
<1>1. ASSUME Len(t) = 1, t[1] \in _CJK_DIGITS, DOMAIN t = 1 .. 1 PROVE FALSE
  BY <1>1, MagnitudesAre DEF _has_cjk_magnitude
<1> QED BY <1>1 DEF cjk_to_decimal, OrMixed, NoValue

\* A numeral with a 10 000 in it has a magnitude.
LEMMA SplitHasMagnitude ==
    ASSUME NEW h \in Texts, NEW t \in Texts
    PROVE  _has_cjk_magnitude((h \o <<_WAN>>) \o t)
<1>1. PICK f : f = (h \o <<_WAN>>) \o t
  OBVIOUS
<1>2. IsSplit(f, h, t)
  BY <1>1, SplitText
<1>3. PICK m, k \in Nat : m = Len(h) /\ k = Len(t)
  BY TextIs
<1>4. f \in Seq(Chars) /\ Len(f) = m + 1 + k /\ f[m + 1] = _WAN
  BY <1>2, <1>3 DEF IsSplit
<1>5. m + 1 \in DOMAIN f
  BY <1>3, <1>4, LenProperties
<1> QED BY <1>1, <1>4, <1>5, WanIs DEF _has_cjk_magnitude

IsHalves(n, h, l) == h = n \div _WAN /\ l = n % _WAN
ReadInFull(n, h, l) == IF h # 0 /\ l \in _CJK_DIGITS THEN h * _WAN + l * 1000 ELSE n

\* In full, a number is read as itself, but for ones after 10 000: they are read as thousands.
LEMMA HalvesAreRead ==
    ASSUME NEW n \in Payable, NEW l \in Small, l = n % _WAN
    PROVE  cjk_to_decimal(InFull(n), TRUE) = ReadInFull(n, n \div _WAN, l)
<1>1. PICK h \in Small : h = n \div _WAN /\ n = h * _WAN + l
  BY HalvesOf
<1>2. h \in Nat /\ l \in Nat /\ h <= 9999 /\ l <= 9999 /\ n \in Nat /\ 1 <= n /\ n <= 99999999
  BY DEF Small, Payable, _MAX_CJK_VALUE
<1>3. h = 0 => ReadInFull(n, n \div _WAN, l) = n
  BY <1>1 DEF ReadInFull
<1>4. CASE h = 0 /\ n \in _CJK_DIGITS
  <2>1. l = n /\ n \in _CJK_DIGITS \ {0}
    BY <1>1, <1>2, <1>4 DEF _WAN
  <2>2. InFull(n) = <<n>>
    BY <1>1, <1>4, <2>1, InFullIs, BelowBegins
  <2>3. InRange(n) = n
    BY <1>2 DEF InRange, _MAX_CJK_VALUE
  <2>4. Len(<<n>>) = 1 /\ <<n>>[1] = n
    OBVIOUS
  <2>5. cjk_to_decimal(InFull(n), TRUE) = n
    BY <1>1, <1>4, <2>2, <2>3, <2>4 DEF cjk_to_decimal
  <2> QED BY <1>4, <1>3, <2>5
<1>5. CASE h = 0 /\ n \notin _CJK_DIGITS
  <2>1. l = n /\ n >= 10
    BY <1>1, <1>2, <1>5 DEF _WAN, _CJK_DIGITS
  <2>2. PICK w \in Texts : w = WrittenBelowWan(n)
    BY <2>1, BelowIsText
  <2>3. _has_cjk_magnitude(w)
    BY <2>1, <2>2, BelowBegins
  <2>4. _parse_sub_wan(w) = n
    <3>1. Total(Reads(<<>> \o w)) = n
      <4>1. 0 \in Bit
        BY DEF Bit
      <4> QED BY <2>1, <2>2, <4>1, NothingRead, TextProperties, BelowIsRead
    <3>2. <<>> \o w = w
      BY ConcatEmptySeq DEF Texts
    <3> QED BY <3>1, <3>2, SubWanIs
  <2>5. InRange(n) = n
    BY <1>2 DEF InRange, _MAX_CJK_VALUE
  <2>6. cjk_to_decimal(w, TRUE) = n
    <3>1. _parse_cjk_numeral(w) = n
      BY <2>3, <2>4, <2>5, UnsplitIsRead
    <3>2. n \in Nat
      BY <1>2
    <3> QED BY <2>3, <3>1, <3>2, NumeralIsRead
  <2>7. cjk_to_decimal(InFull(n), TRUE) = n
    BY <1>1, <1>5, <2>2, <2>6, InFullIs
  <2> QED BY <1>5, <1>3, <2>7
<1>6. CASE h # 0
  <2>1. PICK x, r \in Texts : x = WrittenBelowWan(h) /\ r = Rest(n)
    BY BelowIsText, RestIsText
  <2>2. InFull(n) = (x \o <<_WAN>>) \o r
    BY <1>1, <1>6, <2>1, InFullIs
  <2>3. PICK v \in Nat : v = LowPart(r) /\ v <= 9999 /\ v = IF l \in _CJK_DIGITS THEN l * 1000 ELSE l
    <3>1. LowPart(r) = IF l \in _CJK_DIGITS THEN l * 1000 ELSE l
      BY <2>1, LowOf
    <3>2. l \in _CJK_DIGITS => l * 1000 \in Nat /\ l * 1000 <= 9999
      BY DEF _CJK_DIGITS
    <3> QED BY <1>2, <3>1, <3>2
  <2>4. _parse_cjk_numeral((x \o <<_WAN>>) \o r) = h * _WAN + v
    <3>1. LowPart(r) \in Nat /\ LowPart(r) <= 9999
      BY <2>3
    <3>2. _parse_cjk_numeral((WrittenBelowWan(h) \o <<_WAN>>) \o r) = h * _WAN + LowPart(r)
      BY <1>6, <3>1, RestIsRead
    <3> QED BY <2>1, <2>3, <3>2
  <2>5. _has_cjk_magnitude((x \o <<_WAN>>) \o r) /\ h * _WAN + v \in Nat
    BY <1>2, SplitHasMagnitude DEF _WAN
  <2>6. cjk_to_decimal(InFull(n), TRUE) = h * _WAN + v
    BY <2>2, <2>4, <2>5, NumeralIsRead
  <2>7. ReadInFull(n, n \div _WAN, l) = h * _WAN + v
    BY <1>1, <1>6, <2>3 DEF ReadInFull
  <2> QED BY <2>6, <2>7
<1> QED BY <1>4, <1>5, <1>6

\* Every amount written in full is read as itself, ones after 10 000 as
\* thousands (cjk_amounts.py:335-345).
LEMMA FullIsRead ==
    ASSUME NEW n \in Payable, NEW h \in Small, NEW l \in Small, IsHalves(n, h, l)
    PROVE  cjk_to_decimal(InFull(n), TRUE) = ReadInFull(n, h, l)
BY HalvesAreRead, Zenon DEF IsHalves

-----------------------------------------------------------------------------
(* As it is spoken: the last place is left out.                              *)

Lines == Seq(Chars)
LastOf(t) == t[Len(t)]

\* The numerals, with the 10 000: characters, concatenations and lengths.
LEMMA LineProperties ==
    /\ Texts \subseteq Lines /\ Low \subseteq Chars /\ _WAN \in Chars
    /\ \A x \in Chars : <<x>> \in Lines
    /\ \A t, u \in Lines : t \o u \in Lines
    /\ \A t \in Lines : t \o <<>> = t /\ <<>> \o t = t /\ Len(t) \in Nat
    /\ \A t \in Lines : t # <<>> <=> Len(t) # 0
<1>1. Low \subseteq Chars /\ _WAN \in Chars
  BY DEF Chars
<1>2. Texts \subseteq Lines
  BY <1>1 DEF Texts, Lines
<1>3. \A x \in Chars : <<x>> \in Lines
  BY DEF Lines
<1>4. \A t, u \in Lines : t \o u \in Lines
  BY ConcatProperties DEF Lines
<1>5. \A t \in Lines : t \o <<>> = t /\ <<>> \o t = t
  BY ConcatEmptySeq DEF Lines
<1>6. \A t \in Lines : Len(t) \in Nat /\ (t # <<>> <=> Len(t) # 0)
  BY EmptySeq, LenProperties DEF Lines
<1> QED BY <1>1, <1>2, <1>3, <1>4, <1>5, <1>6

\* Their concatenation is associative.
LEMMA LineGroups ==
    ASSUME NEW t \in Lines, NEW u \in Lines, NEW v \in Lines
    PROVE  Regrouped(t, u, v)
BY RegroupThree DEF Lines

\* The length of a concatenation, and the last characters of its parts.
LEMMA LineConcat ==
    ASSUME NEW t \in Lines, NEW u \in Lines
    PROVE  /\ Len(t \o u) = Len(t) + Len(u)
           /\ t # <<>> => (t \o u)[Len(t)] = LastOf(t)
           /\ u # <<>> => LastOf(t \o u) = LastOf(u)
<1>1. PICK f : f = t \o u
  OBVIOUS
<1>2. PICK m, k \in Nat : m = Len(t) /\ k = Len(u)
  BY LineProperties
<1>3. Len(f) = m + k /\ \A i \in 1 .. m + k : f[i] = IF i <= m THEN t[i] ELSE u[i - m]
  <2>1. t \in Seq(Chars) /\ u \in Seq(Chars)
    BY DEF Lines
  <2>2. /\ Len(t \o u) = Len(t) + Len(u)
        /\ \A i \in 1 .. Len(t) + Len(u) :
              (t \o u)[i] = IF i <= Len(t) THEN t[i] ELSE u[i - Len(t)]
    BY <2>1, ConcatProperties, Zenon
  <2> QED BY <1>1, <1>2, <2>2, Zenon
<1>4. t # <<>> => f[m] = t[m]
  <2>1. t # <<>> => m \in 1 .. m + k /\ m <= m
    BY <1>2, LineProperties
  <2> QED BY <1>3, <2>1
<1>5. u # <<>> => f[m + k] = u[k]
  <2>1. u # <<>> => m + k \in 1 .. m + k /\ ~ (m + k <= m) /\ (m + k) - m = k
    BY <1>2, LineProperties
  <2> QED BY <1>3, <2>1
<1> QED BY <1>1, <1>2, <1>3, <1>4, <1>5, Zenon DEF LastOf

\* A numeral without its last character.
LEMMA LineLess ==
    ASSUME NEW t \in Lines, NEW x \in Chars
    PROVE  /\ Len(t \o <<x>>) = Len(t) + 1 /\ LastOf(t \o <<x>>) = x
           /\ SubSeq(t \o <<x>>, 1, Len(t)) = t
<1>1. <<x>> \in Lines /\ Len(<<x>>) = 1 /\ LastOf(<<x>>) = x /\ <<x>> # <<>>
  BY LineProperties DEF LastOf
<1>2. Len(t \o <<x>>) = Len(t) + 1 /\ LastOf(t \o <<x>>) = x
  BY <1>1, LineConcat
<1>3. PICK k \in Nat : k = Len(t)
  BY LineProperties
<1>4. CASE k = 0
  <2>1. t = <<>>
    BY <1>3, <1>4, LineProperties
  <2>2. SubSeq(t \o <<x>>, 1, k) = <<>>
    BY <1>4, SubSeqEmpty
  <2> QED BY <1>2, <1>3, <2>1, <2>2
<1>5. CASE k > 0
  <2>1. 1 \in 1 .. Len(t) /\ Len(t) \in 1 .. Len(t) /\ t \in Seq(Chars) /\ <<x>> \in Seq(Chars)
    BY <1>3, <1>5 DEF Lines
  <2>2. SubSeq(t \o <<x>>, 1, Len(t)) = SubSeq(t, 1, Len(t))
    BY <2>1, SubSeqOfConcat1
  <2>3. SubSeq(t, 1, Len(t)) = t
    BY <2>1, SubSeqFull
  <2> QED BY <1>2, <2>2, <2>3
<1> QED BY <1>3, <1>4, <1>5

TenTimes(y, x) == y = 10 * x

\* When the last place of a numeral is left out: after a digit at ten times
\* that place.
LEMMA ColloquialIs ==
    ASSUME NEW n, NEW e \in Lines, NEW z \in Chars, NEW x \in Chars, NEW y \in Int, TenTimes(y, x),
           InFull(n) = (e \o <<z>>) \o <<x>>
    PROVE  Colloquial(n) = IF x \in _CJK_SUB_WAN_PLACES /\ Len(e) >= 2 /\ LastOf(e) = y
                           THEN e \o <<z>> ELSE InFull(n)
<1>1. PICK f \in Lines : f = e \o <<z>>
  BY LineProperties
<1>2. PICK s : s = f \o <<x>> /\ s = InFull(n)
  BY <1>1
<1>3. PICK m \in Nat : m = Len(e)
  BY LineProperties
<1>4. Len(f) = m + 1 /\ Len(s) = m + 2 /\ LastOf(s) = x /\ SubSeq(s, 1, m + 1) = f
  <2>1. Len(f) = m + 1
    BY <1>1, <1>3, LineLess
  <2>2. Len(s) = Len(f) + 1 /\ LastOf(s) = x /\ SubSeq(s, 1, Len(f)) = f
    BY <1>2, LineLess
  <2>3. (m + 1) + 1 = m + 2
    BY <1>3
  <2> QED BY <2>1, <2>2, <2>3
<1>5. s[m + 2] = x
  BY <1>4 DEF LastOf
<1>6. ASSUME e # <<>> PROVE s[m] = LastOf(e)
  <2>1. <<x>> \in Lines /\ <<z>> \in Lines /\ <<z>> \o <<x>> \in Lines
    BY LineProperties
  <2>2. Regrouped(e, <<z>>, <<x>>)
    BY <2>1, LineGroups
  <2>3. s = e \o (<<z>> \o <<x>>)
    BY <1>1, <1>2, <2>2, Zenon DEF Regrouped
  <2> QED BY <1>3, <1>6, <2>1, <2>3, LineConcat
<1>7. (m + 2) - 2 = m /\ (m + 2) - 1 = m + 1 /\ (m + 2 >= 4 <=> m >= 2) /\ (m >= 2 => m # 0)
  BY <1>3
<1>8. Colloquial(n) = IF m + 2 >= 4 /\ s[m + 2] \in _CJK_SUB_WAN_PLACES /\ s[(m + 2) - 2] = 10 * s[m + 2]
                      THEN SubSeq(s, 1, (m + 2) - 1) ELSE s
  BY <1>2, <1>4, Zenon DEF Colloquial
<1>9. Colloquial(n) = IF m >= 2 /\ x \in _CJK_SUB_WAN_PLACES /\ s[m] = y THEN f ELSE s
  BY <1>4, <1>5, <1>7, <1>8 DEF TenTimes
<1>10. m >= 2 => s[m] = LastOf(e)
  BY <1>3, <1>6, <1>7, LineProperties
<1> QED BY <1>1, <1>2, <1>3, <1>9, <1>10

\* It is not after any other character, nor in a short numeral.
LEMMA ColloquialInFull ==
    ASSUME NEW n, NEW g \in Lines, NEW x \in Chars, InFull(n) = g \o <<x>>,
           x \notin _CJK_SUB_WAN_PLACES \/ Len(g) < 3
    PROVE  Colloquial(n) = InFull(n)
<1>1. PICK s : s = g \o <<x>> /\ s = InFull(n)
  OBVIOUS
<1>2. PICK m \in Nat : m = Len(g)
  BY LineProperties
<1>3. Len(s) = m + 1 /\ s[Len(s)] = x
  BY <1>1, <1>2, LineLess DEF LastOf
<1>4. ~ (Len(s) >= 4 /\ s[Len(s)] \in _CJK_SUB_WAN_PLACES)
  BY <1>2, <1>3
<1> QED BY <1>1, <1>4, Zenon DEF Colloquial

Opening(n) ==
    IF n \div _WAN = 0 THEN <<>> ELSE (WrittenBelowWan(n \div _WAN) \o <<_WAN>>) \o Gap(n)

\* A numeral is its opening, up to the 10 000 and the zero, and the low half.
LEMMA OpeningIs ==
    ASSUME NEW n \in Payable, NEW h \in Small, h = n \div _WAN
    PROVE  /\ Opening(n) \in Lines
           /\ InFull(n) = Opening(n) \o WrittenBelowWan(n % _WAN)
           /\ h = 0 => Opening(n) = <<>>
           /\ h # 0 => /\ Len(Opening(n)) >= 2
                       /\ LastOf(Opening(n)) = IF Gap(n) = <<>> THEN _WAN ELSE 0
<1>1. PICK x \in Texts : x = WrittenBelowWan(h)
  BY BelowIsText
<1>2. PICK y \in Texts : y = WrittenBelowWan(n % _WAN)
  BY HalvesOf, BelowIsText
<1>3. PICK g \in Texts : g = Gap(n) /\ g \in {<<0>>, <<>>}
  BY RestIsText, TextProperties, CharSets
<1>4. PICK o \in Lines : o = x \o <<_WAN>>
  BY LineProperties
<1>5. x \in Lines /\ y \in Lines /\ g \in Lines /\ o \o g \in Lines /\ <<>> \in Lines
  BY LineProperties, TextProperties
<1>6. CASE h = 0
  <2>1. Opening(n) = <<>>
    BY <1>6, Zenon DEF Opening
  <2>2. n % _WAN = n
    BY <1>6 DEF Payable, _WAN
  <2>3. <<>> \o y = y
    BY <1>5, LineProperties
  <2>4. InFull(n) = y
    BY <1>2, <1>6, <2>2, InFullIs
  <2> QED BY <1>2, <1>5, <1>6, <2>1, <2>3, <2>4
<1>7. CASE h # 0
  <2>1. Opening(n) = o \o g
    BY <1>1, <1>3, <1>4, <1>7, Zenon DEF Opening
  <2>2. InFull(n) = o \o (g \o y)
    BY <1>1, <1>2, <1>3, <1>4, <1>7, InFullIs DEF Rest
  <2>3. Regrouped(o, g, y)
    BY <1>5, LineGroups
  <2>4. Len(x) \in Nat /\ Len(x) # 0
    <3>1. x # <<>>
      BY <1>1, <1>7, HighIsRead
    <3> QED BY <1>5, <3>1, LineProperties
  <2>5. Len(o) = Len(x) + 1 /\ LastOf(o) = _WAN
    BY <1>4, <1>5, LineProperties, LineLess
  <2>6. Len(o \o g) = Len(o) + Len(g) /\ Len(g) \in Nat
    BY <1>5, LineConcat, LineProperties
  <2>7. LastOf(o \o g) = IF g = <<>> THEN _WAN ELSE 0
    <3>1. CASE g = <<>>
      BY <2>5, <3>1, LineProperties
    <3>2. CASE g # <<>>
      <4>1. g = <<0>> /\ LastOf(g) = 0
        BY <1>3, <3>2 DEF LastOf
      <4> QED BY <1>5, <3>2, <4>1, LineConcat
    <3> QED BY <3>1, <3>2
  <2>8. InFull(n) = (o \o g) \o y
    BY <2>2, <2>3, Zenon DEF Regrouped
  <2> QED BY <1>2, <1>3, <1>5, <1>7, <2>1, <2>4, <2>5, <2>6, <2>7, <2>8
<1> QED BY <1>6, <1>7

\* A text that is read as l, whether or not a zero comes before it.
ReadAs(u, l) ==
    \A t \in Texts, k \in Bit : Reads(t) = State(0, 0, 0, k) => Total(Reads(t \o u)) = l

\* A low half that is read as l, and begins with a digit, is read as l after
\* any opening.
LEMMA ShortIsRead ==
    ASSUME NEW n \in Payable, NEW l \in Small, l = n % _WAN, NEW u \in Texts, u # <<>>,
           u[1] \in _CJK_DIGITS, _has_cjk_magnitude(u), ReadAs(u, l)
    PROVE  cjk_to_decimal(Opening(n) \o u, TRUE) = n
<1>1. PICK h \in Small : h = n \div _WAN
  BY HalvesOf
<1>0. n = h * _WAN + l
  BY <1>1, HalvesOf
<1>2. h \in Nat /\ l \in Nat /\ h <= 9999 /\ l <= 9999 /\ n \in Nat /\ 1 <= n /\ n <= 99999999
  BY DEF Small, Payable, _MAX_CJK_VALUE
<1>3. 0 \in Bit /\ 1 \in Bit
  BY DEF Bit
<1>4. PICK g \in Texts : g = Gap(n) /\ g \in {<<0>>, <<>>}
  BY RestIsText, TextProperties, CharSets
<1>5. PICK r \in Texts : r = g \o u
  BY TextProperties
<1>6. _parse_sub_wan(r) = l
  <2>1. PICK k \in Bit : Reads(g) = State(0, 0, 0, k)
    BY <1>3, <1>4, NothingRead
  <2> QED BY <1>5, <2>1, SubWanIs DEF ReadAs
<1>7. <<>> \o u = u /\ <<>> \in Texts
  BY TextProperties, LineProperties
<1>8. CASE h = 0
  <2>1. Opening(n) \o u = u /\ n = l
    <3>1. Opening(n) = <<>>
      BY <1>1, <1>8, OpeningIs
    <3>2. n = l
      BY <1>0, <1>2, <1>8 DEF _WAN
    <3> QED BY <1>7, <3>1, <3>2
  <2>2. _parse_sub_wan(u) = n
    <3>1. Total(Reads(<<>> \o u)) = l
      BY <1>3, <1>7, NothingRead DEF ReadAs
    <3> QED BY <1>7, <2>1, <3>1, SubWanIs
  <2>3. InRange(n) = n
    BY <1>2 DEF InRange, _MAX_CJK_VALUE
  <2>4. _parse_cjk_numeral(u) = n
    BY <2>2, <2>3, UnsplitIsRead
  <2>5. n \in Nat
    BY <1>2
  <2> QED BY <2>1, <2>4, <2>5, NumeralIsRead
<1>9. CASE h # 0
  <2>1. r[1] \notin _CJK_SUB_WAN_PLACES /\ r # <<>>
    <3>1. CASE g = <<0>>
      <4>1. g # <<>> /\ g[1] = 0
        BY <3>1
      <4> QED BY <1>5, <4>1, BeginsAs, MagnitudesAre, CharSets
    <3>2. CASE g = <<>>
      BY <1>5, <1>7, <3>2, MagnitudesAre
    <3> QED BY <1>4, <3>1, <3>2
  <2>2. _has_cjk_magnitude(r)
    BY <1>5, MagnitudeOfConcat
  <2>3. LowPart(r) = l
    BY <1>6, <2>1, <2>2 DEF LowPart, InThousands
  <2>4. LowPart(r) \in Nat /\ LowPart(r) <= 9999
    BY <1>2, <2>3
  <2>5. _parse_cjk_numeral((WrittenBelowWan(h) \o <<_WAN>>) \o r) = h * _WAN + LowPart(r)
    BY <1>9, <2>4, RestIsRead
  <2>6. PICK x \in Texts : x = WrittenBelowWan(h)
    BY BelowIsText
  <2>7. Opening(n) \o u = (x \o <<_WAN>>) \o r
    <3>1. x \o <<_WAN>> \in Lines /\ g \in Lines /\ u \in Lines
      BY LineProperties
    <3>2. Regrouped(x \o <<_WAN>>, g, u)
      BY <3>1, LineGroups
    <3>3. Opening(n) = (x \o <<_WAN>>) \o g
      BY <1>1, <1>4, <1>9, <2>6, Zenon DEF Opening
    <3> QED BY <1>5, <3>2, <3>3, Zenon DEF Regrouped
  <2>8. _has_cjk_magnitude((x \o <<_WAN>>) \o r)
    BY SplitHasMagnitude
  <2>9. _parse_cjk_numeral((x \o <<_WAN>>) \o r) = n /\ n \in Nat
    BY <1>0, <1>2, <2>3, <2>5, <2>6
  <2> QED BY <2>7, <2>8, <2>9, NumeralIsRead
<1> QED BY <1>8, <1>9

\* A trailing digit is worth the place under the last one.
LEMMA TrailingIsRead ==
    ASSUME NEW t \in Texts, NEW s \in Int, NEW q \in Int, NEW m \in Int, Worth(q, 0) = m,
           Reads(t) = State(s, 0, q, 0), NEW d \in _CJK_DIGITS \ {0}
    PROVE  Total(Reads(t \o <<d>>)) = s + d * m
<1>1. d \in Low /\ d \in Int /\ 0 \in Bit
  BY CharSets DEF Bit
<1>2. Reads(t \o <<d>>) = Scan(State(s, 0, q, 0), d)
  BY <1>1, ReadsOne
<1>3. Scan(State(s, 0, q, 0), d) = State(s, d, q, 0)
  BY <1>1, ScanDigit
<1>4. Total(State(s, d, q, 0)) = s + d * Worth(q, 0)
  BY <1>1, TotalIs
<1> QED BY <1>2, <1>3, <1>4

IsLow(n, l) == l = n % _WAN
IsSum(l, a, b, c, d) == l = 1000 * a + 100 * b + 10 * c + d
IsWritten(w, n, p) == w = Written(n, p)
IsSingle(z, d) == z = <<d>>
AddsUp(m, a, b, c) == m = 1000 * a + 100 * b + 10 * c

\* A digit after hundreds, with nothing after it, counts tens.
LEMMA TensAreRead ==
    ASSUME NEW n \in Small, NEW a \in _CJK_DIGITS, NEW b \in _CJK_DIGITS \ {0},
           NEW c \in _CJK_DIGITS \ {0}, DigitAt(n, 1000) = a, DigitAt(n, 100) = b,
           NEW w \in Texts, IsWritten(w, n, 1000), NEW x \in Texts, IsWritten(x, n, 100),
           NEW z \in Texts, IsSingle(z, c), NEW m \in Int, AddsUp(m, a, b, c)
    PROVE  ReadAs((w \o x) \o z, m)
<1> SUFFICES ASSUME NEW t \in Texts, NEW k \in Bit, Reads(t) = State(0, 0, 0, k)
             PROVE  Total(Reads(t \o ((w \o x) \o z))) = m
  BY DEF ReadAs
<1>1. n \in Nat /\ n <= 9999 /\ a \in Int /\ b \in Int /\ c \in Int /\ 0 \in Bit /\ 0 \in Int
      /\ 100 \in Int /\ 1000 \in Int
  BY CharSets DEF Small, Bit
<1>2. 100 \in _CJK_SUB_WAN_PLACES /\ 1000 \in _CJK_SUB_WAN_PLACES
  BY DEF _CJK_SUB_WAN_PLACES
<1>4. PICK qa \in Int : qa = IF a # 0 THEN 1000 ELSE 0
  BY <1>1
<1>5. PICK ka \in Bit : ka = IF a # 0 THEN 0 ELSE k
  BY <1>1
<1>6. Placed(n, 1000, a, w, 0, qa, k, ka) /\ Placed(n, 100, b, x, qa, 100, ka, 0)
  <2>1. ~ Skips(n, 1000)
    BY <1>1 DEF Skips
  <2> QED BY <1>4, <1>5, <2>1 DEF Placed, IsWritten
<1>7. PICK u \in Texts : u = t \o w
  BY TextProperties, ZenonT(60)
<1>8. PICK sa \in Int : sa = 1000 * a
  BY <1>1
<1>9. Reads(u) = State(sa, 0, qa, ka) /\ (qa = 0 \/ 100 < qa)
  <2>1. Reads(t \o w) = State(0 + 1000 * a, 0, qa, ka)
    BY <1>1, <1>2, <1>6, PlacedIsRead
  <2>2. 0 + 1000 * a = sa
    BY <1>1, <1>8
  <2> QED BY <1>4, <1>7, <2>1, <2>2
<1>10. PICK v \in Texts : v = u \o x
  <2>1. u \o x \in Texts
    BY TextProperties, SMT
  <2> QED BY <2>1, ZenonT(60)
<1>11. PICK sb \in Int : sb = sa + 100 * b
  BY <1>1
<1>12. Reads(v) = State(sb, 0, 100, 0)
  <2>1. Reads(u \o x) = State(sa + 100 * b, 0, 100, 0)
    BY <1>1, <1>2, <1>6, <1>9, PlacedIsRead
  <2> QED BY <1>10, <1>11, <2>1
<1>13. Total(Reads(v \o <<c>>)) = sb + c * 10
  <2>1. Worth(100, 0) = 10 /\ 10 \in Int
    BY DEF Worth
  <2> QED BY <1>1, <1>12, <2>1, TrailingIsRead
<1>14. v \o z = t \o ((w \o x) \o z)
  <2>1. t \in Lines /\ w \in Lines /\ x \in Lines /\ z \in Lines /\ w \o x \in Lines
    BY LineProperties
  <2>2. Regrouped(t, w, x) /\ Regrouped(t, w \o x, z)
    BY <2>1, LineGroups
  <2> QED BY <1>7, <1>10, <2>2, SMT DEF Regrouped
<1>15. sb + c * 10 = m
  BY <1>1, <1>8, <1>11 DEF AddsUp
<1>16. Total(Reads(v \o z)) = m
  <2>1. z = <<c>>
    BY DEF IsSingle
  <2> QED BY <1>13, <1>15, <2>1
<1> QED BY <1>14, <1>16, Zenon

\* A digit after thousands, with nothing after it, counts hundreds.
LEMMA HundredsAreRead ==
    ASSUME NEW n \in Small, NEW a \in _CJK_DIGITS \ {0}, NEW b \in _CJK_DIGITS \ {0},
           DigitAt(n, 1000) = a, NEW w \in Texts, IsWritten(w, n, 1000),
           NEW z \in Texts, IsSingle(z, b), NEW m \in Int, AddsUp(m, a, b, 0)
    PROVE  ReadAs(w \o z, m)
<1> SUFFICES ASSUME NEW t \in Texts, NEW k \in Bit, Reads(t) = State(0, 0, 0, k)
             PROVE  Total(Reads(t \o (w \o z))) = m
  BY DEF ReadAs
<1>1. n \in Nat /\ n <= 9999 /\ a \in Int /\ b \in Int /\ 0 \in Bit /\ 0 \in Int /\ 1000 \in Int
  BY CharSets DEF Small, Bit
<1>2. 1000 \in _CJK_SUB_WAN_PLACES
  BY DEF _CJK_SUB_WAN_PLACES
<1>4. Placed(n, 1000, a, w, 0, 1000, k, 0)
  <2>1. a # 0 /\ a = DigitAt(n, 1000) /\ w = Written(n, 1000)
    BY DEF IsWritten
  <2>2. 1000 = (IF a # 0 THEN 1000 ELSE 0)
    BY <2>1
  <2>3. 0 = IF a # 0 THEN 0 ELSE IF Skips(n, 1000) THEN 1 ELSE k
    BY <2>1
  <2> QED BY <2>1, <2>2, <2>3, SMT DEF Placed
<1>5. t \o w \in Texts
  BY TextProperties
<1>6. PICK sa \in Int : sa = 1000 * a
  BY <1>1
<1>7. Reads(t \o w) = State(sa, 0, 1000, 0)
  <2>1. Reads(t \o w) = State(0 + 1000 * a, 0, 1000, 0)
    BY <1>1, <1>2, <1>4, PlacedIsRead
  <2>2. 0 + 1000 * a = sa
    BY <1>1, <1>6 DEF AddsUp
  <2> QED BY <2>1, <2>2
<1>8. Total(Reads((t \o w) \o <<b>>)) = sa + b * 100
  <2>1. Worth(1000, 0) = 100 /\ 100 \in Int
    BY DEF Worth
  <2> QED BY <1>1, <1>5, <1>7, <2>1, TrailingIsRead
<1>9. (t \o w) \o z = t \o (w \o z)
  <2>1. t \in Lines /\ w \in Lines /\ z \in Lines
    BY LineProperties
  <2>2. Regrouped(t, w, z)
    BY <2>1, LineGroups
  <2> QED BY <2>2, SMT DEF Regrouped
<1>10. sa + b * 100 = m
  BY <1>1, <1>6 DEF AddsUp
<1>11. Total(Reads((t \o w) \o z)) = m
  <2>1. z = <<b>>
    BY DEF IsSingle
  <2> QED BY <1>8, <1>10, <2>1
<1> QED BY <1>9, <1>11, SMT

\* Thousands after 10 000, with nothing but their digit.
LEMMA ThousandsAreRead ==
    ASSUME NEW n \in Payable, n \div _WAN # 0, NEW a \in _CJK_DIGITS \ {0},
           NEW l \in Small, IsLow(n, l), IsSum(l, a, 0, 0, 0)
    PROVE  cjk_to_decimal((WrittenBelowWan(n \div _WAN) \o <<_WAN>>) \o <<a>>, TRUE) = n
<1>1. PICK h \in Small : h = n \div _WAN
  BY HalvesOf
<1>2. PICK r \in Texts : r = <<a>>
  BY TextProperties, CharSets
<1>3. a \in Nat /\ a > 0 /\ a <= 9 /\ h \in Nat /\ h <= 9999
  BY DEF _CJK_DIGITS, Small
<1>4. LowPart(r) = 1000 * a
  <2>1. <<>> \o <<a>> = <<a>>
    OBVIOUS
  <2>2. Reads(<<a>>) = State(0, a, 0, 0)
    <3>1. Reads(<<>> \o <<a>>) = Scan(State(0, 0, 0, 0), a)
      BY NothingRead, TextProperties, CharSets, ReadsOne
    <3>2. 0 \in Int /\ 0 \in Bit
      BY DEF Bit
    <3> QED BY <2>1, <3>1, <3>2, ScanDigit
  <2>3. Total(State(0, a, 0, 0)) = 0 + a * Worth(0, 0) /\ Worth(0, 0) = 1
    BY <1>3, TotalIs DEF Bit, Worth
  <2>4. _parse_sub_wan(r) = a
    BY <1>2, <1>3, <2>2, <2>3, SubWanIs
  <2>5. ~ _has_cjk_magnitude(r) /\ r # <<>> /\ r[1] \notin _CJK_SUB_WAN_PLACES
    BY <1>2, MagnitudeOfFew, MagnitudesAre
  <2>6. LowPart(r) = a * 1000
    BY <1>3, <2>4, <2>5 DEF LowPart, InThousands
  <2> QED BY <1>3, <2>6
<1>5. PICK x \in Texts : x = WrittenBelowWan(h)
  BY BelowIsText
<1>6. _parse_cjk_numeral((WrittenBelowWan(h) \o <<_WAN>>) \o r) = h * _WAN + LowPart(r)
  <2>1. LowPart(r) \in Nat /\ LowPart(r) <= 9999 /\ h # 0
    BY <1>1, <1>3, <1>4
  <2> QED BY <2>1, RestIsRead
<1>7. n = h * _WAN + 1000 * a /\ n \in Nat
  <2>1. n = h * _WAN + l
    BY <1>1, HalvesOf, Zenon DEF IsLow
  <2>2. l = 1000 * a
    BY <1>3 DEF IsSum
  <2> QED BY <2>1, <2>2 DEF Payable
<1>8. _has_cjk_magnitude((x \o <<_WAN>>) \o r)
  BY SplitHasMagnitude
<1>9. _parse_cjk_numeral((x \o <<_WAN>>) \o r) = n
  BY <1>4, <1>5, <1>6, <1>7
<1>10. cjk_to_decimal((x \o <<_WAN>>) \o r, TRUE) = n
  <2>1. n \in Nat
    BY DEF Payable
  <2> QED BY <1>8, <1>9, <2>1, NumeralIsRead
<1> QED BY <1>1, <1>2, <1>5, <1>10, Zenon

IsJoined(f, t, u) == f = t \o u

\* What the number below 10 000 ends in.
LEMMA BodyEnds ==
    ASSUME NEW l \in Small \ Teens,
           NEW w \in Texts, IsWritten(w, l, 1000), NEW x \in Texts, IsWritten(x, l, 100),
           NEW y \in Texts, IsWritten(y, l, 10)
    PROVE  /\ DigitAt(l, 1) # 0 => IsJoined(WrittenBelowWan(l), (w \o x) \o y, <<DigitAt(l, 1)>>)
           /\ DigitAt(l, 1) = 0 => IsJoined(WrittenBelowWan(l), w \o x, y)
<1>1. l \in Nat
  BY DEF Small
<1>2. PICK z : z = Written(l, 1)
  OBVIOUS
<1>3. WrittenBelowWan(l) = ((w \o x) \o y) \o z
  <2>1. WrittenBelowWan(l) = Body(l)
    BY BelowIs
  <2>2. Body(l) = ((w \o x) \o y) \o z
    BY <1>2 DEF Body, IsWritten
  <2> QED BY <2>1, <2>2, Zenon
<1>4. z = IF DigitAt(l, 1) # 0 THEN <<DigitAt(l, 1)>> ELSE <<>>
  BY <1>1, <1>2, DigitIs, WrittenOnes DEF Places
<1>5. w \o x \in Texts /\ (w \o x) \o y \in Texts
  BY TextProperties
<1>6. DigitAt(l, 1) # 0 => WrittenBelowWan(l) = ((w \o x) \o y) \o <<DigitAt(l, 1)>>
  BY <1>3, <1>4, SMT
<1>7. DigitAt(l, 1) = 0 => WrittenBelowWan(l) = (w \o x) \o y
  <2>1. ((w \o x) \o y) \o <<>> = (w \o x) \o y
    BY <1>5, TextProperties, SMT
  <2> QED BY <1>3, <1>4, <2>1, SMT
<1> QED BY <1>6, <1>7, SMT DEF IsJoined

\* What the whole number ends in.
LEMMA EndsAs ==
    ASSUME NEW n \in Payable, NEW l \in Small, IsLow(n, l), NEW g \in Texts, NEW x \in Low,
           WrittenBelowWan(l) = g \o <<x>>
    PROVE  /\ Opening(n) \in Lines /\ Opening(n) \o g \in Lines /\ x \in Chars
           /\ InFull(n) = (Opening(n) \o g) \o <<x>>
<1>1. PICK h \in Small : h = n \div _WAN
  BY HalvesOf
<1>2. Opening(n) \in Lines /\ InFull(n) = Opening(n) \o (g \o <<x>>)
  BY <1>1, OpeningIs, Zenon DEF IsLow
<1>3. g \in Lines /\ x \in Chars /\ <<x>> \in Lines
  BY LineProperties
<1>4. Regrouped(Opening(n), g, <<x>>)
  BY <1>2, <1>3, LineGroups
<1>5. Opening(n) \o g \in Lines
  BY <1>2, <1>3, LineProperties
<1> QED BY <1>2, <1>3, <1>4, <1>5, Zenon DEF Regrouped

\* A numeral that ends in a digit has no place to leave out.
LEMMA EndsInDigit ==
    ASSUME NEW n \in Payable, NEW l \in Small, IsLow(n, l), NEW g \in Texts, NEW d \in _CJK_DIGITS,
           WrittenBelowWan(l) = g \o <<d>>
    PROVE  Colloquial(n) = InFull(n)
<1>1. d \in Low /\ d \notin _CJK_SUB_WAN_PLACES
  BY CharSets, MagnitudesAre
<1>2. PICK e \in Lines : e = Opening(n) \o g
  BY <1>1, EndsAs
<1>3. InFull(n) = e \o <<d>> /\ d \in Chars
  BY <1>1, <1>2, EndsAs, Zenon
<1> QED BY <1>1, <1>3, ColloquialInFull

\* Two characters, one after the other.
LEMMA TwoChars == ASSUME NEW z, NEW x PROVE <<z>> \o <<x>> = <<z, x>>
<1>1. <<z>> \in Seq({z, x}) /\ <<z, x>> = Append(<<z>>, x)
  OBVIOUS
<1> QED BY <1>1, AppendIsConcat

\* When the last place of a numeral can be left out, by its last three
\* characters.
LEMMA EndsInPlace ==
    ASSUME NEW n \in Payable, NEW l \in Small, IsLow(n, l), NEW f \in Texts, NEW z \in _CJK_DIGITS,
           NEW x \in _CJK_SUB_WAN_PLACES, IsJoined(WrittenBelowWan(l), f, <<z, x>>),
           NEW y \in Int, TenTimes(y, x), NEW e, IsJoined(e, Opening(n), f)
    PROVE  /\ e \in Lines /\ Opening(n) \in Lines
           /\ Colloquial(n) = IF Len(e) >= 2 /\ LastOf(e) = y THEN e \o <<z>> ELSE InFull(n)
           /\ IsJoined(e \o <<z>>, Opening(n), f \o <<z>>)
<1>1. z \in Low /\ x \in Low /\ z \in Chars /\ x \in Chars /\ <<z>> \in Texts /\ f \in Lines
      /\ <<z>> \in Lines /\ <<x>> \in Lines
  BY CharSets, TextProperties, LineProperties
<1>2. PICK g \in Texts : g = f \o <<z>>
  BY <1>1, TextProperties
<1>3. WrittenBelowWan(l) = g \o <<x>>
  <2>1. <<z>> \o <<x>> = <<z, x>>
    BY TwoChars, Zenon
  <2>2. Regrouped(f, <<z>>, <<x>>)
    BY <1>1, LineGroups
  <2> QED BY <1>2, <2>1, <2>2, Zenon DEF Regrouped, IsJoined
<1>4. Opening(n) \in Lines /\ InFull(n) = (Opening(n) \o g) \o <<x>>
  BY <1>1, <1>3, EndsAs
<1>5. Regrouped(Opening(n), f, <<z>>) /\ e \in Lines
  BY <1>1, <1>4, LineGroups, LineProperties DEF IsJoined
<1>6. e \o <<z>> = Opening(n) \o (f \o <<z>>)
  BY <1>5, Zenon DEF Regrouped, IsJoined
<1>7. InFull(n) = (e \o <<z>>) \o <<x>>
  BY <1>2, <1>4, <1>6, Zenon
<1>8. Colloquial(n) = IF x \in _CJK_SUB_WAN_PLACES /\ Len(e) >= 2 /\ LastOf(e) = y
                      THEN e \o <<z>> ELSE InFull(n)
  BY <1>1, <1>5, <1>7, ColloquialIs
<1>9. IsJoined(e \o <<z>>, Opening(n), f \o <<z>>)
  BY <1>6, Zenon DEF IsJoined
<1> QED BY <1>1, <1>4, <1>5, <1>8, <1>9, Zenon

Fine(n) == Colloquial(n) = InFull(n) \/ cjk_to_decimal(Colloquial(n), TRUE) = n

\* Nothing after the 10 000.
LEMMA NothingAfter ==
    ASSUME NEW n \in Payable, IsLow(n, 0)
    PROVE  Colloquial(n) = InFull(n)
<1>1. PICK h \in Small : h = n \div _WAN
  BY HalvesOf
<1>2. h # 0
  <2>1. n # 0
    BY DEF Payable
  <2>2. n \div _WAN = 0 => n = n % _WAN
    <3>1. n = (n \div _WAN) * _WAN + (n % _WAN) /\ n % _WAN \in Nat /\ _WAN \in Nat
      BY HalvesOf DEF Small, _WAN
    <3>2. ASSUME n \div _WAN = 0 PROVE n = 0 * _WAN + (n % _WAN)
      BY <3>1, <3>2, Zenon
    <3>3. 0 * _WAN + (n % _WAN) = n % _WAN
      BY <3>1
    <3> QED BY <3>2, <3>3, Zenon
  <2> QED BY <1>1, <2>1, <2>2, Zenon DEF IsLow
<1>3. PICK x \in Texts : x = WrittenBelowWan(h)
  BY BelowIsText
<1>4. InFull(n) = (x \o <<_WAN>>) \o Rest(n)
  BY <1>1, <1>2, <1>3, InFullIs, Zenon
<1>5. Rest(n) = <<>>
  <2>1. 0 \in Small /\ 0 \in Nat
    BY DEF Small
  <2>2. WrittenBelowWan(n % _WAN) = <<>>
    BY <2>1, BelowBegins, Zenon DEF IsLow
  <2>3. Gap(n) = <<>>
    BY <2>1, GapIs DEF IsLow
  <2>4. <<>> \o <<>> = <<>>
    BY TextProperties, Zenon
  <2> QED BY <2>2, <2>3, <2>4, Zenon DEF Rest
<1>6. x \in Lines /\ x \o <<_WAN>> \in Lines /\ _WAN \in Chars /\ (x \o <<_WAN>>) \o <<>> = x \o <<_WAN>>
  BY LineProperties
<1>7. InFull(n) = x \o <<_WAN>>
  BY <1>4, <1>5, <1>6, Zenon
<1> QED BY <1>6, <1>7, WanIs, ColloquialInFull

\* The opening, where something comes after it.
LEMMA OpeningEnds ==
    ASSUME NEW n \in Payable, NEW l \in Small, IsLow(n, l), l # 0
    PROVE  /\ Opening(n) \in Lines
           /\ l <= 999 => Len(Opening(n)) < 2 \/ LastOf(Opening(n)) = 0
           /\ l > 999 => Len(Opening(n)) < 2 \/ LastOf(Opening(n)) = _WAN
<1>1. PICK h \in Small : h = n \div _WAN
  BY HalvesOf
<1>2. l \in Nat
  BY DEF Small
<1>3. Gap(n) = IF l # 0 /\ l <= 999 THEN <<0>> ELSE <<>>
  BY <1>2, GapIs DEF IsLow
<1>4. Opening(n) \in Lines /\ (h = 0 => Opening(n) = <<>>)
      /\ (h # 0 => LastOf(Opening(n)) = IF Gap(n) = <<>> THEN _WAN ELSE 0)
  BY <1>1, OpeningIs
<1>5. h = 0 => Len(Opening(n)) < 2
  BY <1>4
<1>6. l <= 999 => Gap(n) # <<>>
  BY <1>3
<1>7. l > 999 => Gap(n) = <<>>
  BY <1>2, <1>3
<1>8. l <= 999 => Len(Opening(n)) < 2 \/ LastOf(Opening(n)) = 0
  BY <1>4, <1>5, <1>6
<1>9. l > 999 => Len(Opening(n)) < 2 \/ LastOf(Opening(n)) = _WAN
  BY <1>4, <1>5, <1>7
<1> QED BY <1>4, <1>8, <1>9

\* Ten, eleven, up to nineteen.
LEMMA TeenAfter ==
    ASSUME NEW n \in Payable, NEW l \in Teens, IsLow(n, l)
    PROVE  Colloquial(n) = InFull(n)
<1>1. l \in Small /\ l # 0 /\ l <= 999
  BY DEF Small, Teens
<1>2. PICK d \in _CJK_DIGITS : WrittenBelowWan(l) = <<10>> \o (IF d # 0 THEN <<d>> ELSE <<>>)
  BY TeenIs
<1>3. 10 \in _CJK_SUB_WAN_PLACES /\ 10 \in Low /\ <<10>> \in Texts /\ <<>> \in Texts
  <2>1. 10 \in _CJK_SUB_WAN_PLACES
    BY DEF _CJK_SUB_WAN_PLACES
  <2> QED BY <2>1, CharSets, TextProperties
<1>4. CASE d # 0
  <2>1. WrittenBelowWan(l) = <<10>> \o <<d>>
    BY <1>2, <1>4, Zenon
  <2> QED BY <1>1, <1>3, <2>1, EndsInDigit, ZenonT(60)
<1>5. CASE d = 0
  <2>1. WrittenBelowWan(l) = <<>> \o <<10>>
    <3>1. <<10>> \in Lines
      BY <1>3, LineProperties
    <3>2. <<10>> \o <<>> = <<>> \o <<10>>
      BY <3>1, LineProperties
    <3> QED BY <1>2, <1>5, <3>2, Zenon
  <2>2. PICK p \in Lines : p = Opening(n)
    BY <1>1, OpeningEnds
  <2>3. InFull(n) = p \o <<10>> /\ 10 \in Chars
    <3>1. InFull(n) = (Opening(n) \o <<>>) \o <<10>>
      BY <1>1, <1>3, <2>1, EndsAs, ZenonT(60)
    <3>2. p \o <<>> = p
      BY LineProperties
    <3> QED BY <1>3, <2>2, <3>1, <3>2, LineProperties, Zenon
  <2>4. CASE n \div _WAN = 0
    <3>1. Len(p) < 3
      <4>1. p = <<>>
        BY <2>2, <2>4, Zenon DEF Opening
      <4> QED BY <4>1
    <3> QED BY <2>3, <3>1, ColloquialInFull
  <2>5. CASE n \div _WAN # 0
    <3>1. PICK x \in Texts : x = WrittenBelowWan(n \div _WAN)
      BY HalvesOf, BelowIsText
    <3>2. PICK e \in Lines : e = x \o <<_WAN>>
      BY LineProperties
    <3>3. Gap(n) = <<0>>
      BY <1>1, GapIs DEF IsLow, Small
    <3>4. p = e \o <<0>>
      BY <2>2, <2>5, <3>1, <3>2, <3>3, Zenon DEF Opening
    <3>5. InFull(n) = (e \o <<0>>) \o <<10>> /\ 0 \in Chars
      BY <2>3, <3>4, CharSets, LineProperties, Zenon
    <3>6. LastOf(e) # 100
      <4>1. x \in Lines /\ LastOf(x \o <<_WAN>>) = _WAN
        BY LineLess, LineProperties
      <4>2. _WAN # 100
        BY DEF _WAN
      <4> QED BY <3>2, <4>1, <4>2, Zenon
    <3>7. PICK y \in Int : TenTimes(y, 10) /\ y = 100
      BY DEF TenTimes
    <3>8. PICK z \in Chars : z = 0
      BY <3>5
    <3>9. PICK t \in Chars : t = 10
      BY <2>3
    <3>10. InFull(n) = (e \o <<z>>) \o <<t>> /\ TenTimes(y, t) /\ LastOf(e) # y
      BY <3>5, <3>6, <3>7, <3>8, <3>9, Zenon
    <3>11. Colloquial(n) = IF t \in _CJK_SUB_WAN_PLACES /\ Len(e) >= 2 /\ LastOf(e) = y
                           THEN e \o <<z>> ELSE InFull(n)
      BY <3>10, ColloquialIs
    <3> QED BY <3>10, <3>11, Zenon
  <2> QED BY <2>4, <2>5
<1> QED BY <1>4, <1>5

HasDigits(l, a, b, c, d) ==
    DigitAt(l, 1000) = a /\ DigitAt(l, 100) = b /\ DigitAt(l, 10) = c /\ DigitAt(l, 1) = d

\* The text of a number that has no tens and no ones.
LEMMA EndsInHundreds ==
    ASSUME NEW l \in Small \ Teens, DigitAt(l, 1) = 0, DigitAt(l, 10) = 0,
           NEW w \in Texts, IsWritten(w, l, 1000), NEW x \in Texts, IsWritten(x, l, 100)
    PROVE  /\ IsJoined(WrittenBelowWan(l), w, x)
           /\ DigitAt(l, 100) = 0 => WrittenBelowWan(l) = w
<1>1. l \in Nat /\ 10 \in Places /\ 10 \in _CJK_SUB_WAN_PLACES /\ 100 \in _CJK_SUB_WAN_PLACES
  BY DEF Small, Places, _CJK_SUB_WAN_PLACES
<1>2. PICK y \in Texts : IsWritten(y, l, 10)
  BY <1>1, WrittenIsLow DEF IsWritten
<1>3. IsJoined(WrittenBelowWan(l), w \o x, y)
  BY <1>2, BodyEnds, ZenonT(60)
<1>4. 10 \div 10 = 1 /\ 100 \div 10 = 10
  OBVIOUS
<1>5. y = <<>>
  <2>1. ~ Skips(l, 10)
    BY <1>4 DEF Skips
  <2> QED BY <1>1, <1>2, <2>1, WrittenAs DEF IsWritten
<1>6. DigitAt(l, 100) = 0 => x = <<>>
  <2>1. ~ Skips(l, 100)
    BY <1>4 DEF Skips
  <2> QED BY <1>1, <2>1, WrittenAs DEF IsWritten
<1>7. w \o x \in Texts /\ (w \o x) \o <<>> = w \o x /\ w \o <<>> = w
  BY TextProperties, SMT
<1>8. WrittenBelowWan(l) = w \o x
  BY <1>3, <1>5, <1>7, SMT DEF IsJoined
<1> QED BY <1>6, <1>7, <1>8, ZenonT(60) DEF IsJoined

\* The place 1000 is never skipped, and 100 only after thousands.
LEMMA UpperPlaces ==
    ASSUME NEW l \in Small, NEW a \in _CJK_DIGITS, NEW b \in _CJK_DIGITS,
           NEW c \in _CJK_DIGITS, NEW d \in _CJK_DIGITS, HasDigits(l, a, b, c, d), IsSum(l, a, b, c, d),
           NEW w \in Texts, IsWritten(w, l, 1000), NEW x \in Texts, IsWritten(x, l, 100)
    PROVE  /\ a # 0 => w = <<a, 1000>>
           /\ a = 0 => w = <<>>
           /\ b # 0 => x = <<b, 100>>
           /\ b = 0 => x = <<0>> \/ x = <<>>
           /\ b = 0 /\ c # 0 /\ x = <<>> => a = 0
           /\ a = 0 => l <= 999
           /\ a # 0 => l > 999
<1>1. l \in Nat /\ l <= 9999 /\ a \in Nat /\ b \in Nat /\ c \in Nat /\ d \in Nat
      /\ a <= 9 /\ b <= 9 /\ c <= 9 /\ d <= 9
  BY DEF Small, _CJK_DIGITS
<1>2. 100 \in _CJK_SUB_WAN_PLACES /\ 1000 \in _CJK_SUB_WAN_PLACES
  BY DEF _CJK_SUB_WAN_PLACES
<1>3. ~ Skips(l, 1000)
  BY <1>1 DEF Skips
<1>4. b = 0 /\ c # 0 /\ x = <<>> => ~ Skips(l, 100)
  <2>1. DigitAt(l, 100) = 0 /\ Skips(l, 100) => Written(l, 100) = <<0>>
    BY <1>1, <1>2, WrittenAs
  <2>2. <<0>> # <<>>
    OBVIOUS
  <2>3. b = 0 => DigitAt(l, 100) = 0
    BY DEF HasDigits
  <2>4. x = Written(l, 100)
    BY DEF IsWritten
  <2> QED BY <2>1, <2>2, <2>3, <2>4, ZenonT(60)
<1>5. c # 0 /\ l > 1000 => Skips(l, 100)
  <2>1. 100 \div 10 = 10 /\ 10 * 100 = 1000
    OBVIOUS
  <2>2. DigitAt(l, 100 \div 10) = c
    <3>1. DigitAt(l, 10) = c
      BY DEF HasDigits
    <3>2. DigitAt(l, 100 \div 10) = DigitAt(l, 10)
      BY <2>1
    <3> QED BY <3>1, <3>2, SMT
  <2>3. l > 1000 => l > 10 * 100
    BY <2>1, SMT
  <2> QED BY <2>2, <2>3, SMT DEF Skips
<1>6. a # 0 /\ c # 0 => l > 1000
  BY <1>1 DEF IsSum
<1>7. (a = 0 => l <= 999) /\ (a # 0 => l > 999)
  BY <1>1 DEF IsSum
<1>8. (a # 0 => w = <<a, 1000>>) /\ (a = 0 => w = <<>>)
  <2>1. /\ DigitAt(l, 1000) # 0 => Written(l, 1000) = <<DigitAt(l, 1000), 1000>>
        /\ DigitAt(l, 1000) = 0 /\ ~ Skips(l, 1000) => Written(l, 1000) = <<>>
    BY <1>1, <1>2, WrittenAs
  <2> QED BY <1>3, <2>1 DEF IsWritten, HasDigits
<1>9. (b # 0 => x = <<b, 100>>) /\ (b = 0 => x = <<0>> \/ x = <<>>)
  <2>1. /\ DigitAt(l, 100) # 0 => Written(l, 100) = <<DigitAt(l, 100), 100>>
        /\ DigitAt(l, 100) = 0 /\ Skips(l, 100) => Written(l, 100) = <<0>>
        /\ DigitAt(l, 100) = 0 /\ ~ Skips(l, 100) => Written(l, 100) = <<>>
    BY <1>1, <1>2, WrittenAs
  <2> QED BY <2>1 DEF IsWritten, HasDigits
<1> QED BY <1>4, <1>5, <1>6, <1>7, <1>8, <1>9

\* What is left of a number, where its last place is dropped.
LEMMA CutIsFine ==
    ASSUME NEW n \in Payable, NEW l \in Small, IsLow(n, l), NEW f \in Texts, NEW z \in _CJK_DIGITS,
           NEW x \in _CJK_SUB_WAN_PLACES, IsJoined(WrittenBelowWan(l), f, <<z, x>>),
           NEW y \in Int, TenTimes(y, x),
           NEW p \in _CJK_SUB_WAN_PLACES, NEW g \in Texts, NEW b \in _CJK_DIGITS,
           IsJoined(f, g, <<b, p>>), g = <<>> \/ g[1] \in _CJK_DIGITS,
           ReadAs(f \o <<z>>, l)
    PROVE  Fine(n)
<1>1. z \in Low /\ <<z>> \in Texts /\ b \in Low /\ p \in Low /\ <<b, p>> \in Texts
  BY CharSets, TextProperties
<1>2. f # <<>> /\ f[1] \in _CJK_DIGITS /\ _has_cjk_magnitude(f)
  <2>1. <<b, p>> # <<>> /\ <<b, p>>[1] = b
    OBVIOUS
  <2>2. _has_cjk_magnitude(<<b, p>>)
    BY MagnitudeOfFew, MagnitudesAre
  <2>3. _has_cjk_magnitude(g \o <<b, p>>)
    BY <1>1, <2>2, MagnitudeOfConcat
  <2>4. CASE g = <<>>
    <3>1. <<b, p>> \in Lines
      BY <1>1, LineProperties
    <3>2. f = <<b, p>>
      BY <2>4, <3>1, LineProperties, Zenon DEF IsJoined
    <3> QED BY <2>1, <2>2, <3>2, Zenon
  <2>5. CASE g # <<>>
    <3>1. g \o <<b, p>> # <<>> /\ (g \o <<b, p>>)[1] = g[1]
      BY <1>1, <2>5, BeginsAs
    <3> QED BY <2>3, <2>5, <3>1, Zenon DEF IsJoined
  <2> QED BY <2>4, <2>5
<1>3. PICK u \in Texts : u = f \o <<z>>
  BY <1>1, TextProperties
<1>4. u # <<>> /\ u[1] \in _CJK_DIGITS /\ _has_cjk_magnitude(u)
  <2>1. f \o <<z>> # <<>> /\ (f \o <<z>>)[1] = f[1]
    BY <1>1, <1>2, BeginsAs
  <2>2. _has_cjk_magnitude(f \o <<z>>)
    BY <1>1, <1>2, MagnitudeOfConcat
  <2> QED BY <1>2, <1>3, <2>1, <2>2, Zenon
<1>5. cjk_to_decimal(Opening(n) \o u, TRUE) = n
  <2>1. ReadAs(u, l)
    BY <1>3, Zenon
  <2> QED BY <1>4, <2>1, ShortIsRead DEF IsLow
<1>6. PICK e : IsJoined(e, Opening(n), f)
  BY DEF IsJoined
<1>7. Colloquial(n) \in {e \o <<z>>, InFull(n)} /\ IsJoined(e \o <<z>>, Opening(n), f \o <<z>>)
  <2>1. Colloquial(n) = IF Len(e) >= 2 /\ LastOf(e) = y THEN e \o <<z>> ELSE InFull(n)
    BY <1>6, EndsInPlace
  <2>2. IsJoined(e \o <<z>>, Opening(n), f \o <<z>>)
    BY <1>6, EndsInPlace
  <2> QED BY <2>1, <2>2, Zenon
<1> QED BY <1>3, <1>5, <1>7, Zenon DEF Fine, IsJoined

\* Where the text before the last place does not end in the place above it.
LEMMA NotCut ==
    ASSUME NEW n \in Payable, NEW l \in Small, IsLow(n, l), NEW f \in Texts, NEW z \in _CJK_DIGITS,
           NEW x \in _CJK_SUB_WAN_PLACES, IsJoined(WrittenBelowWan(l), f, <<z, x>>),
           NEW y \in Int, TenTimes(y, x), y # 0,
           \/ f # <<>> /\ LastOf(f) # y
           \/ f = <<>> /\ l # 0 /\ (IF l <= 999 THEN TRUE ELSE y # _WAN)
    PROVE  Fine(n)
<1>1. PICK e : IsJoined(e, Opening(n), f)
  BY ZenonT(60) DEF IsJoined
<1>2. /\ e \in Lines /\ Opening(n) \in Lines
      /\ Colloquial(n) = IF Len(e) >= 2 /\ LastOf(e) = y THEN e \o <<z>> ELSE InFull(n)
  BY <1>1, EndsInPlace
<1>3. ~ (Len(e) >= 2 /\ LastOf(e) = y)
  <2>1. CASE f # <<>> /\ LastOf(f) # y
    <3>1. f \in Lines
      BY LineProperties
    <3>2. LastOf(Opening(n) \o f) = LastOf(f)
      BY <1>2, <2>1, <3>1, LineConcat
    <3> QED BY <1>1, <2>1, <3>2, Zenon DEF IsJoined
  <2>2. CASE f = <<>> /\ l # 0 /\ (IF l <= 999 THEN TRUE ELSE y # _WAN)
    <3>1. e = Opening(n)
      BY <1>1, <1>2, <2>2, LineProperties, SMT DEF IsJoined
    <3>2. /\ l <= 999 => Len(Opening(n)) < 2 \/ LastOf(Opening(n)) = 0
          /\ l > 999 => Len(Opening(n)) < 2 \/ LastOf(Opening(n)) = _WAN
      BY <2>2, OpeningEnds
    <3>3. (l <= 999 \/ l > 999) /\ (Len(e) < 2 => ~ (Len(e) >= 2))
      BY <1>2, LineProperties DEF Small
    <3> QED BY <2>2, <3>1, <3>2, <3>3
  <2> QED BY <2>1, <2>2
<1> QED BY <1>2, <1>3, ZenonT(60) DEF Fine

\* A number that ends in its tens, its hundreds or its thousands.
LEMMA TensCut ==
    ASSUME NEW n \in Payable, NEW l \in Small \ Teens, IsLow(n, l),
           NEW a \in _CJK_DIGITS, NEW b \in _CJK_DIGITS, NEW c \in _CJK_DIGITS \ {0},
           HasDigits(l, a, b, c, 0), IsSum(l, a, b, c, 0)
    PROVE  Fine(n)
<1>1. l \in Nat /\ 10 \in _CJK_SUB_WAN_PLACES /\ 100 \in _CJK_SUB_WAN_PLACES
      /\ 1000 \in Places /\ 100 \in Places /\ l # 0
  BY DEF Small, _CJK_SUB_WAN_PLACES, Places, IsSum, _CJK_DIGITS
<1>2. PICK w \in Texts : IsWritten(w, l, 1000)
  BY <1>1, WrittenIsLow DEF IsWritten
<1>3. PICK x \in Texts : IsWritten(x, l, 100)
  BY <1>1, WrittenIsLow DEF IsWritten
<1>4. PICK f \in Texts : f = w \o x
  BY TextProperties
<1>5. IsJoined(WrittenBelowWan(l), f, <<c, 10>>)
  <2>1. PICK y \in Texts : IsWritten(y, l, 10)
    BY <1>1, CharSets, WrittenIsLow DEF IsWritten
  <2>2. y = <<c, 10>>
    BY <1>1, <2>1, WrittenAs DEF IsWritten, HasDigits
  <2>3. 0 \in _CJK_DIGITS
    BY CharSets
  <2>4. IsJoined(WrittenBelowWan(l), w \o x, y)
    <3>1. DigitAt(l, 1) = 0
      BY DEF HasDigits
    <3> QED BY <1>2, <1>3, <2>1, <3>1, BodyEnds, ZenonT(60)
  <2> QED BY <1>4, <2>2, <2>4, Zenon
<1>6. PICK h \in Int : TenTimes(h, 10) /\ h = 100
  BY DEF TenTimes
<1>7. /\ a # 0 => w = <<a, 1000>>
      /\ a = 0 => w = <<>>
      /\ b # 0 => x = <<b, 100>>
      /\ b = 0 => x = <<0>> \/ x = <<>>
      /\ b = 0 /\ x = <<>> => a = 0
      /\ a = 0 => l <= 999
  <2>1. 0 \in _CJK_DIGITS
    BY CharSets
  <2> QED BY <1>2, <1>3, <2>1, UpperPlaces
<1>8. CASE b # 0
  <2>1. IsJoined(f, w, <<b, 100>>)
    <3>1. x = <<b, 100>>
      BY <1>7, <1>8, SMT
    <3> QED BY <1>4, <3>1, Zenon DEF IsJoined
  <2>2. w = <<>> \/ w[1] \in _CJK_DIGITS
    <3>1. a # 0 => w[1] = a
      BY <1>7
    <3> QED BY <1>7, <3>1
  <2>3. PICK z \in Texts : IsSingle(z, c)
    BY CharSets, TextProperties DEF IsSingle
  <2>4. PICK m \in Int : AddsUp(m, a, b, c) /\ m = l
    <3>1. l = 1000 * a + 100 * b + 10 * c
      BY <1>1, CharSets DEF IsSum
    <3> QED BY <1>1, <3>1 DEF AddsUp
  <2>5. ReadAs((w \o x) \o z, m)
    BY <1>2, <1>3, <1>8, <2>3, <2>4, TensAreRead DEF HasDigits
  <2>6. ReadAs(f \o <<c>>, l)
    <3>1. m = l /\ z = <<c>>
      BY <2>3, <2>4 DEF IsSingle
    <3>2. ReadAs(f \o z, m)
      BY <1>4, <2>5, Zenon
    <3> QED BY <3>1, <3>2, Zenon
  <2> QED BY <1>1, <1>5, <1>6, <2>1, <2>2, <2>6, CutIsFine
<1>9. CASE b = 0 /\ x = <<0>>
  <2>1. f # <<>> /\ LastOf(f) = 0
    <3>1. w \in Lines /\ x \in Lines /\ x # <<>> /\ LastOf(x) = 0
      BY <1>9, LineProperties DEF LastOf
    <3>2. LastOf(w \o x) = LastOf(x) /\ Len(w \o x) = Len(w) + Len(x)
      BY <3>1, LineConcat
    <3>3. Len(x) = 1 /\ Len(w) \in Nat /\ f \in Lines
      BY <1>9, <3>1, LineProperties
    <3>4. Len(f) # 0
      <4>1. Len(w) + Len(x) # 0
        BY <3>3
      <4> QED BY <1>4, <3>2, <4>1, Zenon
    <3> QED BY <1>4, <3>1, <3>2, <3>3, <3>4, LineProperties, Zenon
  <2>2. h # 0 /\ LastOf(f) # h
    BY <1>6, <2>1
  <2> QED BY <1>1, <1>5, <1>6, <2>1, <2>2, NotCut
<1>10. CASE b = 0 /\ x = <<>>
  <2>1. f = <<>> /\ l <= 999
    <3>1. w = <<>> /\ x = <<>> /\ l <= 999
      BY <1>7, <1>10
    <3>2. <<>> \o <<>> = <<>>
      BY TextProperties, Zenon
    <3> QED BY <1>4, <3>1, <3>2, SMT
  <2>2. h # 0
    BY <1>6
  <2> QED BY <1>1, <1>5, <1>6, <2>1, <2>2, NotCut
<1> QED BY <1>7, <1>8, <1>9, <1>10

\* A number that ends in hundreds is read back without the last place.
LEMMA HundredsCut ==
    ASSUME NEW n \in Payable, NEW l \in Small \ Teens, IsLow(n, l),
           NEW a \in _CJK_DIGITS, NEW b \in _CJK_DIGITS \ {0},
           HasDigits(l, a, b, 0, 0), IsSum(l, a, b, 0, 0)
    PROVE  Fine(n)
<1>1. l \in Nat /\ 10 \in Places /\ 100 \in _CJK_SUB_WAN_PLACES /\ 1000 \in _CJK_SUB_WAN_PLACES
      /\ 1000 \in Places /\ 100 \in Places /\ l # 0 /\ 0 \in _CJK_DIGITS
  BY DEF Small, _CJK_SUB_WAN_PLACES, Places, IsSum, _CJK_DIGITS
<1>2. PICK w \in Texts : IsWritten(w, l, 1000)
  BY <1>1, WrittenIsLow DEF IsWritten
<1>3. PICK x \in Texts : IsWritten(x, l, 100)
  BY <1>1, WrittenIsLow DEF IsWritten
<1>4. /\ a # 0 => w = <<a, 1000>>
      /\ a = 0 => w = <<>>
      /\ b # 0 => x = <<b, 100>>
      /\ a = 0 => l <= 999
  BY <1>1, <1>2, <1>3, UpperPlaces
<1>5. IsJoined(WrittenBelowWan(l), w, <<b, 100>>)
  <2>2. IsJoined(WrittenBelowWan(l), w, x)
    <3>1. DigitAt(l, 10) = 0 /\ DigitAt(l, 1) = 0
      BY DEF HasDigits
    <3> QED BY <1>2, <1>3, <3>1, EndsInHundreds
  <2> QED BY <1>4, <2>2, SMT
<1>6. PICK h \in Int : TenTimes(h, 100) /\ h = 1000
  BY DEF TenTimes
<1>7. CASE a # 0
  <2>1. IsJoined(w, <<>>, <<a, 1000>>)
    <3>1. w = <<a, 1000>> /\ w \in Lines
      BY <1>4, <1>7, LineProperties
    <3>2. <<>> \o w = w
      BY <3>1, LineProperties
    <3> QED BY <3>1, <3>2, SMT DEF IsJoined
  <2>2. PICK z \in Texts : IsSingle(z, b)
    BY CharSets, TextProperties DEF IsSingle
  <2>3. PICK m \in Int : AddsUp(m, a, b, 0) /\ m = l
    <3>1. l = 1000 * a + 100 * b + 10 * 0
      BY <1>1, CharSets DEF IsSum
    <3> QED BY <1>1, <3>1 DEF AddsUp
  <2>4. ReadAs(w \o z, m)
    BY <1>2, <1>7, <2>2, <2>3, HundredsAreRead DEF HasDigits
  <2>5. ReadAs(w \o <<b>>, l)
    <3>1. m = l /\ z = <<b>>
      BY <2>2, <2>3 DEF IsSingle
    <3> QED BY <2>4, <3>1, Zenon
  <2>6. <<>> \in Texts
    BY TextProperties
  <2> QED BY <1>1, <1>5, <1>6, <2>1, <2>5, <2>6, CutIsFine
<1>8. CASE a = 0
  <2>1. w = <<>> /\ l <= 999 /\ h # 0
    BY <1>4, <1>6, <1>8
  <2> QED BY <1>1, <1>5, <1>6, <2>1, NotCut
<1> QED BY <1>7, <1>8

\* A number that ends in thousands has no place to leave out, or is read back
\* without it.
LEMMA ThousandsCut ==
    ASSUME NEW n \in Payable, NEW l \in Small \ Teens, IsLow(n, l), NEW a \in _CJK_DIGITS \ {0},
           HasDigits(l, a, 0, 0, 0), IsSum(l, a, 0, 0, 0)
    PROVE  Fine(n)
<1>1. l \in Nat /\ 10 \in Places /\ 1000 \in _CJK_SUB_WAN_PLACES /\ 1000 \in Places /\ 100 \in Places
      /\ l # 0 /\ 0 \in _CJK_DIGITS /\ a \in Low /\ a \in Nat /\ l > 999 /\ l = 1000 * a
  BY CharSets DEF Small, _CJK_SUB_WAN_PLACES, Places, IsSum, _CJK_DIGITS
<1>2. PICK w \in Texts : IsWritten(w, l, 1000)
  BY <1>1, WrittenIsLow DEF IsWritten
<1>3. PICK x \in Texts : IsWritten(x, l, 100)
  BY <1>1, WrittenIsLow DEF IsWritten
<1>4. IsJoined(WrittenBelowWan(l), <<>>, <<a, 1000>>)
  <2>2. WrittenBelowWan(l) = w
    <3>1. DigitAt(l, 100) = 0 /\ DigitAt(l, 10) = 0 /\ DigitAt(l, 1) = 0
      BY DEF HasDigits
    <3> QED BY <1>2, <1>3, <3>1, EndsInHundreds
  <2>3. w = <<a, 1000>>
    BY <1>1, <1>2, <1>3, UpperPlaces
  <2>4. IsJoined(w, <<>>, w)
    BY LineProperties, Zenon DEF IsJoined
  <2> QED BY <2>2, <2>3, <2>4
<1>5. PICK h \in Int : TenTimes(h, 1000) /\ h = 10000
  BY DEF TenTimes
<1>6. PICK e : IsJoined(e, Opening(n), <<>>)
  BY DEF IsJoined
<1>7. /\ Opening(n) \in Lines
      /\ Colloquial(n) = IF Len(e) >= 2 /\ LastOf(e) = h THEN e \o <<a>> ELSE InFull(n)
  <2>1. <<>> \in Texts
    BY TextProperties
  <2> QED BY <1>1, <1>4, <1>5, <1>6, <2>1, EndsInPlace
<1>8. e = Opening(n)
  BY <1>6, <1>7, LineProperties, Zenon DEF IsJoined
<1>9. CASE n \div _WAN = 0
  <2>1. e = <<>>
    BY <1>8, <1>9, Zenon DEF Opening
  <2>2. Len(<<>>) = 0 /\ ~ (0 >= 2)
    OBVIOUS
  <2> QED BY <1>7, <2>1, <2>2, Zenon DEF Fine
<1>10. CASE n \div _WAN # 0
  <2>1. cjk_to_decimal((WrittenBelowWan(n \div _WAN) \o <<_WAN>>) \o <<a>>, TRUE) = n
    BY <1>10, ThousandsAreRead
  <2>2. e = WrittenBelowWan(n \div _WAN) \o <<_WAN>>
    <3>1. Gap(n) = <<>>
      BY <1>1, GapIs DEF IsLow
    <3>2. PICK t \in Texts : t = WrittenBelowWan(n \div _WAN)
      BY HalvesOf, BelowIsText
    <3>3. t \o <<_WAN>> \in Lines
      BY LineProperties
    <3>4. (t \o <<_WAN>>) \o <<>> = t \o <<_WAN>>
      BY <3>3, LineProperties, Zenon
    <3>5. e = (WrittenBelowWan(n \div _WAN) \o <<_WAN>>) \o <<>>
      BY <1>8, <1>10, <3>1, Zenon DEF Opening
    <3> QED BY <3>2, <3>4, <3>5, Zenon
  <2> QED BY <1>7, <2>1, <2>2, Zenon DEF Fine
<1> QED BY <1>9, <1>10

\* What is said without its last place is understood, for every amount.
LEMMA ColloquialIsFine == ASSUME NEW n \in Payable PROVE Fine(n)
<1>1. PICK l \in Small : IsLow(n, l)
  BY HalvesOf DEF IsLow
<1>2. CASE l = 0
  BY <1>1, <1>2, NothingAfter DEF Fine
<1>3. CASE l \in Teens
  BY <1>1, <1>3, TeenAfter DEF Fine
<1>4. CASE l # 0 /\ l \notin Teens
  <2>1. l \in Small \ Teens
    BY <1>4
  <2>2. PICK a, b, c, d \in _CJK_DIGITS : HasDigits(l, a, b, c, d) /\ IsSum(l, a, b, c, d)
    BY ItsDigits DEF HasDigits, IsSum
  <2>3. CASE d # 0
    <3>1. l \in Nat /\ 1000 \in Places /\ 100 \in Places /\ 10 \in Places
      BY DEF Small, Places, _CJK_SUB_WAN_PLACES
    <3>2. PICK w \in Texts : IsWritten(w, l, 1000)
      BY <3>1, WrittenIsLow DEF IsWritten
    <3>3. PICK x \in Texts : IsWritten(x, l, 100)
      BY <3>1, WrittenIsLow DEF IsWritten
    <3>4. PICK y \in Texts : IsWritten(y, l, 10)
      BY <3>1, WrittenIsLow DEF IsWritten
    <3>5. IsJoined(WrittenBelowWan(l), (w \o x) \o y, <<DigitAt(l, 1)>>)
      BY <2>1, <2>2, <2>3, <3>2, <3>3, <3>4, BodyEnds DEF HasDigits
    <3>6. PICK g \in Texts : g = (w \o x) \o y
      BY TextProperties
    <3>7. WrittenBelowWan(l) = g \o <<d>>
      <4>1. DigitAt(l, 1) = d
        BY <2>2 DEF HasDigits
      <4> QED BY <3>5, <3>6, <4>1, Zenon DEF IsJoined
    <3> QED BY <1>1, <3>7, EndsInDigit DEF Fine
  <2>4. CASE d = 0 /\ c # 0
    BY <1>1, <2>1, <2>2, <2>4, TensCut
  <2>5. CASE d = 0 /\ c = 0 /\ b # 0
    BY <1>1, <2>1, <2>2, <2>5, HundredsCut
  <2>6. CASE d = 0 /\ c = 0 /\ b = 0
    <3>1. a # 0
      <4>1. a = 0 => l = 0
        BY <2>2, <2>6 DEF IsSum
      <4> QED BY <1>4, <4>1
    <3> QED BY <1>1, <2>1, <2>2, <2>6, <3>1, ThousandsCut
  <2> QED BY <2>3, <2>4, <2>5, <2>6
<1> QED BY <1>2, <1>3, <1>4

\* Arabic digits go past the numerals.
LEMMA MixedOnly ==
    ASSUME NEW text, 1 \in DOMAIN text, IsArabic(text[1]), text[1] \in Int
    PROVE  cjk_to_decimal(text, TRUE) = _parse_mixed_amount(text)
<1>1. text[1] \notin _CJK_DIGITS
  BY DEF IsArabic, _CJK_DIGITS
<1>2. _parse_cjk_numeral(text) = NoValue
  BY Zenon DEF _parse_cjk_numeral
<1> QED BY <1>1, <1>2, Zenon DEF cjk_to_decimal, OrMixed

\* Amounts are in the parser's range.
LEMMA AmountInRange == ASSUME NEW n \in Payable PROVE InRange(n) = n
BY DEF Payable, InRange

Opens(text, k) ==
    /\ 1 \in DOMAIN text /\ IsArabic(text[1]) /\ text[1] \in Int /\ -text[1] = k

\* A text of up to four characters that opens with an Arabic number.
LEMMA OpensAs ==
    ASSUME NEW k \in Nat, k >= 1
    PROVE  /\ Opens(<<-k>>, k)
           /\ \A x : Opens(<<-k, x>>, k)
           /\ \A x, y : Opens(<<-k, x, y>>, k)
           /\ \A x, y, z : Opens(<<-k, x, y, z>>, k)
BY DEF Opens, IsArabic

IsOneMixed(text) == Len(text) = 1
SplitValue(k, j) == k * _WAN + j * 1000
IsTwoMixed(text, m) == Len(text) = 2 /\ text[2] = m /\ IsMagnitude(m)
IsSplitMixed(text, j) ==
    /\ text[2] = _WAN /\ IsArabic(text[3]) /\ -text[3] = j
    /\ \/ Len(text) = 3 /\ j <= 9
       \/ Len(text) = 4 /\ text[4] = 1000

\* A lone Arabic number is read by the mixed reading.
LEMMA OneIs ==
    ASSUME NEW text, NEW k \in Payable, Opens(text, k), IsOneMixed(text)
    PROVE  cjk_to_decimal(text, TRUE) = k
<1>1. 1 \in DOMAIN text /\ IsArabic(text[1]) /\ text[1] \in Int /\ -text[1] = k
  BY DEF Opens
<1>2. _parse_mixed_amount(text) = InRange(k)
  BY <1>1 DEF IsOneMixed, _parse_mixed_amount
<1> QED BY <1>1, <1>2, MixedOnly, AmountInRange

\* So is an Arabic number with a magnitude.
LEMMA TwoAre ==
    ASSUME NEW text, NEW k \in Nat, Opens(text, k), NEW m, IsTwoMixed(text, m), k * m \in Payable
    PROVE  cjk_to_decimal(text, TRUE) = k * m
<1>1. 1 \in DOMAIN text /\ IsArabic(text[1]) /\ text[1] \in Int /\ -text[1] = k
  BY DEF Opens
<1>2. _parse_mixed_amount(text) = InRange(k * m)
  BY <1>1 DEF IsTwoMixed, _parse_mixed_amount
<1>3. InRange(k * m) = k * m
  BY AmountInRange
<1>4. cjk_to_decimal(text, TRUE) = _parse_mixed_amount(text)
  BY <1>1, MixedOnly
<1> QED BY <1>2, <1>3, <1>4, Zenon

\* So is one with Arabic numbers before and after the 10 000.
LEMMA SplitIs ==
    ASSUME NEW text, NEW k \in Nat, Opens(text, k), NEW j \in Nat, IsSplitMixed(text, j),
           SplitValue(k, j) \in Payable
    PROVE  cjk_to_decimal(text, TRUE) = SplitValue(k, j)
<1>1. 1 \in DOMAIN text /\ IsArabic(text[1]) /\ text[1] \in Int /\ -text[1] = k
  BY DEF Opens
<1>2. _parse_mixed_amount(text) = InRange(SplitValue(k, j))
  <2>1. 1000 \in _CJK_SUB_WAN_PLACES
    BY DEF _CJK_SUB_WAN_PLACES
  <2> QED BY <1>1, <2>1 DEF IsSplitMixed, SplitValue, _parse_mixed_amount
<1>3. InRange(SplitValue(k, j)) = SplitValue(k, j)
  BY AmountInRange
<1>4. cjk_to_decimal(text, TRUE) = _parse_mixed_amount(text)
  BY <1>1, MixedOnly
<1> QED BY <1>2, <1>3, <1>4, Zenon

\* The two ways of writing the latter.
LEMMA SplitForms ==
    ASSUME NEW k \in Nat, k >= 1, NEW j \in Nat, j >= 1, j <= 9
    PROVE  /\ Opens(<<-k, _WAN, -j>>, k) /\ Opens(<<-k, _WAN, -j, 1000>>, k)
           /\ IsSplitMixed(<<-k, _WAN, -j>>, j)
           /\ IsSplitMixed(<<-k, _WAN, -j, 1000>>, j)
<1>1. IsArabic(-j) /\ -(-j) = j
  BY DEF IsArabic
<1>2. PICK i : i = -j
  OBVIOUS
<1>3. IsSplitMixed(<<-k, _WAN, i>>, j)
  BY <1>1, <1>2 DEF IsSplitMixed
<1>4. IsSplitMixed(<<-k, _WAN, i, 1000>>, j)
  BY <1>1, <1>2 DEF IsSplitMixed
<1>5. Opens(<<-k, _WAN, i>>, k) /\ Opens(<<-k, _WAN, i, 1000>>, k)
  BY DEF Opens, IsArabic
<1> QED BY <1>2, <1>3, <1>4, <1>5, SMT

\* A lone Arabic number is worth itself.
LEMMA MixedOne == ASSUME NEW k \in Payable PROVE cjk_to_decimal(<<-k>>, TRUE) = k
<1>1. Opens(<<-k>>, k)
  BY OpensAs DEF Payable
<1>2. IsOneMixed(<<-k>>)
  BY DEF IsOneMixed
<1> QED BY <1>1, <1>2, OneIs

\* With a magnitude, their product.
LEMMA MixedTwo ==
    ASSUME NEW k \in Nat, k >= 1, NEW m, IsMagnitude(m), k * m \in Payable
    PROVE  cjk_to_decimal(<<-k, m>>, TRUE) = k * m
<1>1. Opens(<<-k, m>>, k)
  BY OpensAs
<1>2. IsTwoMixed(<<-k, m>>, m)
  BY DEF IsTwoMixed
<1> QED BY <1>1, <1>2, TwoAre

Thousand == 1000

\* Before and after the 10 000, ten-thousands and thousands.
LEMMA MixedSplit ==
    ASSUME NEW k \in Nat, k >= 1, NEW j \in Nat, j >= 1, j <= 9, SplitValue(k, j) \in Payable
    PROVE  /\ cjk_to_decimal(<<-k, _WAN, -j>>, TRUE) = SplitValue(k, j)
           /\ cjk_to_decimal(<<-k, _WAN, -j, Thousand>>, TRUE) = SplitValue(k, j)
<1>1. /\ Opens(<<-k, _WAN, -j>>, k) /\ Opens(<<-k, _WAN, -j, 1000>>, k)
      /\ IsSplitMixed(<<-k, _WAN, -j>>, j) /\ IsSplitMixed(<<-k, _WAN, -j, 1000>>, j)
  BY SplitForms
<1>2. PICK w, x : w = <<-k, _WAN, -j>> /\ x = <<-k, _WAN, -j, Thousand>>
  OBVIOUS
<1>3. Opens(w, k) /\ Opens(x, k) /\ IsSplitMixed(w, j) /\ IsSplitMixed(x, j)
  BY <1>1, <1>2, SMT DEF Thousand
<1>4. cjk_to_decimal(w, TRUE) = SplitValue(k, j) /\ cjk_to_decimal(x, TRUE) = SplitValue(k, j)
  BY <1>3, SplitIs
<1> QED BY <1>2, <1>4, Zenon

IsDivided(n, m, q) == q * m = n

\* An amount that a magnitude divides is a quotient times it.
LEMMA Divided ==
    ASSUME NEW n \in Payable, NEW m \in _CJK_SUB_WAN_PLACES \cup {_WAN}, n % m = 0
    PROVE  \E q \in Nat : q = n \div m /\ q >= 1 /\ IsDivided(n, m, q)
<1>1. n \in Nat /\ n >= 1 /\ m \in Nat \ {0}
  BY DEF Payable, _CJK_SUB_WAN_PLACES, _WAN
<1>2. n = m * (n \div m) + (n % m) /\ n \div m \in Nat
  BY <1>1
<1>3. PICK q \in Nat : q = n \div m
  BY <1>2
<1>4. n = m * q + 0
  BY <1>2, <1>3, Zenon
<1>5. q # 0
  BY <1>1, <1>4
<1> QED BY <1>1, <1>3, <1>4, <1>5 DEF IsDivided

IsThousands(n) == n % 1000 = 0
IsOver(n, h, l) == n = h * _WAN + l
IsSplitInto(n, k, j) == SplitValue(k, j) = n

\* A low half of whole thousands is one to nine of them.
LEMMA ThousandsOf ==
    ASSUME NEW l \in Small, IsThousands(l), l >= 1000
    PROVE  \E j \in Nat : j = l \div 1000 /\ j >= 1 /\ j <= 9 /\ IsDivided(l, 1000, j)
<1>1. l \in Payable /\ 1000 \in _CJK_SUB_WAN_PLACES
  BY DEF Small, Payable, _MAX_CJK_VALUE, _CJK_SUB_WAN_PLACES
<1>2. PICK j \in Nat : j = l \div 1000 /\ j >= 1 /\ IsDivided(l, 1000, j)
  BY <1>1, Divided DEF IsThousands
<1>3. j <= 9
  <2>1. j * 1000 = l
    BY <1>2 DEF IsDivided
  <2>2. l <= 9999
    BY DEF Small
  <2> QED BY <2>1, <2>2
<1> QED BY <1>2, <1>3

\* If a number is whole thousands, its low half is.
LEMMA ThousandsOfLow ==
    ASSUME NEW n \in Nat, NEW h \in Nat, NEW l \in Nat, IsOver(n, h, l), IsThousands(n)
    PROVE  IsThousands(l)
BY DEF _WAN, IsOver, IsThousands

\* A high half and its thousands add up to the number.
LEMMA SplitSums ==
    ASSUME NEW n, NEW h \in Nat, NEW l, IsOver(n, h, l), NEW j \in Nat, IsDivided(l, 1000, j)
    PROVE  IsSplitInto(n, h, j)
BY SMT DEF IsOver, IsDivided, IsSplitInto, SplitValue

SplitFits(n) == n > _WAN /\ n % _WAN >= Thousand /\ n % Thousand = 0

\* The thousands of an amount in thousands, after its 10 000.
LEMMA SplitAt ==
    ASSUME NEW n \in Payable, SplitFits(n)
    PROVE  \E k, j \in Nat :
              /\ k = n \div _WAN /\ j = (n % _WAN) \div Thousand
              /\ k >= 1 /\ j >= 1 /\ j <= 9 /\ IsSplitInto(n, k, j)
<1>1. PICK h \in Small : h = n \div _WAN
  BY HalvesOf
<1>2. PICK l \in Small : IsLow(n, l)
  BY HalvesOf DEF IsLow
<1>3. IsOver(n, h, l)
  BY <1>1, <1>2, HalvesOf, Zenon DEF IsLow, IsOver
<1>4. h \in Nat /\ l \in Nat /\ l <= 9999 /\ n \in Nat
  BY DEF Small, Payable
<1>5. h # 0
  <2>1. n > _WAN
    BY DEF SplitFits
  <2> QED BY <1>3, <1>4, <2>1 DEF _WAN, IsOver
<1>6. l >= Thousand
  BY <1>2, Zenon DEF IsLow, SplitFits
<1>7. IsThousands(l)
  <2>1. IsThousands(n)
    BY DEF SplitFits, IsThousands, Thousand
  <2> QED BY <1>3, <1>4, <2>1, ThousandsOfLow
<1>8. PICK j \in Nat : j = l \div Thousand /\ j >= 1 /\ j <= 9 /\ IsDivided(l, 1000, j)
  BY <1>6, <1>7, ThousandsOf DEF Thousand
<1>9. IsSplitInto(n, h, j)
  BY <1>3, <1>4, <1>8, SplitSums
<1>10. j = (n % _WAN) \div Thousand
  BY <1>2, <1>8, Zenon DEF IsLow
<1>11. h >= 1
  BY <1>4, <1>5
<1>12. h \in Nat /\ j \in Nat /\ j >= 1 /\ j <= 9
  BY <1>4, <1>8
<1> QED BY <1>1, <1>9, <1>10, <1>11, <1>12, Zenon

\* Three characters and a fourth.
LEMMA FourChars == ASSUME NEW w, NEW x, NEW y, NEW z PROVE Append(<<w, x, y>>, z) = <<w, x, y, z>>
<1> DEFINE S == {w, x, y, z}
<1>1. PICK s : s = <<w, x, y>>
  OBVIOUS
<1>2. s \in Seq(S) /\ z \in S /\ Len(s) = 3 /\ s[1] = w /\ s[2] = x /\ s[3] = y
  BY <1>1
<1>3. PICK t : t = <<w, x, y, z>>
  OBVIOUS
<1>4. /\ t \in Seq(S) /\ Len(t) = 4 /\ t[1] = w /\ t[2] = x /\ t[3] = y /\ t[4] = z
  BY <1>3
<1> HIDE DEF S
<1>5. PICK v : v = Append(s, z)
  OBVIOUS
<1>6. /\ v \in Seq(S) /\ Len(v) = Len(s) + 1 /\ v[Len(s) + 1] = z
      /\ \A i \in 1 .. Len(s) : v[i] = s[i]
  <2>1. /\ Append(s, z) \in Seq(S) /\ Len(Append(s, z)) = Len(s) + 1
        /\ Append(s, z)[Len(s) + 1] = z /\ \A i \in 1 .. Len(s) : Append(s, z)[i] = s[i]
    <3>1. s \in Seq(S) /\ z \in S
      BY <1>2
    <3> QED BY <3>1, AppendProperties
  <2> QED BY <1>5, <2>1, Zenon
<1>7. Len(v) = 4 /\ v[4] = z /\ v[1] = w /\ v[2] = x /\ v[3] = y
  BY <1>2, <1>6
<1>8. v = t
  BY <1>4, <1>6, <1>7, SeqEqual
<1> QED BY <1>1, <1>3, <1>5, <1>8, Zenon

SplitWay(n) == <<Arabic(n \div _WAN), _WAN, Arabic((n % _WAN) \div Thousand)>>

\* The Arabic numbers of the split way are the high half and the thousands.
LEMMA SplitWayIs ==
    ASSUME NEW n, NEW k, k = n \div _WAN, NEW j, j = (n % _WAN) \div Thousand
    PROVE  SplitWay(n) = <<-k, _WAN, -j>>
BY Zenon DEF SplitWay, Arabic

\* Both split ways of a number are read as it.
LEMMA SplitWayIsRead ==
    ASSUME NEW n \in Payable, SplitFits(n)
    PROVE  cjk_to_decimal(SplitWay(n), TRUE) = n /\ cjk_to_decimal(Append(SplitWay(n), Thousand), TRUE) = n
<1>1. PICK k, j \in Nat :
         /\ k = n \div _WAN /\ j = (n % _WAN) \div Thousand
         /\ k >= 1 /\ j >= 1 /\ j <= 9 /\ IsSplitInto(n, k, j)
  BY SplitAt
<1>2. SplitWay(n) = <<-k, _WAN, -j>>
  BY <1>1, SplitWayIs, Zenon
<1>3. /\ cjk_to_decimal(<<-k, _WAN, -j>>, TRUE) = n
      /\ cjk_to_decimal(<<-k, _WAN, -j, Thousand>>, TRUE) = n
  <2>1. SplitValue(k, j) \in Payable
    BY <1>1, Zenon DEF IsSplitInto
  <2>2. k >= 1 /\ j >= 1 /\ j <= 9
    BY <1>1
  <2>3. /\ cjk_to_decimal(<<-k, _WAN, -j>>, TRUE) = SplitValue(k, j)
        /\ cjk_to_decimal(<<-k, _WAN, -j, Thousand>>, TRUE) = SplitValue(k, j)
    BY <2>1, <2>2, MixedSplit, Zenon
  <2>4. SplitValue(k, j) = n
    BY <1>1, Zenon DEF IsSplitInto
  <2> QED BY <2>3, <2>4, Zenon
<1>4. Append(<<-k, _WAN, -j>>, Thousand) = <<-k, _WAN, -j, Thousand>>
  BY FourChars, Zenon
<1> QED BY <1>2, <1>3, <1>4, Zenon

Magnitudes == {10, 100, 1000, _WAN}

\* What is written with Arabic digits is read as it was meant.
LEMMA MixedIsRead ==
    ASSUME NEW n \in Payable, NEW way \in Mixed(n)
    PROVE  cjk_to_decimal(way, TRUE) = n
<1>1. CASE way = <<Arabic(n)>>
  <2>1. way = <<-n>>
    BY <1>1, Zenon DEF Arabic
  <2> QED BY <2>1, MixedOne, Zenon
<1>2. ASSUME NEW m \in _CJK_SUB_WAN_PLACES \cup {_WAN}, n >= m, n % m = 0,
             way = <<Arabic(n \div m), m>>
      PROVE  cjk_to_decimal(way, TRUE) = n
  <2>1. PICK q \in Nat : q = n \div m /\ q >= 1 /\ IsDivided(n, m, q)
    BY <1>2, Divided
  <2>2. IsMagnitude(m)
    BY DEF IsMagnitude
  <2>3. way = <<-q, m>>
    BY <1>2, <2>1, Zenon DEF Arabic
  <2>4. q * m = n /\ q * m \in Payable
    BY <2>1, Zenon DEF IsDivided
  <2>5. cjk_to_decimal(<<-q, m>>, TRUE) = q * m
    BY <2>1, <2>2, <2>4, MixedTwo
  <2> QED BY <2>3, <2>4, <2>5, Zenon
<1>4. CASE way \in {<<Arabic(n \div m), m>> : m \in {p \in Magnitudes : n >= p /\ n % p = 0}}
  <2>1. PICK m \in Magnitudes : n >= m /\ n % m = 0 /\ way = <<Arabic(n \div m), m>>
    BY <1>4, Zenon
  <2>2. m \in _CJK_SUB_WAN_PLACES \cup {_WAN}
    BY <2>1 DEF Magnitudes, _CJK_SUB_WAN_PLACES
  <2> QED BY <1>2, <2>1, <2>2, Zenon
<1>5. CASE way \in IF SplitFits(n) THEN {SplitWay(n), Append(SplitWay(n), Thousand)} ELSE {}
  <2>1. SplitFits(n) /\ (way = SplitWay(n) \/ way = Append(SplitWay(n), Thousand))
    BY <1>5, Zenon
  <2> QED BY <2>1, SplitWayIsRead, Zenon
<1>6. Mixed(n) = {<<Arabic(n)>>}
                 \cup {<<Arabic(n \div m), m>> : m \in {p \in Magnitudes : n >= p /\ n % p = 0}}
                 \cup (IF SplitFits(n) THEN {SplitWay(n), Append(SplitWay(n), Thousand)} ELSE {})
  BY SMT DEF Mixed, SplitFits, SplitWay, Thousand, Magnitudes
<1> QED BY <1>1, <1>4, <1>5, <1>6, Zenon

-----------------------------------------------------------------------------
(* Every amount that is spoken is understood. *)

\* Written in full, an amount is read as itself unless it ends in ones after
\* 10 000.
LEMMA OnesOrNot ==
    ASSUME NEW n \in Payable, NEW h \in Small, NEW l \in Small, IsHalves(n, h, l)
    PROVE  ReadInFull(n, h, l) = n \/ OnesAfterWan(n)
<1>1. n = h * _WAN + l /\ h \in Nat /\ l \in Nat
  <2>1. h \in Nat /\ l \in Nat
    BY DEF Small
  <2> QED BY <2>1, HalvesOf, Zenon DEF IsHalves
<1>2. CASE l = 0
  BY <1>1, <1>2 DEF ReadInFull, _WAN
<1>3. CASE h = 0
  BY <1>1, <1>3 DEF ReadInFull
<1>4. CASE l \in 1 .. 9 /\ h # 0
  <2>1. n > _WAN
    BY <1>1, <1>4 DEF _WAN
  <2> QED BY <1>4, <2>1, Zenon DEF OnesAfterWan, IsHalves
<1>5. CASE l > 9
  BY <1>1, <1>5 DEF ReadInFull, _CJK_DIGITS
<1> QED BY <1>1, <1>2, <1>3, <1>4, <1>5

\* The parser's limit is a natural number.
LEMMA MaxIsNat == _MAX_CJK_VALUE \in Nat
BY DEF _MAX_CJK_VALUE

\* However an amount is spoken, in full, without its last place or with Arabic
\* digits, it is read, and as it was meant; but for the ones after 10 000.
THEOREM SpokenIsRead ==
    ASSUME NEW n \in 1 .. _MAX_CJK_VALUE, NEW way \in Ways(n)
    PROVE  /\ cjk_to_decimal(way, TRUE) = n \/ OnesAfterWan(n)
           /\ cjk_to_decimal(way, TRUE) # NoValue
<1>1. n \in Payable /\ n # NoValue
  <2>1. n \in Nat /\ 1 <= n /\ n <= _MAX_CJK_VALUE
    BY MaxIsNat, SMT
  <2> QED BY <2>1, SMT DEF Payable, NoValue
<1>2. PICK h, l \in Small : IsHalves(n, h, l)
  BY <1>1, HalvesOf, Zenon DEF IsHalves
<1>3. cjk_to_decimal(InFull(n), TRUE) = ReadInFull(n, h, l)
  BY <1>1, <1>2, FullIsRead, Zenon
<1>4. ReadInFull(n, h, l) = n \/ OnesAfterWan(n)
  BY <1>1, <1>2, OnesOrNot
<1>5. ReadInFull(n, h, l) # NoValue
  <2>1. h \in Nat /\ l \in Nat
    BY DEF Small
  <2>2. h * _WAN + l * 1000 # NoValue
    BY <2>1 DEF _WAN, NoValue
  <2> QED BY <1>1, <2>2, SMT DEF ReadInFull
<1>6. Colloquial(n) = InFull(n) \/ cjk_to_decimal(Colloquial(n), TRUE) = n
  BY <1>1, ColloquialIsFine DEF Fine
<1>7. way = InFull(n) \/ way = Colloquial(n) \/ way \in Mixed(n)
  BY Zenon DEF Ways
<1>8. way \in Mixed(n) => cjk_to_decimal(way, TRUE) = n
  BY <1>1, MixedIsRead
<1> QED BY <1>1, <1>3, <1>4, <1>5, <1>6, <1>7, <1>8, Zenon

-----------------------------------------------------------------------------
(* Tokens. *)

\* The fields of a word.
LEMMA WordIs == ASSUME NEW w
                PROVE  /\ Word(w).is = "word" /\ Word(w).norm = w /\ Word(w).chars = <<>>
                       /\ Word(w).unit = FALSE /\ Word(w).cents = FALSE
BY DEF Word, Token

\* The fields of a currency symbol.
LEMMA SymbolIs == ASSUME NEW s
                  PROVE  /\ Symbol(s).is = "symbol" /\ Symbol(s).norm = s /\ Symbol(s).chars = <<>>
                         /\ Symbol(s).unit = FALSE
BY DEF Symbol, Token

\* The fields of a number.
LEMMA NumberIs == ASSUME NEW n, NEW c
                  PROVE  /\ Number(n, c).is = "number" /\ Number(n, c).value = n
                         /\ Number(n, c).cents = c /\ Number(n, c).chars = <<>>
                         /\ Number(n, c).unit = FALSE
BY DEF Number, Token

\* The fields of a numeral.
LEMMA NumeralIs == ASSUME NEW s, NEW u
                   PROVE  /\ Numeral(s, u).is = "word" /\ Numeral(s, u).chars = s
                          /\ Numeral(s, u).unit = u
BY DEF Numeral, Token

AsNumber(v, u) == [Number(v, FALSE) EXCEPT !.unit = u]

\* A token keeps its unit; a numeral that is read becomes a number.
LEMMA RewrittenIs ==
    ASSUME NEW tok
    PROVE  /\ Rewritten(tok).unit = tok.unit
           /\ tok.chars = <<>> => Rewritten(tok) = tok
           /\ Rewritten(tok) = tok \/ Rewritten(tok).is = "number"
           /\ tok.chars # <<>> /\ cjk_to_decimal(tok.chars, tok.unit) # NoValue =>
                 /\ Rewritten(tok).is = "number" /\ Rewritten(tok).cents = FALSE
                 /\ Rewritten(tok).value = cjk_to_decimal(tok.chars, tok.unit)
<1>1. \A v, u : /\ AsNumber(v, u).is = "number" /\ AsNumber(v, u).cents = FALSE
                /\ AsNumber(v, u).value = v /\ AsNumber(v, u).unit = u
  BY DEF AsNumber, Number, Token
<1>2. PICK v : v = cjk_to_decimal(tok.chars, tok.unit)
  OBVIOUS
<1>3. CASE tok.chars = <<>> \/ v = NoValue
  <2>1. Rewritten(tok) = tok
    BY <1>2, <1>3, Zenon DEF Rewritten
  <2> QED BY <1>2, <1>3, <2>1, Zenon
<1>4. CASE ~(tok.chars = <<>> \/ v = NoValue)
  <2>1. Rewritten(tok) = AsNumber(v, tok.unit)
    BY <1>2, <1>4, Zenon DEF Rewritten, AsNumber
  <2>2. /\ AsNumber(v, tok.unit).is = "number" /\ AsNumber(v, tok.unit).cents = FALSE
        /\ AsNumber(v, tok.unit).value = v /\ AsNumber(v, tok.unit).unit = tok.unit
    BY <1>1
  <2>3. /\ Rewritten(tok).is = "number" /\ Rewritten(tok).cents = FALSE
        /\ Rewritten(tok).value = v /\ Rewritten(tok).unit = tok.unit
    BY <2>1, <2>2, Zenon
  <2> QED BY <1>2, <1>4, <2>3, Zenon
<1> QED BY <1>3, <1>4

-----------------------------------------------------------------------------
(* The line that is written. *)

WordToks == {Word(w) : w \in Words}
SymbolToks == {Symbol("$"), Symbol("e")}
NumberToks == UNION {{Number(n, c) : c \in BOOLEAN} : n \in Numbers}
PlainNumerals == {Numeral(InFull(n), FALSE) : n \in Numbers}
InUnits(n) == {Numeral(way, TRUE) : way \in Ways(n)}
SpokenNumerals == UNION {InUnits(n) : n \in Spoken}
Toks == WordToks \cup SymbolToks \cup NumberToks \cup PlainNumerals \cup SpokenNumerals

PriceType == [amount : Numbers \cup Spoken, cents : BOOLEAN, foreign : BOOLEAN, at : Nat]

Sign(p) == IF p.foreign THEN "e" ELSE "$"

\* A price is said at its token: a number after a symbol, or a numeral with its unit.
InDigits(s, p) ==
    /\ p.at - 1 \in DOMAIN s
    /\ s[p.at] = Number(p.amount, p.cents)
    /\ s[p.at - 1] = Symbol(Sign(p))
InNumerals(s, p) == ~p.foreign /\ ~p.cents /\ \E way \in Ways(p.amount) : s[p.at] = Numeral(way, TRUE)

SymbolsLead(s, P) ==
    \A i \in DOMAIN s : s[i].is = "symbol" => \E p \in P : p.at = i + 1 /\ s[i] = Symbol(Sign(p))
UnitsPriced(s, P) == \A i \in DOMAIN s : s[i].unit => \E p \in P : p.at = i
PricesSaid(s, P) == \A p \in P : p.at \in DOMAIN s /\ (InDigits(s, p) \/ InNumerals(s, p))
OneEach(P) == \A p, q \in P : p.at = q.at => p = q

Telling(s, P) ==
    /\ s \in Seq(Toks)
    /\ P \subseteq PriceType /\ IsFiniteSet(P)
    /\ SymbolsLead(s, P)
    /\ UnitsPriced(s, P)
    /\ PricesSaid(s, P)
    /\ OneEach(P)

\* s2 is s and one token, or two tokens, more.
OneMore(s, s2, t) ==
    /\ s2 \in Seq(Toks) /\ Len(s2) = Len(s) + 1 /\ s2[Len(s) + 1] = t
    /\ \A i \in 1 .. Len(s) : s2[i] = s[i]
TwoMore(s, s2, t, u) ==
    /\ s2 \in Seq(Toks) /\ Len(s2) = Len(s) + 2 /\ s2[Len(s) + 1] = t /\ s2[Len(s) + 2] = u
    /\ \A i \in 1 .. Len(s) : s2[i] = s[i]

\* A line with one more token, position by position.
LEMMA OneIsMore ==
    ASSUME NEW s \in Seq(Toks), NEW t \in Toks
    PROVE  OneMore(s, s \o <<t>>, t)
<1>1. <<t>> \in Seq(Toks) /\ Len(<<t>>) = 1 /\ <<t>>[1] = t
  OBVIOUS
<1>2. PICK x \in Seq(Toks) : x = <<t>>
  BY <1>1
<1>3. Len(x) = 1 /\ x[1] = t
  BY <1>1, <1>2, Zenon
<1>4. /\ s \o x \in Seq(Toks)
      /\ Len(s \o x) = Len(s) + 1
      /\ \A i \in 1 .. Len(s) + 1 : (s \o x)[i] = IF i <= Len(s) THEN s[i] ELSE x[i - Len(s)]
  BY <1>3, ConcatProperties
<1>5. PICK z : z = s \o x
  OBVIOUS
<1>6. z \in Seq(Toks) /\ Len(z) = Len(s) + 1 /\ z[Len(s) + 1] = t /\ \A i \in 1 .. Len(s) : z[i] = s[i]
  <2>1. Len(s) \in Nat
    BY LenProperties
  <2>2. \A i \in 1 .. Len(s) + 1 : z[i] = IF i <= Len(s) THEN s[i] ELSE x[i - Len(s)]
    BY <1>4, <1>5, Zenon
  <2>3. z \in Seq(Toks) /\ Len(z) = Len(s) + 1
    BY <1>4, <1>5, Zenon
  <2> QED BY <1>3, <2>1, <2>2, <2>3
<1> QED BY <1>2, <1>5, <1>6, Zenon DEF OneMore

\* A line with two more.
LEMMA TwoAreMore ==
    ASSUME NEW s \in Seq(Toks), NEW t \in Toks, NEW u \in Toks
    PROVE  TwoMore(s, s \o <<t, u>>, t, u)
<1>1. <<t, u>> \in Seq(Toks) /\ Len(<<t, u>>) = 2 /\ <<t, u>>[1] = t /\ <<t, u>>[2] = u
  OBVIOUS
<1>2. PICK x \in Seq(Toks) : x = <<t, u>>
  BY <1>1
<1>3. Len(x) = 2 /\ x[1] = t /\ x[2] = u
  BY <1>1, <1>2, Zenon
<1>4. /\ s \o x \in Seq(Toks)
      /\ Len(s \o x) = Len(s) + 2
      /\ \A i \in 1 .. Len(s) + 2 : (s \o x)[i] = IF i <= Len(s) THEN s[i] ELSE x[i - Len(s)]
  <2>1. /\ s \o x \in Seq(Toks)
        /\ Len(s \o x) = Len(s) + Len(x)
        /\ \A i \in 1 .. Len(s) + Len(x) : (s \o x)[i] = IF i <= Len(s) THEN s[i] ELSE x[i - Len(s)]
    BY ConcatProperties, Zenon
  <2> QED BY <1>3, <2>1, Zenon
<1>5. PICK z : z = s \o x
  OBVIOUS
<1>6. /\ z \in Seq(Toks) /\ Len(z) = Len(s) + 2
      /\ z[Len(s) + 1] = t /\ z[Len(s) + 2] = u /\ \A i \in 1 .. Len(s) : z[i] = s[i]
  <2>1. Len(s) \in Nat
    BY LenProperties
  <2>2. \A i \in 1 .. Len(s) + 2 : z[i] = IF i <= Len(s) THEN s[i] ELSE x[i - Len(s)]
    BY <1>4, <1>5, Zenon
  <2>3. z \in Seq(Toks) /\ Len(z) = Len(s) + 2
    BY <1>4, <1>5, Zenon
  <2> QED BY <1>3, <2>1, <2>2, <2>3, SMTT(30)
<1> QED BY <1>2, <1>5, <1>6, Zenon DEF TwoMore

\* The positions of a line.
LEMMA TokenDomain == ASSUME NEW s \in Seq(Toks) PROVE Len(s) \in Nat /\ DOMAIN s = 1 .. Len(s)
BY LenProperties

\* What was said is still said.
Keeping(s, s2) == DOMAIN s \subseteq DOMAIN s2 /\ \A i \in DOMAIN s : s2[i] = s[i]

\* Tokens that are added leave the earlier prices said.
LEMMA StillSaid ==
    ASSUME NEW s, NEW s2, NEW P, Keeping(s, s2), PricesSaid(s, P)
    PROVE  PricesSaid(s2, P)
<1> SUFFICES ASSUME NEW p \in P PROVE p.at \in DOMAIN s2 /\ (InDigits(s2, p) \/ InNumerals(s2, p))
  BY Zenon DEF PricesSaid
<1>1. p.at \in DOMAIN s /\ (InDigits(s, p) \/ InNumerals(s, p))
  BY Zenon DEF PricesSaid
<1>2. p.at \in DOMAIN s2 /\ s2[p.at] = s[p.at]
  BY <1>1, Zenon DEF Keeping
<1>3. InDigits(s, p) => InDigits(s2, p)
  BY <1>2, Zenon DEF InDigits, Keeping
<1>4. InNumerals(s, p) => InNumerals(s2, p)
  BY <1>2, Zenon DEF InNumerals
<1> QED BY <1>1, <1>2, <1>3, <1>4

\* A token that is no symbol and has no unit needs no price.
LEMMA PlainMore ==
    ASSUME NEW s, NEW s2, NEW P, NEW t, Telling(s, P), OneMore(s, s2, t), t.is # "symbol", ~t.unit
    PROVE  Telling(s2, P)
<1>1. s \in Seq(Toks) /\ s2 \in Seq(Toks)
  BY Zenon DEF Telling, OneMore
<1>2. PICK m \in Nat : m = Len(s)
  BY <1>1, TokenDomain, Zenon
<1>3. DOMAIN s = 1 .. m /\ DOMAIN s2 = 1 .. m + 1 /\ s2[m + 1] = t /\ \A i \in 1 .. m : s2[i] = s[i]
  BY <1>1, <1>2, TokenDomain, Zenon DEF OneMore
<1>4. Keeping(s, s2) /\ \A i \in DOMAIN s2 : i \in DOMAIN s \/ s2[i] = t
  BY <1>3, SMT DEF Keeping
<1>5. SymbolsLead(s2, P)
  BY <1>4, Zenon DEF SymbolsLead, Keeping, Telling
<1>6. UnitsPriced(s2, P)
  BY <1>4, Zenon DEF UnitsPriced, Keeping, Telling
<1>7. PricesSaid(s2, P)
  BY <1>4, StillSaid, Zenon DEF Telling
<1> QED BY <1>1, <1>5, <1>6, <1>7, Zenon DEF Telling

\* A price that is new is at a token that is.
LEMMA PriceMore ==
    ASSUME NEW s, NEW s2, NEW P, NEW p \in PriceType, Telling(s, P), s2 \in Seq(Toks), Keeping(s, s2),
           p.at \notin DOMAIN s, p.at \in DOMAIN s2, InDigits(s2, p) \/ InNumerals(s2, p),
           \A i \in DOMAIN s2 : \/ i \in DOMAIN s
                                \/ i = p.at /\ s2[i].is # "symbol"
                                \/ i + 1 = p.at /\ ~s2[i].unit /\ s2[i] = Symbol(Sign(p))
    PROVE  Telling(s2, P \cup {p})
<1>1. SymbolsLead(s2, P \cup {p})
  <2> SUFFICES ASSUME NEW i \in DOMAIN s2, s2[i].is = "symbol"
               PROVE  \E q \in P \cup {p} : q.at = i + 1 /\ s2[i] = Symbol(Sign(q))
    BY Zenon DEF SymbolsLead
  <2>1. CASE i \in DOMAIN s
    BY <2>1, Zenon DEF Telling, SymbolsLead, Keeping
  <2>2. CASE i + 1 = p.at /\ s2[i] = Symbol(Sign(p))
    BY <2>2, Zenon
  <2> QED BY <2>1, <2>2, Zenon
<1>2. UnitsPriced(s2, P \cup {p})
  <2> SUFFICES ASSUME NEW i \in DOMAIN s2, s2[i].unit
               PROVE  \E q \in P \cup {p} : q.at = i
    BY Zenon DEF UnitsPriced
  <2>1. CASE i \in DOMAIN s
    BY <2>1, Zenon DEF Telling, UnitsPriced, Keeping
  <2>2. CASE i = p.at
    BY <2>2, Zenon
  <2> QED BY <2>1, <2>2, Zenon
<1>3. PricesSaid(s2, P \cup {p})
  <2>1. PricesSaid(s2, P)
    BY StillSaid, Zenon DEF Telling
  <2> QED BY <2>1, Zenon DEF PricesSaid
<1>4. OneEach(P \cup {p})
  <2>1. \A q \in P : q.at # p.at
    BY Zenon DEF Telling, PricesSaid
  <2> QED BY <2>1, Zenon DEF Telling, OneEach
<1>5. P \cup {p} \subseteq PriceType /\ IsFiniteSet(P \cup {p})
  BY FS_AddElement, Zenon DEF Telling
<1> QED BY <1>1, <1>2, <1>3, <1>4, <1>5, Zenon DEF Telling

-----------------------------------------------------------------------------
(* Every step adds a token, and a price if it is one. *)

PriceOf(n, cents, foreign, k) == [amount |-> n, cents |-> cents, foreign |-> foreign, at |-> k]

\* A price of a written number has the type of one.
LEMMA PriceIs ==
    ASSUME NEW n \in Numbers \cup Spoken, NEW c \in BOOLEAN, NEW f \in BOOLEAN, NEW k \in Nat
    PROVE  PriceOf(n, c, f, k) \in PriceType
BY DEF PriceOf, PriceType

\* The fields of a price.
LEMMA PriceSays ==
    ASSUME NEW n, NEW c, NEW f, NEW k
    PROVE  /\ PriceOf(n, c, f, k).amount = n /\ PriceOf(n, c, f, k).cents = c
           /\ PriceOf(n, c, f, k).foreign = f /\ PriceOf(n, c, f, k).at = k
BY DEF PriceOf

\* Every token a line may get has the type of one, and only symbols are
\* symbols.
LEMMA TokensAre ==
    /\ \A w \in Words : Word(w) \in Toks /\ Word(w).is # "symbol" /\ ~Word(w).unit
    /\ \A n \in Numbers, c \in BOOLEAN :
          Number(n, c) \in Toks /\ Number(n, c).is # "symbol" /\ ~Number(n, c).unit
    /\ \A n \in Numbers : /\ Numeral(InFull(n), FALSE) \in Toks
                          /\ Numeral(InFull(n), FALSE).is # "symbol" /\ ~Numeral(InFull(n), FALSE).unit
    /\ \A n \in Spoken : \A way \in Ways(n) :
          Numeral(way, TRUE) \in Toks /\ Numeral(way, TRUE).is # "symbol"
    /\ \A f \in BOOLEAN : LET s == Symbol(IF f THEN "e" ELSE "$") IN s \in Toks /\ ~s.unit
<1>1. \A w \in Words : Word(w) \in Toks /\ Word(w).is # "symbol" /\ ~Word(w).unit
  <2> TAKE w \in Words
  <2>1. Word(w) \in Toks
    <3>1. Word(w) \in WordToks
      BY Zenon DEF WordToks
    <3> QED BY <3>1, Zenon DEF Toks
  <2> QED BY <2>1, WordIs, Zenon
<1>2. \A n \in Numbers, c \in BOOLEAN :
         Number(n, c) \in Toks /\ Number(n, c).is # "symbol" /\ ~Number(n, c).unit
  <2> TAKE n \in Numbers, c \in BOOLEAN
  <2>1. Number(n, c) \in Toks
    <3>1. Number(n, c) \in NumberToks
      <4>1. Number(n, c) \in {Number(n, d) : d \in BOOLEAN}
        BY Zenon
      <4> QED BY <4>1, SMT DEF NumberToks
    <3> QED BY <3>1, Zenon DEF Toks
  <2> QED BY <2>1, NumberIs, Zenon
<1>3. \A n \in Numbers : /\ Numeral(InFull(n), FALSE) \in Toks
                         /\ Numeral(InFull(n), FALSE).is # "symbol" /\ ~Numeral(InFull(n), FALSE).unit
  <2> TAKE n \in Numbers
  <2>1. Numeral(InFull(n), FALSE) \in Toks
    <3>1. Numeral(InFull(n), FALSE) \in PlainNumerals
      BY Zenon DEF PlainNumerals
    <3> QED BY <3>1, Zenon DEF Toks
  <2> QED BY <2>1, NumeralIs, Zenon
<1>4. \A n \in Spoken : \A way \in Ways(n) :
         Numeral(way, TRUE) \in Toks /\ Numeral(way, TRUE).is # "symbol"
  <2> TAKE n \in Spoken
  <2> TAKE way \in Ways(n)
  <2>1. Numeral(way, TRUE) \in Toks
    <3>1. Numeral(way, TRUE) \in SpokenNumerals
      <4>1. Numeral(way, TRUE) \in InUnits(n)
        BY Zenon DEF InUnits
      <4> QED BY <4>1, Zenon DEF SpokenNumerals
    <3> QED BY <3>1, Zenon DEF Toks
  <2> QED BY <2>1, NumeralIs, Zenon
<1>5. \A f \in BOOLEAN : LET s == Symbol(IF f THEN "e" ELSE "$") IN s \in Toks /\ ~s.unit
  <2>1. \A s \in {"$", "e"} : Symbol(s) \in Toks /\ ~Symbol(s).unit
    <3> TAKE s \in {"$", "e"}
    <3>1. Symbol(s) \in Toks
      <4>1. Symbol(s) \in SymbolToks
        BY Zenon DEF SymbolToks
      <4> QED BY <4>1, Zenon DEF Toks
    <3> QED BY <3>1, SymbolIs, Zenon
  <2> QED BY <2>1
<1> QED BY <1>1, <1>2, <1>3, <1>4, <1>5, Zenon

LineInv == Telling(said, prices)

\* An empty line satisfies the invariant.
LEMMA LineInit == EmptyLine => LineInv
<1>1. <<>> \in Seq(Toks) /\ DOMAIN <<>> = {}
  OBVIOUS
<1> SUFFICES ASSUME EmptyLine PROVE Telling(<<>>, {})
  BY Zenon DEF EmptyLine, LineInv
<1> QED BY <1>1, FS_EmptySet, Zenon DEF Telling, SymbolsLead, UnitsPriced, PricesSaid, OneEach

\* A word, a number or a numeral that is no price.
LEMMA PlainStep ==
    ASSUME LineInv, NEW t \in Toks, t.is # "symbol", ~t.unit, said' = said \o <<t>>, prices' = prices
    PROVE  LineInv'
<1>1. said \in Seq(Toks)
  BY Zenon DEF LineInv, Telling
<1>2. OneMore(said, said', t)
  BY <1>1, OneIsMore, Zenon
<1>3. Telling(said', prices)
  BY <1>2, PlainMore, Zenon DEF LineInv
<1> QED BY <1>3, Zenon DEF LineInv

\* A number after a symbol.
LEMMA DigitsStep ==
    ASSUME LineInv, NEW n \in Numbers, NEW c \in BOOLEAN, NEW f \in BOOLEAN,
           Price(n, c, f, <<Symbol(IF f THEN "e" ELSE "$"), Number(n, c)>>)
    PROVE  LineInv'
<1>1. PICK s \in Seq(Toks) : s = said
  BY Zenon DEF LineInv, Telling
<1>2. PICK m \in Nat : m = Len(s)
  BY TokenDomain, Zenon
<1>3. PICK u \in Toks : u = Symbol(IF f THEN "e" ELSE "$") /\ ~u.unit
  BY TokensAre, Zenon
<1>4. PICK t \in Toks : t = Number(n, c) /\ t.is # "symbol" /\ ~t.unit
  BY TokensAre, Zenon
<1>5. PICK p \in PriceType : p = PriceOf(n, c, f, m + 2)
  <2>1. n \in Numbers \cup Spoken /\ m + 2 \in Nat
    BY SMT
  <2> QED BY <2>1, PriceIs, Zenon
<1>6. said' = s \o <<u, t>> /\ prices' = prices \cup {p}
  <2>1. Len(<<u, t>>) = 2
    OBVIOUS
  <2>2. said' = s \o <<u, t>>
    BY <1>1, <1>3, <1>4, Zenon DEF Price, Say
  <2>3. prices' = prices \cup {PriceOf(n, c, f, Len(s) + Len(<<u, t>>))}
    BY <1>1, <1>3, <1>4, Zenon DEF Price, PriceOf
  <2> QED BY <1>2, <1>5, <2>1, <2>2, <2>3, Zenon
<1>7. PICK s2 \in Seq(Toks) : s2 = said' /\ TwoMore(s, s2, u, t)
  <2>1. TwoMore(s, s \o <<u, t>>, u, t)
    BY TwoAreMore, Zenon
  <2>2. s \o <<u, t>> \in Seq(Toks)
    BY <2>1, Zenon DEF TwoMore
  <2> QED BY <1>6, <2>1, <2>2, Zenon
<1>8. p.amount = n /\ p.cents = c /\ p.foreign = f /\ p.at = m + 2
  <2>1. /\ PriceOf(n, c, f, m + 2).amount = n /\ PriceOf(n, c, f, m + 2).cents = c
        /\ PriceOf(n, c, f, m + 2).foreign = f /\ PriceOf(n, c, f, m + 2).at = m + 2
    BY PriceSays
  <2> QED BY <1>5, <2>1, Zenon
<1>9. /\ DOMAIN s = 1 .. m /\ DOMAIN s2 = 1 .. m + 2 /\ s2[m + 1] = u /\ s2[m + 2] = t
      /\ \A i \in 1 .. m : s2[i] = s[i]
  BY <1>2, <1>7, TokenDomain, Zenon DEF TwoMore
<1>10. p.at \notin DOMAIN s /\ p.at \in DOMAIN s2 /\ p.at - 1 \in DOMAIN s2 /\ s2[p.at - 1] = u /\ s2[p.at] = t
  <2>1. (m + 2) - 1 = m + 1 /\ m + 2 \notin 1 .. m /\ m + 2 \in 1 .. m + 2 /\ m + 1 \in 1 .. m + 2
    BY SMT
  <2> QED BY <1>8, <1>9, <2>1, Zenon
<1>11. Keeping(s, s2)
  <2>1. 1 .. m \subseteq 1 .. m + 2
    BY SMT
  <2> QED BY <1>9, <2>1, Zenon DEF Keeping
<1>12. u = Symbol(Sign(p))
  BY <1>3, <1>8, Zenon DEF Sign
<1>13. InDigits(s2, p)
  BY <1>4, <1>8, <1>10, <1>12, Zenon DEF InDigits
<1>14. \A i \in DOMAIN s2 : \/ i \in DOMAIN s
                            \/ i = p.at /\ s2[i].is # "symbol"
                            \/ i + 1 = p.at /\ ~s2[i].unit /\ s2[i] = Symbol(Sign(p))
  <2>1. \A i \in 1 .. m + 2 : i \in 1 .. m \/ i = m + 1 \/ i = m + 2
    BY SMT
  <2>2. (m + 1) + 1 = m + 2
    BY SMT
  <2> QED BY <1>3, <1>4, <1>8, <1>9, <1>12, <2>1, <2>2, Zenon
<1>15. Telling(s, prices)
  BY <1>1, Zenon DEF LineInv
<1>16. Telling(s2, prices \cup {p})
  BY <1>10, <1>11, <1>13, <1>14, <1>15, PriceMore, Zenon
<1> QED BY <1>6, <1>7, <1>16, Zenon DEF LineInv

\* A numeral with its unit.
LEMMA NumeralStep ==
    ASSUME LineInv, NEW n \in Spoken, NEW way \in Ways(n), Price(n, FALSE, FALSE, <<Numeral(way, TRUE)>>)
    PROVE  LineInv'
<1>1. PICK s \in Seq(Toks) : s = said
  BY Zenon DEF LineInv, Telling
<1>2. PICK m \in Nat : m = Len(s)
  BY TokenDomain, Zenon
<1>3. PICK t \in Toks : t = Numeral(way, TRUE) /\ t.is # "symbol"
  BY TokensAre, Zenon
<1>4. PICK p \in PriceType : p = PriceOf(n, FALSE, FALSE, m + 1)
  <2>1. n \in Numbers \cup Spoken /\ m + 1 \in Nat /\ FALSE \in BOOLEAN
    BY SMT
  <2> QED BY <2>1, PriceIs, Zenon
<1>5. said' = s \o <<t>> /\ prices' = prices \cup {p}
  <2>1. Len(<<t>>) = 1
    OBVIOUS
  <2>2. said' = s \o <<t>>
    BY <1>1, <1>3, Zenon DEF Price, Say
  <2>3. prices' = prices \cup {PriceOf(n, FALSE, FALSE, Len(s) + Len(<<t>>))}
    BY <1>1, <1>3, Zenon DEF Price, PriceOf
  <2> QED BY <1>2, <1>4, <2>1, <2>2, <2>3, Zenon
<1>6. PICK s2 \in Seq(Toks) : s2 = said' /\ OneMore(s, s2, t)
  BY <1>5, OneIsMore, Zenon DEF OneMore
<1>7. p.amount = n /\ p.cents = FALSE /\ p.foreign = FALSE /\ p.at = m + 1
  <2>1. /\ PriceOf(n, FALSE, FALSE, m + 1).amount = n /\ PriceOf(n, FALSE, FALSE, m + 1).cents = FALSE
        /\ PriceOf(n, FALSE, FALSE, m + 1).foreign = FALSE /\ PriceOf(n, FALSE, FALSE, m + 1).at = m + 1
    BY DEF PriceOf
  <2> QED BY <1>4, <2>1, Zenon
<1>8. /\ DOMAIN s = 1 .. m /\ DOMAIN s2 = 1 .. m + 1 /\ s2[m + 1] = t
      /\ \A i \in 1 .. m : s2[i] = s[i]
  BY <1>2, <1>6, TokenDomain, Zenon DEF OneMore
<1>9. m + 1 \notin 1 .. m /\ m + 1 \in 1 .. m + 1 /\ 1 .. m \subseteq 1 .. m + 1
  BY SMT
<1>10. Keeping(s, s2)
  BY <1>8, <1>9, Zenon DEF Keeping
<1>11. InNumerals(s2, p)
  BY <1>3, <1>7, <1>8, Zenon DEF InNumerals
<1>12. \A i \in DOMAIN s2 : i \in DOMAIN s \/ (i = p.at /\ s2[i].is # "symbol")
  <2>1. \A i \in 1 .. m + 1 : i \in 1 .. m \/ i = m + 1
    BY SMT
  <2> QED BY <1>3, <1>7, <1>8, <2>1, Zenon
<1>13. Telling(s, prices)
  BY <1>1, Zenon DEF LineInv
<1>14. Telling(s2, prices \cup {p})
  BY <1>7, <1>8, <1>9, <1>10, <1>11, <1>12, <1>13, PriceMore, Zenon
<1> QED BY <1>5, <1>6, <1>14, Zenon DEF LineInv

\* What a step does to the line: a token more that is no price, or a price.
IsPlainStep == \E t \in Toks : t.is # "symbol" /\ ~t.unit /\ said' = said \o <<t>> /\ prices' = prices
IsPriceStep ==
    \/ \E n \in Numbers, c, f \in BOOLEAN : Price(n, c, f, <<Symbol(IF f THEN "e" ELSE "$"), Number(n, c)>>)
    \/ \E n \in Spoken : \E way \in Ways(n) : Price(n, FALSE, FALSE, <<Numeral(way, TRUE)>>)

\* A step adds words without a price, or a price.
LEMMA StepsAre == ASSUME SayMore PROVE IsPlainStep \/ IsPriceStep
<1>1. CASE \E w \in Words : SayWord(w)
  BY <1>1, TokensAre, Zenon DEF SayWord, Say, IsPlainStep
<1>2. CASE \E n \in Numbers, c \in BOOLEAN : SayNumber(n, c)
  BY <1>2, TokensAre, Zenon DEF SayNumber, Say, IsPlainStep
<1>3. CASE \E n \in Numbers : SayNumeral(n)
  BY <1>3, TokensAre, Zenon DEF SayNumeral, Say, IsPlainStep
<1>4. CASE \E n \in Numbers, c \in BOOLEAN : SayPrice(n, c)
  <2>1. (IF FALSE THEN "e" ELSE "$") = "$"
    OBVIOUS
  <2> QED BY <1>4, <2>1, Zenon DEF SayPrice, IsPriceStep
<1>5. CASE \E n \in Numbers : SayForeign(n)
  <2>1. (IF TRUE THEN "e" ELSE "$") = "e"
    OBVIOUS
  <2> QED BY <1>5, <2>1, Zenon DEF SayForeign, IsPriceStep
<1>6. CASE \E n \in OpeningNumerals : SaySpoken(n)
  <2>1. OpeningNumerals \subseteq Spoken
    BY Zenon DEF OpeningNumerals
  <2> QED BY <1>6, <2>1, Zenon DEF SaySpoken, IsPriceStep
<1> QED BY <1>1, <1>2, <1>3, <1>4, <1>5, <1>6, Zenon DEF SayMore

\* Every step preserves the invariant.
LEMMA LineStep == ASSUME LineInv, [SayMore]_line PROVE LineInv'
<1>1. CASE UNCHANGED line
  BY <1>1, Zenon DEF LineInv, line
<1>2. CASE SayMore
  <2>1. CASE IsPlainStep
    BY <2>1, PlainStep, Zenon DEF IsPlainStep
  <2>2. CASE IsPriceStep
    BY <2>2, DigitsStep, NumeralStep, Zenon DEF IsPriceStep
  <2> QED BY <1>2, <2>1, <2>2, StepsAre
<1> QED BY <1>1, <1>2

\* The line keeps its invariant.
THEOREM LineInvariant == LineSpec => []LineInv
<1>1. EmptyLine => LineInv
  BY LineInit
<1>2. LineInv /\ [SayMore]_line => LineInv'
  BY LineStep
<1> QED BY <1>1, <1>2, PTL DEF LineSpec

-----------------------------------------------------------------------------
(* The tokens that are read. *)

IsRead(T, s) == DOMAIN T = DOMAIN s /\ \A i \in DOMAIN s : T[i] = Rewritten(s[i])

\* The parser's tokens are the line's, each rewritten.
LEMMA TokensAreRead == ASSUME NEW s PROVE IsRead(normalize_cjk_amount_tokens(s), s)
BY Zenon DEF IsRead, normalize_cjk_amount_tokens

\* No characters are no amount.
LEMMA NothingSaid == cjk_to_decimal(<<>>, TRUE) = NoValue
<1>1. Len(<<>>) = 0 /\ DOMAIN <<>> = {}
  OBVIOUS
<1>2. ~_has_cjk_magnitude(<<>>)
  BY <1>1, Zenon DEF _has_cjk_magnitude
<1>3. _parse_cjk_numeral(<<>>) = NoValue
  BY <1>2, Zenon DEF _parse_cjk_numeral
<1>4. _parse_mixed_amount(<<>>) = NoValue
  BY <1>1, Zenon DEF _parse_mixed_amount
<1>5. Len(<<>>) # 1
  BY <1>1
<1> QED BY <1>3, <1>4, <1>5, Zenon DEF cjk_to_decimal, OrMixed

\* A price that is spoken is read as a number in dollars.
LEMMA NumeralPrice ==
    ASSUME NEW n \in Numbers \cup Spoken, NEW way \in Ways(n), NEW r, r = Rewritten(Numeral(way, TRUE))
    PROVE  /\ r.is = "number" /\ r.unit = TRUE /\ r.cents = FALSE
           /\ r.value = n \/ OnesAfterWan(n)
<1>1. n \in 1 .. _MAX_CJK_VALUE
  BY CatalogueAssumption, Zenon
<1>2. cjk_to_decimal(way, TRUE) # NoValue
  BY <1>1, SpokenIsRead, Zenon
<1>3. cjk_to_decimal(way, TRUE) = n \/ OnesAfterWan(n)
  BY <1>1, SpokenIsRead, Zenon
<1>4. way # <<>>
  BY <1>2, NothingSaid, Zenon
<1>5. Numeral(way, TRUE).chars = way /\ Numeral(way, TRUE).unit = TRUE
  BY NumeralIs
<1>6. PICK t : t = Numeral(way, TRUE)
  OBVIOUS
<1>7. t.chars = way /\ t.unit = TRUE
  BY <1>5, <1>6, Zenon
<1>8. Rewritten(t).is = "number" /\ Rewritten(t).cents = FALSE /\ Rewritten(t).unit = TRUE
  BY <1>2, <1>4, <1>7, RewrittenIs, Zenon
<1>9. Rewritten(t).value = cjk_to_decimal(way, TRUE)
  BY <1>2, <1>4, <1>7, RewrittenIs, Zenon
<1> QED BY <1>3, <1>6, <1>8, <1>9, Zenon

\* A $ before a number is a price in dollars, and the other way round.
LEMMA DollarIsPrice ==
    ASSUME NEW s, NEW P, NEW T, Telling(s, P), IsRead(T, s), NEW i \in DOMAIN T, Prefix(T, i) = "$"
    PROVE  \E p \in P : p.at = i /\ ~p.foreign
<1>1. s \in Seq(Toks)
  BY Zenon DEF Telling
<1>2. DOMAIN T = DOMAIN s /\ \A k \in DOMAIN s : T[k] = Rewritten(s[k])
  BY Zenon DEF IsRead
<1>3. CASE T[i].unit
  <2>1. s[i].unit
    BY <1>2, <1>3, RewrittenIs, Zenon
  <2>2. PICK p \in P : p.at = i
    BY <1>2, <2>1, Zenon DEF Telling, UnitsPriced
  <2>3. ~InDigits(s, p)
    <3>1. Number(p.amount, p.cents).unit = FALSE
      BY DEF Number, Token
    <3> QED BY <2>1, <2>2, <3>1, Zenon DEF InDigits
  <2>4. ~p.foreign
    BY <2>2, <2>3, Zenon DEF Telling, PricesSaid, InNumerals
  <2> QED BY <2>2, <2>4
<1>4. CASE ~T[i].unit
  <2>1. i > 1 /\ T[i - 1].is = "symbol" /\ T[i - 1].norm = "$"
    <3>1. "none" # "$"
      OBVIOUS
    <3> QED BY <1>4, <3>1, Zenon DEF Prefix
  <2>2. PICK k \in DOMAIN s : k = i - 1 /\ i = k + 1
    <3>1. i - 1 \in DOMAIN s /\ i = (i - 1) + 1
      BY <1>1, <1>2, <2>1, TokenDomain, SMT
    <3> QED BY <3>1
  <2>3. T[k] = s[k]
    <3>1. "symbol" # "number"
      OBVIOUS
    <3> QED BY <1>2, <2>1, <2>2, <3>1, RewrittenIs, Zenon
  <2>4. PICK p \in P : p.at = i /\ s[k] = Symbol(Sign(p))
    BY <2>1, <2>2, <2>3, Zenon DEF Telling, SymbolsLead
  <2>5. Sign(p) = "$"
    <3>1. Symbol(Sign(p)).norm = Sign(p)
      BY SymbolIs
    <3> QED BY <2>1, <2>2, <2>3, <2>4, <3>1, Zenon
  <2>6. ~p.foreign
    <3>1. "e" # "$"
      OBVIOUS
    <3> QED BY <2>5, <3>1, Zenon DEF Sign
  <2> QED BY <2>4, <2>6
<1> QED BY <1>3, <1>4

\* A price in dollars is, when it is parsed, a number behind a $, with its
\* value.
LEMMA PriceIsDollar ==
    ASSUME NEW s, NEW P, NEW T, Telling(s, P), IsRead(T, s), NEW p \in P, ~p.foreign
    PROVE  /\ p.at \in DOMAIN T /\ T[p.at].is = "number" /\ Prefix(T, p.at) = "$"
           /\ T[p.at].cents = p.cents
           /\ T[p.at].value = p.amount \/ OnesAfterWan(p.amount)
<1>1. s \in Seq(Toks) /\ p \in PriceType
  BY Zenon DEF Telling
<1>2. DOMAIN T = DOMAIN s /\ \A k \in DOMAIN s : T[k] = Rewritten(s[k])
  BY Zenon DEF IsRead
<1>3. p.at \in DOMAIN s /\ (InDigits(s, p) \/ InNumerals(s, p))
  BY Zenon DEF Telling, PricesSaid
<1>4. CASE InDigits(s, p)
  <2>1. p.at - 1 \in DOMAIN s /\ s[p.at] = Number(p.amount, p.cents) /\ s[p.at - 1] = Symbol("$")
    BY <1>4, Zenon DEF InDigits, Sign
  <2>2. PICK t, u : t = Number(p.amount, p.cents) /\ u = Symbol("$")
    OBVIOUS
  <2>3. t.is = "number" /\ t.value = p.amount /\ t.cents = p.cents /\ t.chars = <<>> /\ t.unit = FALSE
    <3>1. /\ Number(p.amount, p.cents).is = "number" /\ Number(p.amount, p.cents).value = p.amount
          /\ Number(p.amount, p.cents).cents = p.cents
          /\ Number(p.amount, p.cents).chars = <<>> /\ Number(p.amount, p.cents).unit = FALSE
      BY DEF Number, Token
    <3> QED BY <2>2, <3>1, Zenon
  <2>4. u.is = "symbol" /\ u.norm = "$" /\ u.chars = <<>>
    <3>1. Symbol("$").is = "symbol" /\ Symbol("$").norm = "$" /\ Symbol("$").chars = <<>>
      BY SymbolIs, Zenon
    <3> QED BY <2>2, <3>1, Zenon
  <2>5. T[p.at] = t /\ T[p.at - 1] = u
    <3>1. Rewritten(t) = t /\ Rewritten(u) = u
      BY <2>3, <2>4, RewrittenIs, Zenon
    <3> QED BY <1>2, <1>3, <2>1, <2>2, <3>1, Zenon
  <2>6. p.at > 1
    BY <1>1, <1>3, <2>1, TokenDomain
  <2>7. Prefix(T, p.at) = "$"
    BY <2>3, <2>4, <2>5, <2>6, Zenon DEF Prefix
  <2> QED BY <1>2, <1>3, <2>3, <2>5, <2>7, Zenon
<1>5. CASE InNumerals(s, p)
  <2>1. PICK way \in Ways(p.amount) : s[p.at] = Numeral(way, TRUE)
    BY <1>5, Zenon DEF InNumerals
  <2>2. p.amount \in Numbers \cup Spoken /\ p.cents \in BOOLEAN
    BY <1>1 DEF PriceType
  <2>3. p.cents = FALSE
    BY <1>5, <2>2, Zenon DEF InNumerals
  <2>4. PICK r : r = T[p.at] /\ r = Rewritten(Numeral(way, TRUE))
    BY <1>2, <1>3, <2>1, Zenon
  <2>5. r.is = "number" /\ r.unit = TRUE /\ r.cents = FALSE /\ (r.value = p.amount \/ OnesAfterWan(p.amount))
    BY <2>2, <2>4, NumeralPrice, Zenon
  <2>6. Prefix(T, p.at) = "$"
    BY <2>4, <2>5, Zenon DEF Prefix
  <2> QED BY <1>2, <1>3, <2>3, <2>4, <2>5, <2>6, Zenon
<1> QED BY <1>3, <1>4, <1>5

-----------------------------------------------------------------------------
(* The best of the candidates. *)

Candidate(T, i) == i \in DOMAIN T /\ T[i].is = "number"
Outdone(T, w) == \A k \in DOMAIN T : Candidate(T, k) /\ k # w => _score_candidate(T, k) < _score_candidate(T, w)
SoleBest(T, w) == w \in DOMAIN T /\ Candidate(T, w) /\ Outdone(T, w)

\* Only numbers behind a $ score above seven.
LEMMA ScoreIs ==
    ASSUME NEW T, NEW i
    PROVE  /\ _score_candidate(T, i) \in 0 .. 10
           /\ Prefix(T, i) = "$" => _score_candidate(T, i) = IF T[i].cents THEN 10 ELSE 9
           /\ Prefix(T, i) # "$" => _score_candidate(T, i) <= 7
<1>1. CASE Prefix(T, i) = "$"
  BY <1>1 DEF _score_candidate
<1>2. CASE Prefix(T, i) # "$"
  BY <1>2 DEF _score_candidate
<1> QED BY <1>1, <1>2

\* The candidates, and the best of them.
Candidates(T) == {i \in DOMAIN T : T[i].is = "number"}
Top(T) == {i \in Candidates(T) : \A k \in Candidates(T) : _score_candidate(T, k) <= _score_candidate(T, i)}
First(S) == CHOOSE i \in S : \A k \in S : i <= k

\* The amount, by the candidates with the best score.
LEMMA ExtractIs ==
    ASSUME NEW T
    PROVE  extract_amount(T) =
              IF Candidates(T) = {} THEN [value |-> None, conf |-> 0, foreign |-> FALSE, span |-> 0]
              ELSE [value |-> T[First(Top(T))].value,
                    conf |-> IF Cardinality(Top(T)) = 1 THEN _score_candidate(T, First(Top(T))) ELSE 0,
                    foreign |-> _score_candidate(T, First(Top(T))) = 3, span |-> First(Top(T))]
BY Zenon DEF extract_amount, Candidates, Top, First

\* The first of a single candidate is that one.
LEMMA FirstOfOne == ASSUME NEW w \in Nat PROVE First({w}) = w /\ Cardinality({w}) = 1
<1>1. Cardinality({w}) = 1
  BY FS_Singleton
<1>2. \A i \in {w} : \A k \in {w} : i <= k
  OBVIOUS
<1>3. First({w}) \in {w}
  BY <1>2, Zenon DEF First
<1> QED BY <1>1, <1>3

\* A candidate that scores above all others is alone at the top.
LEMMA BestIsTop == ASSUME NEW T, NEW w, SoleBest(T, w) PROVE Candidates(T) # {} /\ Top(T) = {w}
<1>1. w \in Candidates(T)
  BY Zenon DEF SoleBest, Candidate, Candidates
<1>2. \A k \in Candidates(T) : k # w => _score_candidate(T, k) < _score_candidate(T, w)
  BY Zenon DEF SoleBest, Outdone, Candidate, Candidates
<1>3. \A k \in Candidates(T) : _score_candidate(T, k) \in Int
  BY ScoreIs
<1>4. w \in Top(T)
  BY <1>1, <1>2, <1>3 DEF Top
<1>5. \A k \in Top(T) : k = w
  BY <1>1, <1>2, <1>3 DEF Top
<1> QED BY <1>1, <1>4, <1>5

\* What is best, and alone, is the amount.
LEMMA BestIsAmount ==
    ASSUME NEW T, NEW w \in Nat, SoleBest(T, w)
    PROVE  /\ extract_amount(T).value = T[w].value
           /\ extract_amount(T).conf = _score_candidate(T, w)
           /\ extract_amount(T).span = w
<1>1. Candidates(T) # {} /\ Top(T) = {w} /\ First({w}) = w /\ Cardinality({w}) = 1
  BY BestIsTop, FirstOfOne, Zenon
<1>2. extract_amount(T) = [value |-> T[w].value, conf |-> _score_candidate(T, w),
                           foreign |-> _score_candidate(T, w) = 3, span |-> w]
  BY <1>1, ExtractIs, Zenon
<1> QED BY <1>2

\* An amount that is certain is best, and alone.
LEMMA CertainIsBest ==
    ASSUME NEW T, IsFiniteSet(DOMAIN T), DOMAIN T \subseteq Nat, extract_amount(T).conf >= 8
    PROVE  \E w \in DOMAIN T : SoleBest(T, w) /\ _score_candidate(T, w) >= 8
<1>1. Candidates(T) # {}
  <2> SUFFICES ASSUME Candidates(T) = {} PROVE FALSE
    OBVIOUS
  <2>1. extract_amount(T) = [value |-> None, conf |-> 0, foreign |-> FALSE, span |-> 0]
    BY ExtractIs, Zenon
  <2> QED BY <2>1
<1>2. PICK w : w = First(Top(T))
  OBVIOUS
<1>3. extract_amount(T).conf = IF Cardinality(Top(T)) = 1 THEN _score_candidate(T, w) ELSE 0
  <2>1. extract_amount(T) =
           [value |-> T[w].value,
            conf |-> IF Cardinality(Top(T)) = 1 THEN _score_candidate(T, w) ELSE 0,
            foreign |-> _score_candidate(T, w) = 3, span |-> w]
    BY <1>1, <1>2, ExtractIs, Zenon
  <2> QED BY <2>1
<1>4. Cardinality(Top(T)) = 1 /\ _score_candidate(T, w) >= 8
  BY <1>3
<1>5. Top(T) \subseteq DOMAIN T
  BY DEF Top, Candidates
<1>6. PICK v : Top(T) = {v}
  <2>1. IsFiniteSet(Top(T))
    BY <1>5, FS_Subset
  <2> QED BY <1>4, <2>1, FS_Singleton
<1>7. v \in Nat /\ v = w
  <2>1. v \in Nat
    BY <1>5, <1>6
  <2> QED BY <1>2, <1>6, <2>1, FirstOfOne, Zenon
<1>8. v \in Candidates(T) /\ \A k \in Candidates(T) : _score_candidate(T, k) <= _score_candidate(T, v)
  BY <1>6 DEF Top
<1>9. ASSUME NEW k \in Candidates(T), k # v PROVE _score_candidate(T, k) < _score_candidate(T, v)
  <2>1. k \notin Top(T)
    BY <1>6, <1>9
  <2>2. PICK m \in Candidates(T) : ~(_score_candidate(T, m) <= _score_candidate(T, k))
    BY <2>1, Zenon DEF Top
  <2>3. _score_candidate(T, m) \in Int /\ _score_candidate(T, k) \in Int /\ _score_candidate(T, v) \in Int
    BY ScoreIs
  <2> QED BY <1>8, <2>2, <2>3
<1>10. SoleBest(T, v)
  BY <1>8, <1>9, Zenon DEF SoleBest, Outdone, Candidate, Candidates
<1> QED BY <1>4, <1>7, <1>8, <1>10, Zenon DEF Candidates

-----------------------------------------------------------------------------
(* What is saved without a review is the price. *)

\* The fields of what the line is matched to.
LEMMA MatchedIs ==
    ASSUME NEW T, NEW a
    PROVE  /\ Matched(T, a).amount = a.value /\ Matched(T, a).conf = a.conf
           /\ Matched(T, a).job = match_job(T, a.span)
           /\ Matched(T, a).supplier = match_supplier(T)
           /\ Matched(T, a).category = match_category(T)
BY DEF Matched

\* The fields of what the line is parsed to.
LEMMA ParsedIs ==
    ASSUME NEW T
    PROVE  /\ ParsedTokens(T).amount = extract_amount(T).value
           /\ ParsedTokens(T).conf = extract_amount(T).conf
           /\ ParsedTokens(T).job = match_job(T, extract_amount(T).span)
           /\ ParsedTokens(T).supplier = match_supplier(T)
           /\ ParsedTokens(T).category = match_category(T)
BY MatchedIs, Zenon DEF ParsedTokens

\* The confidence in the amount is a number.
LEMMA CertainIsInt == ASSUME NEW T PROVE extract_amount(T).conf \in Int
<1>1. CASE Candidates(T) = {}
  <2>1. extract_amount(T) = [value |-> None, conf |-> 0, foreign |-> FALSE, span |-> 0]
    BY <1>1, ExtractIs, Zenon
  <2> QED BY <2>1
<1>2. CASE Candidates(T) # {}
  <2>1. extract_amount(T) =
              [value |-> T[First(Top(T))].value,
               conf |-> IF Cardinality(Top(T)) = 1 THEN _score_candidate(T, First(Top(T))) ELSE 0,
               foreign |-> _score_candidate(T, First(Top(T))) = 3, span |-> First(Top(T))]
    BY <1>2, ExtractIs, Zenon
  <2>2. _score_candidate(T, First(Top(T))) \in Int
    BY ScoreIs
  <2> QED BY <2>1, <2>2
<1> QED BY <1>1, <1>2

\* What is saved without a review has a confidence of at least eight tenths.
LEMMA SavedIsCertain ==
    ASSUME NEW T, SavedReviewed(ParsedTokens(T))
    PROVE  extract_amount(T).conf >= 8
<1>1. ~(ParsedTokens(T).conf < 8)
  BY Zenon DEF SavedReviewed, gating_reasons
<1> QED BY <1>1, ParsedIs, CertainIsInt

\* The parsed tokens stand where the line's do.
LEMMA ReadDomain ==
    ASSUME NEW s, NEW P, NEW T, Telling(s, P), IsRead(T, s)
    PROVE  /\ DOMAIN T = 1 .. Len(s) /\ Len(s) \in Nat
           /\ IsFiniteSet(DOMAIN T) /\ DOMAIN T \subseteq Nat
<1>1. DOMAIN T = 1 .. Len(s) /\ Len(s) \in Nat
  BY TokenDomain, Zenon DEF Telling, IsRead
<1> QED BY <1>1, FS_Interval

\* amount.py:33-36, 146-180, cjk_amounts.py.
LEMMA TellingIsExplained ==
    ASSUME NEW s, NEW P, NEW T, Telling(s, P), IsRead(T, s), SavedReviewed(ParsedTokens(T))
    PROVE  \E p \in P :
              /\ ~p.foreign
              /\ ParsedTokens(T).amount = p.amount \/ OnesAfterWan(p.amount)
              /\ \A q \in P \ {p} : q.foreign \/ (p.cents /\ ~q.cents)
<1>1. IsFiniteSet(DOMAIN T) /\ DOMAIN T \subseteq Nat
  BY ReadDomain
<1>2. PICK w \in DOMAIN T : SoleBest(T, w) /\ _score_candidate(T, w) >= 8
  BY <1>1, SavedIsCertain, CertainIsBest
<1>3. Prefix(T, w) = "$"
  BY <1>2, ScoreIs
<1>4. PICK p \in P : p.at = w /\ ~p.foreign
  BY <1>3, DollarIsPrice
<1>5. T[w].cents = p.cents /\ (T[w].value = p.amount \/ OnesAfterWan(p.amount))
  <2>1. T[p.at].cents = p.cents /\ (T[p.at].value = p.amount \/ OnesAfterWan(p.amount))
    BY <1>4, PriceIsDollar
  <2> QED BY <1>4, <2>1, Zenon
<1>6. ParsedTokens(T).amount = T[w].value
  BY <1>1, <1>2, ParsedIs, BestIsAmount, Zenon
<1>7. ASSUME NEW q \in P \ {p}, ~q.foreign PROVE p.cents /\ ~q.cents
  <2>1. /\ q.at \in DOMAIN T /\ T[q.at].is = "number" /\ Prefix(T, q.at) = "$"
        /\ T[q.at].cents = q.cents
    BY <1>7, PriceIsDollar
  <2>2. q.at # w
    BY <1>4, Zenon DEF Telling, OneEach
  <2>3. _score_candidate(T, q.at) < _score_candidate(T, w)
    BY <1>2, <2>1, <2>2, Zenon DEF SoleBest, Outdone, Candidate
  <2>4. p.cents \in BOOLEAN /\ q.cents \in BOOLEAN
    BY DEF Telling, PriceType
  <2>5. /\ _score_candidate(T, q.at) = IF q.cents THEN 10 ELSE 9
        /\ _score_candidate(T, w) = IF p.cents THEN 10 ELSE 9
    BY <1>3, <1>5, <2>1, ScoreIs, Zenon
  <2> QED BY <2>3, <2>4, <2>5
<1> QED BY <1>4, <1>5, <1>6, <1>7, Zenon

\* A line that is saved without a review has the amount of its price as it was
\* meant (amount.py:33-36, 146-180, cjk_amounts.py).
THEOREM QuietPrice == LineSpec => []QuietIsThePrice
<1>1. LineInv => QuietIsThePrice
  <2> SUFFICES ASSUME LineInv, SavedReviewed(parse(said))
               PROVE  \E p \in prices :
                         /\ ~p.foreign
                         /\ parse(said).amount = p.amount \/ OnesAfterWan(p.amount)
                         /\ \A q \in prices \ {p} : q.foreign \/ (p.cents /\ ~q.cents)
    BY Zenon DEF QuietIsThePrice, Explained
  <2>1. PICK T : T = normalize_cjk_amount_tokens(said)
    OBVIOUS
  <2>2. IsRead(T, said) /\ parse(said) = ParsedTokens(T)
    BY <2>1, TokensAreRead, Zenon DEF parse
  <2>3. SavedReviewed(ParsedTokens(T)) /\ Telling(said, prices)
    BY <2>2, Zenon DEF LineInv
  <2>4. \E p \in prices :
           /\ ~p.foreign
           /\ ParsedTokens(T).amount = p.amount \/ OnesAfterWan(p.amount)
           /\ \A q \in prices \ {p} : q.foreign \/ (p.cents /\ ~q.cents)
    BY <2>2, <2>3, TellingIsExplained
  <2> QED BY <2>2, <2>4, Zenon
<1> QED BY <1>1, LineInvariant, PTL

-----------------------------------------------------------------------------
(* The amount names no job. *)

\* One number in place of another.
Another(T, T2, a) ==
    /\ DOMAIN T2 = DOMAIN T /\ \A k \in DOMAIN T : k # a => T2[k] = T[k]
    /\ T[a].is = "number" /\ T2[a].is = "number"
    /\ T2[a].unit = T[a].unit /\ T2[a].cents = T[a].cents

\* Another amount at a token changes no score.
LEMMA AnotherScores ==
    ASSUME NEW T, NEW T2, NEW a, NEW m \in Nat, DOMAIN T = 1 .. m, Another(T, T2, a), NEW k \in DOMAIN T
    PROVE  Prefix(T2, k) = Prefix(T, k) /\ _score_candidate(T2, k) = _score_candidate(T, k)
<1>1. T2[k].unit = T[k].unit /\ T2[k].cents = T[k].cents
  <2>1. CASE k = a
    BY <2>1, Zenon DEF Another
  <2>2. CASE k # a
    BY <2>2, Zenon DEF Another
  <2> QED BY <2>1, <2>2
<1>2. CASE k > 1
  <2>1. k - 1 \in DOMAIN T
    BY <1>2
  <2>2. PICK j \in DOMAIN T : j = k - 1
    BY <2>1
  <2>3. (j # a /\ T2[j] = T[j]) \/ (T[j].is # "symbol" /\ T2[j].is # "symbol")
    <3>1. "number" # "symbol"
      OBVIOUS
    <3> QED BY <3>1, Zenon DEF Another
  <2>4. Prefix(T2, k) = Prefix(T, k)
    BY <1>1, <1>2, <2>2, <2>3, Zenon DEF Prefix
  <2> QED BY <1>1, <2>4, Zenon DEF _score_candidate
<1>3. CASE ~(k > 1)
  <2>1. Prefix(T2, k) = Prefix(T, k)
    BY <1>1, <1>3, Zenon DEF Prefix
  <2> QED BY <1>1, <2>1, Zenon DEF _score_candidate
<1> QED BY <1>2, <1>3

\* So the best candidate stays the best.
LEMMA AnotherBest ==
    ASSUME NEW T, NEW T2, NEW a, NEW m \in Nat, DOMAIN T = 1 .. m, Another(T, T2, a), SoleBest(T, a)
    PROVE  SoleBest(T2, a)
<1>1. a \in DOMAIN T /\ Outdone(T, a) /\ DOMAIN T2 = DOMAIN T
  BY Zenon DEF SoleBest, Another
<1>2. Candidate(T2, a)
  BY <1>1, Zenon DEF Another, Candidate
<1>3. ASSUME NEW k \in DOMAIN T2, Candidate(T2, k), k # a
      PROVE  _score_candidate(T2, k) < _score_candidate(T2, a)
  <2>1. Candidate(T, k)
    BY <1>3, Zenon DEF Another, Candidate
  <2>2. _score_candidate(T, k) < _score_candidate(T, a)
    BY <1>1, <1>3, <2>1, Zenon DEF Outdone
  <2>3. _score_candidate(T2, k) = _score_candidate(T, k) /\ _score_candidate(T2, a) = _score_candidate(T, a)
    BY <1>1, AnotherScores
  <2> QED BY <2>2, <2>3
<1> QED BY <1>1, <1>2, <1>3, Zenon DEF SoleBest, Outdone

\* The words beside the amount stay.
LEMMA AnotherNormals ==
    ASSUME NEW T, NEW T2, NEW a, Another(T, T2, a)
    PROVE  _word_normals(T2, a) = _word_normals(T, a)
<1>1. {k \in DOMAIN T2 : T2[k].is # "symbol" /\ k # a} = {k \in DOMAIN T : T[k].is # "symbol" /\ k # a}
  BY Zenon DEF Another
<1>2. \A k \in {i \in DOMAIN T : T[i].is # "symbol" /\ i # a} : T2[k].norm = T[k].norm
  BY Zenon DEF Another
<1> QED BY <1>1, <1>2, Zenon DEF _word_normals

\* The only price in dollars is best, and alone.
LEMMA OnlyDollarIsBest ==
    ASSUME NEW s, NEW P, NEW T, Telling(s, P), IsRead(T, s), NEW p \in P, ~p.foreign,
           \A q \in P : q.foreign \/ q = p
    PROVE  SoleBest(T, p.at)
<1>1. p.at \in DOMAIN T /\ T[p.at].is = "number" /\ Prefix(T, p.at) = "$"
  BY PriceIsDollar
<1>2. ASSUME NEW k \in DOMAIN T, k # p.at
      PROVE  _score_candidate(T, k) < _score_candidate(T, p.at)
  <2>1. Prefix(T, k) # "$"
    <3> SUFFICES ASSUME Prefix(T, k) = "$" PROVE FALSE
      OBVIOUS
    <3>1. PICK q \in P : q.at = k /\ ~q.foreign
      BY DollarIsPrice
    <3> QED BY <1>2, <3>1
  <2> QED BY <1>1, <2>1, ScoreIs
<1> QED BY <1>1, <1>2, Zenon DEF SoleBest, Outdone, Candidate

\* A price whose token has no characters is a number.
LEMMA NumberPrice ==
    ASSUME NEW s, NEW P, Telling(s, P), NEW p \in P, s[p.at].chars = <<>>
    PROVE  p.at \in DOMAIN s /\ s[p.at] = Number(p.amount, p.cents)
<1>1. p.at \in DOMAIN s /\ (InDigits(s, p) \/ InNumerals(s, p))
  BY Zenon DEF Telling, PricesSaid
<1>2. CASE InNumerals(s, p)
  <2>1. PICK way \in Ways(p.amount) : s[p.at] = Numeral(way, TRUE)
    BY <1>2, Zenon DEF InNumerals
  <2>2. Numeral(way, TRUE).chars = way
    BY NumeralIs
  <2>3. way = <<>>
    BY <2>1, <2>2, Zenon
  <2>4. p.amount \in Numbers \cup Spoken
    BY DEF Telling, PriceType
  <2>5. p.amount \in 1 .. _MAX_CJK_VALUE
    BY <2>4, CatalogueAssumption, Zenon
  <2>6. cjk_to_decimal(way, TRUE) # NoValue
    BY <2>5, SpokenIsRead, Zenon
  <2> QED BY <2>3, <2>6, NothingSaid, Zenon
<1> QED BY <1>1, <1>2, Zenon DEF InDigits

\* A number is not rewritten.
LEMMA NumberStays ==
    ASSUME NEW n, NEW c
    PROVE  /\ Rewritten(Number(n, c)).is = "number" /\ Rewritten(Number(n, c)).unit = FALSE
           /\ Rewritten(Number(n, c)).cents = c
<1>1. PICK t : t = Number(n, c)
  OBVIOUS
<1>2. t.is = "number" /\ t.unit = FALSE /\ t.cents = c /\ t.chars = <<>>
  <2>1. /\ Number(n, c).is = "number" /\ Number(n, c).unit = FALSE
        /\ Number(n, c).cents = c /\ Number(n, c).chars = <<>>
    BY DEF Number, Token
  <2> QED BY <1>1, <2>1, Zenon
<1>3. Rewritten(t) = t
  BY <1>2, RewrittenIs, Zenon
<1> QED BY <1>1, <1>2, <1>3, Zenon

\* jobs.py:100-134.
LEMMA OtherPriceSameJob ==
    ASSUME NEW s, NEW s2, NEW P, NEW T, NEW T2, Telling(s, P), IsRead(T, s), IsRead(T2, s2),
           NEW p \in P, ~p.foreign, \A q \in P : q.foreign \/ q = p, s[p.at].chars = <<>>,
           DOMAIN s2 = DOMAIN s, \A k \in DOMAIN s : k # p.at => s2[k] = s[k],
           NEW n, s2[p.at] = Number(n, s[p.at].cents)
    PROVE  ParsedTokens(T2).job = ParsedTokens(T).job
<1>1. PICK a : a = p.at
  OBVIOUS
<1>2. SoleBest(T, a)
  BY <1>1, OnlyDollarIsBest
<1>3. PICK m \in Nat : m = Len(s) /\ DOMAIN T = 1 .. m
  BY ReadDomain
<1>4. a \in DOMAIN T /\ a \in Nat
  <2>1. a \in DOMAIN T
    BY <1>2, Zenon DEF SoleBest
  <2> QED BY <1>3, <2>1
<1>5. DOMAIN T = DOMAIN s /\ DOMAIN T2 = DOMAIN s
      /\ (\A k \in DOMAIN s : T[k] = Rewritten(s[k]) /\ T2[k] = Rewritten(s2[k]))
  BY Zenon DEF IsRead
<1>6. PICK c : s[a].cents = c
  OBVIOUS
<1>7. s[a] = Number(p.amount, c) /\ s2[a] = Number(n, c)
  <2>1. s[a] = Number(p.amount, p.cents)
    BY <1>1, NumberPrice, SMT
  <2>2. Number(p.amount, p.cents).cents = p.cents
    BY DEF Number, Token
  <2>3. c = p.cents
    BY <1>6, <2>1, <2>2, Zenon
  <2> QED BY <1>1, <1>6, <2>1, <2>3, Zenon
<1>8. Another(T, T2, a)
  <2>1. T[a] = Rewritten(Number(p.amount, c)) /\ T2[a] = Rewritten(Number(n, c))
    BY <1>4, <1>5, <1>7, Zenon
  <2>2. \A k \in DOMAIN T : k # a => T2[k] = T[k]
    BY <1>1, <1>5, SMT
  <2>3. /\ T[a].is = "number" /\ T2[a].is = "number" /\ T2[a].unit = T[a].unit
        /\ T2[a].cents = T[a].cents
    <3>1. /\ Rewritten(Number(p.amount, c)).is = "number" /\ Rewritten(Number(p.amount, c)).unit = FALSE
          /\ Rewritten(Number(p.amount, c)).cents = c
      BY NumberStays, ZenonT(60)
    <3>2. /\ Rewritten(Number(n, c)).is = "number" /\ Rewritten(Number(n, c)).unit = FALSE
          /\ Rewritten(Number(n, c)).cents = c
      BY NumberStays, ZenonT(60)
    <3> QED BY <2>1, <3>1, <3>2, Zenon
  <2> QED BY <1>5, <2>2, <2>3, Zenon DEF Another
<1>9. SoleBest(T2, a)
  BY <1>2, <1>3, <1>8, AnotherBest
<1>10. extract_amount(T).span = a /\ extract_amount(T2).span = a
  BY <1>2, <1>4, <1>9, BestIsAmount, Zenon
<1>11. match_job(T2, a) = match_job(T, a)
  BY <1>8, AnotherNormals, Zenon DEF match_job
<1> QED BY <1>10, <1>11, ParsedIs, SMT

\* A line with one price in dollars names the same job whatever the amount is
\* (jobs.py:100-134): the amount is not taken for the name of a job.
THEOREM PriceNoJob == LineSpec => []PriceNamesNoJob
<1>1. LineInv => PriceNamesNoJob
  <2> SUFFICES ASSUME LineInv, NEW p \in Dollars, said[p.at].chars = <<>>, Cardinality(Dollars) = 1,
                      NEW n \in Numbers
               PROVE  parse(Repriced(p.at, n)).job = parse(said).job
    BY Zenon DEF PriceNamesNoJob
  <2>1. Telling(said, prices)
    BY Zenon DEF LineInv
  <2>2. p \in prices /\ ~p.foreign
    BY Zenon DEF Dollars
  <2>3. \A q \in prices : q.foreign \/ q = p
    <3>1. IsFiniteSet(Dollars)
      <4>1. Dollars \subseteq prices
        BY Zenon DEF Dollars
      <4> QED BY <2>1, <4>1, FS_Subset, Zenon DEF Telling
    <3>2. PICK d : Dollars = {d}
      BY <3>1, FS_Singleton
    <3>3. \A q \in Dollars : q = p
      BY <3>2
    <3> QED BY <3>3, Zenon DEF Dollars
  <2>4. PICK s2 : s2 = Repriced(p.at, n)
    OBVIOUS
  <2>5. p.at \in DOMAIN said
    BY <2>1, <2>2, NumberPrice
  <2>6. /\ DOMAIN s2 = DOMAIN said /\ \A k \in DOMAIN said : k # p.at => s2[k] = said[k]
        /\ s2[p.at] = Number(n, said[p.at].cents)
    <3>1. PICK m : m = p.at
      OBVIOUS
    <3>2. s2 = [said EXCEPT ![m] = Number(n, said[m].cents)]
      BY <2>4, <3>1, Zenon DEF Repriced
    <3>3. said \in [DOMAIN said -> Toks]
      <4>1. said \in Seq(Toks)
        BY <2>1, Zenon DEF Telling
      <4> QED BY <4>1, ElementOfSeq
    <3> QED BY <2>5, <3>1, <3>2, <3>3
  <2>7. PICK T, T2 : T = normalize_cjk_amount_tokens(said) /\ T2 = normalize_cjk_amount_tokens(s2)
    OBVIOUS
  <2>8. IsRead(T, said) /\ IsRead(T2, s2)
    BY <2>7, TokensAreRead, Zenon
  <2>9. parse(said) = ParsedTokens(T) /\ parse(s2) = ParsedTokens(T2)
    BY <2>7, Zenon DEF parse
  <2>10. ParsedTokens(T2).job = ParsedTokens(T).job
    BY <2>1, <2>2, <2>3, <2>6, <2>8, OtherPriceSameJob
  <2> QED BY <2>4, <2>9, <2>10, Zenon
<1> QED BY <1>1, LineInvariant, PTL

-----------------------------------------------------------------------------
(* A word more turns no answer into another. *)

\* One token more, that is no price.
Extended(T, T2, m) ==
    /\ m \in Nat /\ DOMAIN T = 1 .. m /\ DOMAIN T2 = 1 .. m + 1
    /\ \A k \in DOMAIN T : T2[k] = T[k]
    /\ Prefix(T2, m + 1) # "$"

\* A line with a word more has one position more.
LEMMA ExtendedDomain ==
    ASSUME NEW T, NEW T2, NEW m, Extended(T, T2, m)
    PROVE  /\ m \in Nat /\ DOMAIN T \subseteq DOMAIN T2 /\ DOMAIN T2 = DOMAIN T \cup {m + 1}
           /\ m + 1 \notin DOMAIN T /\ \A k \in DOMAIN T : k < m + 1
           /\ IsFiniteSet(DOMAIN T2) /\ IsFiniteSet(DOMAIN T)
<1>1. m \in Nat /\ DOMAIN T = 1 .. m /\ DOMAIN T2 = 1 .. m + 1
  BY Zenon DEF Extended
<1>2. IsFiniteSet(1 .. m) /\ IsFiniteSet(1 .. m + 1)
  BY <1>1, FS_Interval
<1> QED BY <1>1, <1>2

\* A word more changes no score.
LEMMA ExtendedScores ==
    ASSUME NEW T, NEW T2, NEW m, Extended(T, T2, m), NEW k \in DOMAIN T
    PROVE  Prefix(T2, k) = Prefix(T, k) /\ _score_candidate(T2, k) = _score_candidate(T, k)
<1>1. m \in Nat /\ DOMAIN T = 1 .. m /\ T2[k] = T[k]
  BY Zenon DEF Extended
<1>2. CASE k > 1
  <2>1. PICK j \in DOMAIN T : j = k - 1
    <3>1. k - 1 \in DOMAIN T
      BY <1>1, <1>2
    <3> QED BY <3>1
  <2>2. T2[j] = T[j]
    BY Zenon DEF Extended
  <2>3. Prefix(T2, k) = Prefix(T, k)
    BY <1>1, <1>2, <2>1, <2>2, Zenon DEF Prefix
  <2> QED BY <1>1, <2>3, Zenon DEF _score_candidate
<1>3. CASE ~(k > 1)
  <2>1. Prefix(T2, k) = Prefix(T, k)
    BY <1>1, <1>3, Zenon DEF Prefix
  <2> QED BY <1>1, <2>1, Zenon DEF _score_candidate
<1> QED BY <1>2, <1>3

\* A price stays the best there is: the same tokens are the best.
LEMMA ExtendedTop ==
    ASSUME NEW T, NEW T2, NEW m, Extended(T, T2, m), NEW d \in DOMAIN T, T[d].is = "number", Prefix(T, d) = "$"
    PROVE  Top(T2) = Top(T)
<1>1. /\ DOMAIN T2 = DOMAIN T \cup {m + 1} /\ \A k \in DOMAIN T : T2[k] = T[k]
      /\ DOMAIN T \subseteq DOMAIN T2 /\ m + 1 \notin DOMAIN T
  BY ExtendedDomain, SMT DEF Extended
<1>2. \A k \in DOMAIN T2 : k \in DOMAIN T \/ k = m + 1
  BY <1>1
<1>3. Candidates(T) \subseteq Candidates(T2) /\ \A k \in Candidates(T2) : k \in Candidates(T) \/ k = m + 1
  BY <1>1, <1>2, Zenon DEF Candidates
<1>4. \A k \in Candidates(T) : _score_candidate(T2, k) = _score_candidate(T, k)
  BY ExtendedScores, Zenon DEF Candidates
<1>5. d \in Candidates(T) /\ _score_candidate(T, d) >= 9
  <2>1. _score_candidate(T, d) >= 9
    BY ScoreIs
  <2> QED BY <2>1, Zenon DEF Candidates
<1>6. _score_candidate(T2, m + 1) <= 7
  BY ScoreIs, Zenon DEF Extended
<1>7. \A U, k : _score_candidate(U, k) \in Int
  BY ScoreIs
<1>8. ASSUME NEW i \in Top(T) PROVE i \in Top(T2)
  <2>1. i \in Candidates(T) /\ \A k \in Candidates(T) : _score_candidate(T, k) <= _score_candidate(T, i)
    BY Zenon DEF Top
  <2>2. _score_candidate(T, d) <= _score_candidate(T, i)
    BY <1>5, <2>1
  <2>3. ASSUME NEW k \in Candidates(T2) PROVE _score_candidate(T2, k) <= _score_candidate(T2, i)
    <3>1. CASE k \in Candidates(T)
      BY <1>4, <2>1, <3>1
    <3>2. CASE k = m + 1
      <4>1. _score_candidate(T2, k) <= 7
        BY <1>6, <3>2, Zenon
      <4>2. _score_candidate(T2, i) = _score_candidate(T, i)
        BY <1>4, <2>1
      <4> QED BY <1>5, <1>7, <2>2, <4>1, <4>2
    <3> QED BY <1>3, <3>1, <3>2
  <2> QED BY <1>3, <2>1, <2>3, Zenon DEF Top
<1>9. ASSUME NEW i \in Top(T2) PROVE i \in Top(T)
  <2>1. i \in Candidates(T2) /\ \A k \in Candidates(T2) : _score_candidate(T2, k) <= _score_candidate(T2, i)
    BY Zenon DEF Top
  <2>2. i # m + 1
    <3>1. _score_candidate(T2, d) <= _score_candidate(T2, i) /\ _score_candidate(T2, d) = _score_candidate(T, d)
      BY <1>3, <1>4, <1>5, <2>1
    <3> SUFFICES ASSUME i = m + 1 PROVE FALSE
      OBVIOUS
    <3>2. _score_candidate(T2, i) <= 7
      BY <1>6, Zenon
    <3> QED BY <1>5, <1>7, <3>1, <3>2
  <2>3. i \in Candidates(T)
    BY <1>3, <2>1, <2>2
  <2>4. \A k \in Candidates(T) : _score_candidate(T, k) <= _score_candidate(T, i)
    BY <1>3, <1>4, <2>1, <2>3
  <2> QED BY <2>3, <2>4, Zenon DEF Top
<1> QED BY <1>8, <1>9

\* With a number behind a $ in the line, a word more does not move the
\* amount.
LEMMA ExtendedSpan ==
    ASSUME NEW T, NEW T2, NEW m, Extended(T, T2, m), NEW d \in DOMAIN T, T[d].is = "number", Prefix(T, d) = "$"
    PROVE  extract_amount(T).span = extract_amount(T2).span
<1>1. Top(T2) = Top(T)
  BY ExtendedTop
<1>2. Candidates(T) # {} /\ Candidates(T2) # {}
  <2>1. d \in Candidates(T)
    BY Zenon DEF Candidates
  <2>2. d \in Candidates(T2)
    BY ExtendedDomain, Zenon DEF Candidates, Extended
  <2> QED BY <2>1, <2>2
<1>3. extract_amount(T).span = First(Top(T))
  <2>1. extract_amount(T) =
              [value |-> T[First(Top(T))].value,
               conf |-> IF Cardinality(Top(T)) = 1 THEN _score_candidate(T, First(Top(T))) ELSE 0,
               foreign |-> _score_candidate(T, First(Top(T))) = 3, span |-> First(Top(T))]
    BY <1>2, ExtractIs, Zenon
  <2> QED BY <2>1
<1>4. extract_amount(T2).span = First(Top(T2))
  <2>1. extract_amount(T2) =
              [value |-> T2[First(Top(T2))].value,
               conf |-> IF Cardinality(Top(T2)) = 1 THEN _score_candidate(T2, First(Top(T2))) ELSE 0,
               foreign |-> _score_candidate(T2, First(Top(T2))) = 3, span |-> First(Top(T2))]
    BY <1>2, ExtractIs, Zenon
  <2> QED BY <2>1
<1> QED BY <1>1, <1>3, <1>4, Zenon

\* OnlyOne gives what is alone; a set with more in it gives the same or nothing.
LEMMA OnlyOneGrows ==
    ASSUME NEW S, NEW S2, IsFiniteSet(S2), S \subseteq S2, OnlyOne(S) # None
    PROVE  OnlyOne(S2) \in {OnlyOne(S), None}
<1>1. IsFiniteSet(S) /\ Cardinality(S) = 1
  <2>1. IsFiniteSet(S)
    BY FS_Subset
  <2> QED BY <2>1, Zenon DEF OnlyOne
<1>2. PICK x : S = {x}
  BY <1>1, FS_Singleton
<1>3. OnlyOne(S) = x
  <2>1. (CHOOSE y \in {x} : TRUE) = x
    OBVIOUS
  <2> QED BY <1>1, <1>2, <2>1, Zenon DEF OnlyOne
<1>4. CASE Cardinality(S2) = 1
  <2>1. PICK y : S2 = {y}
    BY <1>4, FS_Singleton
  <2>2. y = x
    BY <1>2, <2>1
  <2>3. OnlyOne(S2) = y
    <3>1. (CHOOSE z \in {y} : TRUE) = y
      OBVIOUS
    <3> QED BY <1>4, <2>1, <3>1, Zenon DEF OnlyOne
  <2> QED BY <1>3, <2>2, <2>3
<1>5. CASE Cardinality(S2) # 1
  BY <1>5, Zenon DEF OnlyOne
<1> QED BY <1>4, <1>5

\* Words that name a job still name it.
LEMMA ExtendedNamesJob ==
    ASSUME NEW T, NEW T2, NEW m, Extended(T, T2, m), NEW span, NEW j,
           NamesJob(_word_normals(T, span), j)
    PROVE  NamesJob(_word_normals(T2, span), j)
<1>1. PICK N, N2 : N = _word_normals(T, span) /\ N2 = _word_normals(T2, span)
  OBVIOUS
<1>2. /\ m \in Nat /\ DOMAIN T \subseteq DOMAIN T2 /\ \A k \in DOMAIN T2 : k \in DOMAIN T \/ k = m + 1
      /\ \A k \in DOMAIN T : k < m + 1 /\ k \in Nat /\ T2[k] = T[k]
  <2>1. m \in Nat /\ DOMAIN T = 1 .. m
    BY Zenon DEF Extended
  <2>2. \A k \in DOMAIN T2 : k \in DOMAIN T \/ k = m + 1
    <3>1. DOMAIN T2 = DOMAIN T \cup {m + 1}
      BY ExtendedDomain
    <3> QED BY <3>1, Zenon
  <2>3. \A k \in DOMAIN T : k < m + 1 /\ k \in Nat
    BY <2>1
  <2>4. DOMAIN T \subseteq DOMAIN T2
    BY ExtendedDomain
  <2> QED BY <2>1, <2>2, <2>3, <2>4, Zenon DEF Extended
<1>3. /\ \A k \in DOMAIN N : k \in DOMAIN N2 /\ N2[k] = N[k] /\ k \in DOMAIN T
      /\ \A k \in DOMAIN N2 : k \in DOMAIN N \/ k = m + 1
  <2>1. /\ DOMAIN N = {k \in DOMAIN T : T[k].is # "symbol" /\ k # span}
        /\ DOMAIN N2 = {k \in DOMAIN T2 : T2[k].is # "symbol" /\ k # span}
    BY <1>1, Zenon DEF _word_normals
  <2>2. \A k \in DOMAIN N : N[k] = T[k].norm
    BY <1>1, Zenon DEF _word_normals
  <2>3. \A k \in DOMAIN N2 : N2[k] = T2[k].norm
    BY <1>1, Zenon DEF _word_normals
  <2>4. \A k \in DOMAIN N : k \in DOMAIN T /\ k \in DOMAIN N2
    BY <1>2, <2>1, Zenon
  <2>5. \A k \in DOMAIN N : N2[k] = N[k]
    BY <1>2, <2>2, <2>3, <2>4, Zenon
  <2>6. \A k \in DOMAIN N2 : k \in DOMAIN N \/ k = m + 1
    BY <1>2, <2>1, Zenon
  <2> QED BY <2>4, <2>5, <2>6, Zenon
<1>4. CASE \E i \in DOMAIN N : N[i] \in JobAliases[j] \cup {JobCode[j]}
  <2>1. \E i \in DOMAIN N2 : N2[i] \in JobAliases[j] \cup {JobCode[j]}
    BY <1>3, <1>4, Zenon
  <2> QED BY <1>1, <2>1, Zenon DEF NamesJob
<1>5. CASE InARow(JobName[j], N)
  <2>1. PICK name : name = JobName[j]
    OBVIOUS
  <2>2. PICK at \in [DOMAIN name -> DOMAIN N] :
           /\ \A k \in DOMAIN name : N[at[k]] = name[k]
           /\ \A k \in DOMAIN name \ {1} :
                 at[k - 1] < at[k] /\ \A i \in DOMAIN N : i <= at[k - 1] \/ at[k] <= i
    BY <1>5, <2>1, Zenon DEF InARow
  <2>3. at \in [DOMAIN name -> DOMAIN N2]
    BY <1>3, <2>2
  <2>4. \A k \in DOMAIN name : N2[at[k]] = name[k]
    BY <1>3, <2>2
  <2>5. ASSUME NEW k \in DOMAIN name \ {1}
        PROVE  at[k - 1] < at[k] /\ \A i \in DOMAIN N2 : i <= at[k - 1] \/ at[k] <= i
    <3>1. at[k] \in DOMAIN N
      BY <2>2
    <3>2. at[k] < m + 1 /\ at[k] \in Nat
      BY <1>2, <1>3, <3>1
    <3>3. at[k] <= m + 1
      BY <1>2, <3>2
    <3>4. \A i \in DOMAIN N : i <= at[k - 1] \/ at[k] <= i
      BY <2>2, Zenon
    <3>5. at[k - 1] < at[k]
      BY <2>2, Zenon
    <3> QED BY <1>3, <3>3, <3>4, <3>5, Zenon
  <2>6. InARow(JobName[j], N2)
    BY <2>1, <2>3, <2>4, <2>5, Zenon DEF InARow
  <2> QED BY <1>1, <2>6, Zenon DEF NamesJob
<1> QED BY <1>1, <1>4, <1>5, Zenon DEF NamesJob

\* A word more does not turn one job into another.
LEMMA ExtendedJob ==
    ASSUME NEW T, NEW T2, NEW m, Extended(T, T2, m), NEW span,
           match_job(T, span) # None
    PROVE  match_job(T2, span) \in {match_job(T, span), None}
<1>1. PICK S, S2 : /\ S = {j \in CatalogueJobs : NamesJob(_word_normals(T, span), j)}
                   /\ S2 = {j \in CatalogueJobs : NamesJob(_word_normals(T2, span), j)}
  OBVIOUS
<1>2. match_job(T, span) = OnlyOne(S) /\ match_job(T2, span) = OnlyOne(S2)
  BY <1>1, Zenon DEF match_job
<1>3. S \subseteq S2
  BY <1>1, ExtendedNamesJob, Zenon
<1>4. IsFiniteSet(S2)
  <2>1. S2 \subseteq CatalogueJobs
    BY <1>1, Zenon
  <2> QED BY <2>1, CatalogueAssumption, FS_Subset, Zenon
<1> QED BY <1>2, <1>3, <1>4, OnlyOneGrows, Zenon

\* A word more does not turn one supplier into another.
LEMMA ExtendedSupplier ==
    ASSUME NEW T, NEW T2, NEW m, Extended(T, T2, m), match_supplier(T) # None
    PROVE  match_supplier(T2) \in {match_supplier(T), None}
<1>1. PICK S, S2 : /\ S = {s \in ActiveSuppliers : Names(T) \cap SupplierNames[s] # {}}
                   /\ S2 = {s \in ActiveSuppliers : Names(T2) \cap SupplierNames[s] # {}}
  OBVIOUS
<1>2. match_supplier(T) = OnlyOne(S) /\ match_supplier(T2) = OnlyOne(S2)
  BY <1>1, Zenon DEF match_supplier
<1>3. Names(T) \subseteq Names(T2)
  <2>1. \A k \in DOMAIN T : k \in DOMAIN T2 /\ T2[k] = T[k]
    BY ExtendedDomain, Zenon DEF Extended
  <2> QED BY <2>1, Zenon DEF Names
<1>4. S \subseteq S2
  BY <1>1, <1>3, Zenon
<1>5. IsFiniteSet(S2)
  <2>1. S2 \subseteq ActiveSuppliers
    BY <1>1, Zenon
  <2> QED BY <2>1, CatalogueAssumption, FS_Subset, Zenon
<1> QED BY <1>2, <1>4, <1>5, OnlyOneGrows, Zenon

\* A word more is at most one hit more.
LEMMA ExtendedHits ==
    ASSUME NEW T, NEW T2, NEW m, Extended(T, T2, m), NEW c
    PROVE  /\ Hits(T, c) \in Nat /\ Hits(T2, c) \in Nat
           /\ Hits(T, c) <= Hits(T2, c) /\ Hits(T2, c) <= Hits(T, c) + 1
<1>1. PICK H, H2 : /\ H = {i \in DOMAIN T : T[i].is = "word" /\ T[i].norm \in CATEGORY_KEYWORDS[c]}
                   /\ H2 = {i \in DOMAIN T2 : T2[i].is = "word" /\ T2[i].norm \in CATEGORY_KEYWORDS[c]}
  OBVIOUS
<1>2. Hits(T, c) = Cardinality(H) /\ Hits(T2, c) = Cardinality(H2)
  BY <1>1, Zenon DEF Hits
<1>3. IsFiniteSet(H)
  <2>1. H \subseteq DOMAIN T
    BY <1>1, Zenon
  <2> QED BY <2>1, ExtendedDomain, FS_Subset
<1>4. PICK x : x = m + 1
  OBVIOUS
<1>5. x \notin DOMAIN T /\ DOMAIN T2 = DOMAIN T \cup {x}
  BY <1>4, ExtendedDomain
<1>6. \A k \in DOMAIN T : T2[k] = T[k]
  BY Zenon DEF Extended
<1>7. H2 = H \/ H2 = H \cup {x}
  <2>1. \A k : k \in H2 => k \in H \/ k = x
    BY <1>1, <1>5, <1>6, Zenon
  <2>2. \A k \in H : k \in H2
    BY <1>1, <1>5, <1>6, Zenon
  <2> QED BY <2>1, <2>2
<1>8. x \notin H
  BY <1>1, <1>5, Zenon
<1>9. Cardinality(H) \in Nat /\ Cardinality(H \cup {x}) = Cardinality(H) + 1
  BY <1>3, <1>8, FS_AddElement, FS_CardinalityType
<1>10. PICK h \in Nat : h = Cardinality(H)
  BY <1>9
<1>11. Cardinality(H2) = h \/ Cardinality(H2) = h + 1
  BY <1>7, <1>9, <1>10, Zenon
<1>12. PICK h2 \in Nat : h2 = Cardinality(H2) /\ h <= h2 /\ h2 <= h + 1
  BY <1>11
<1> QED BY <1>2, <1>10, <1>12, Zenon

\* The categories with the most hits.
MostHits(T) ==
    {c \in Categories : Hits(T, c) > 0 /\ \A d \in Categories : Hits(T, d) <= Hits(T, c)}

\* The category is the one with the most hits, if it is alone and in the
\* catalogue.
LEMMA MatchesMostHits ==
    ASSUME NEW T
    PROVE  match_category(T) = IF OnlyOne(MostHits(T)) \in ActiveCategories THEN OnlyOne(MostHits(T)) ELSE None
BY Zenon DEF match_category, MostHits

\* What OnlyOne returns is the only member.
LEMMA OnlyMember ==
    ASSUME NEW S, IsFiniteSet(S), OnlyOne(S) # None
    PROVE  S = {OnlyOne(S)}
<1>1. Cardinality(S) = 1
  BY Zenon DEF OnlyOne
<1>2. PICK x : S = {x}
  BY <1>1, FS_Singleton
<1>3. OnlyOne(S) = x
  <2>1. (CHOOSE y \in {x} : TRUE) = x
    OBVIOUS
  <2> QED BY <1>1, <1>2, <2>1, Zenon DEF OnlyOne
<1> QED BY <1>2, <1>3, Zenon

\* A word more does not put another category alone at the top.
LEMMA MostHitsStay ==
    ASSUME NEW T, NEW T2, NEW m, Extended(T, T2, m), NEW c, MostHits(T) = {c},
           NEW d, MostHits(T2) = {d}
    PROVE  d = c
<1> SUFFICES ASSUME d # c PROVE FALSE
  OBVIOUS
<1>1. /\ c \in Categories /\ Hits(T, c) > 0 /\ \A e \in Categories : Hits(T, e) <= Hits(T, c)
  <2>1. c \in MostHits(T)
    OBVIOUS
  <2> QED BY <2>1, Zenon DEF MostHits
<1>2. /\ d \in Categories /\ \A e \in Categories : Hits(T2, e) <= Hits(T2, d)
  <2>1. d \in MostHits(T2)
    OBVIOUS
  <2> QED BY <2>1, Zenon DEF MostHits
<1>3. \A e : /\ Hits(T, e) \in Nat /\ Hits(T2, e) \in Nat
             /\ Hits(T, e) <= Hits(T2, e) /\ Hits(T2, e) <= Hits(T, e) + 1
  BY ExtendedHits
<1>4. Hits(T, d) < Hits(T, c)
  <2>1. d \notin MostHits(T)
    OBVIOUS
  <2>2. ~(Hits(T, d) > 0) \/ \E e \in Categories : ~(Hits(T, e) <= Hits(T, d))
    BY <1>2, <2>1, Zenon DEF MostHits
  <2> QED BY <1>1, <1>3, <2>2
<1>5. PICK e \in Categories : ~(Hits(T2, e) <= Hits(T2, c))
  <2>1. c \notin MostHits(T2)
    OBVIOUS
  <2>2. ~(Hits(T2, c) > 0) \/ \E e \in Categories : ~(Hits(T2, e) <= Hits(T2, c))
    BY <1>1, <2>1, Zenon DEF MostHits
  <2>3. Hits(T2, c) > 0
    BY <1>1, <1>3
  <2> QED BY <2>2, <2>3
<1>6. Hits(T2, e) <= Hits(T2, d)
  BY <1>2
<1>7. /\ Hits(T, c) \in Nat /\ Hits(T2, c) \in Nat /\ Hits(T, c) <= Hits(T2, c)
      /\ Hits(T, d) \in Nat /\ Hits(T2, d) \in Nat /\ Hits(T2, d) <= Hits(T, d) + 1
      /\ Hits(T2, e) \in Nat
  BY <1>3
<1> QED BY <1>4, <1>5, <1>6, <1>7

\* A word more does not turn one category into another.
LEMMA ExtendedCategory ==
    ASSUME NEW T, NEW T2, NEW m, Extended(T, T2, m), match_category(T) # None
    PROVE  match_category(T2) \in {match_category(T), None}
<1>1. IsFiniteSet(MostHits(T)) /\ IsFiniteSet(MostHits(T2))
  <2>1. MostHits(T) \subseteq Categories /\ MostHits(T2) \subseteq Categories
    BY Zenon DEF MostHits
  <2> QED BY <2>1, CatalogueAssumption, FS_Subset, Zenon
<1>2. PICK c : c = OnlyOne(MostHits(T))
  OBVIOUS
<1>3. match_category(T) = c /\ c # None /\ c \in ActiveCategories
  BY <1>2, MatchesMostHits, Zenon
<1>4. MostHits(T) = {c}
  BY <1>1, <1>2, <1>3, OnlyMember, Zenon
<1>5. PICK d : d = OnlyOne(MostHits(T2))
  OBVIOUS
<1>6. CASE d = None
  BY <1>5, <1>6, MatchesMostHits, Zenon
<1>7. CASE d # None
  <2>1. MostHits(T2) = {d}
    BY <1>1, <1>5, <1>7, OnlyMember, Zenon
  <2>2. d = c
    BY <1>4, <2>1, MostHitsStay
  <2>3. match_category(T2) = c
    BY <1>3, <1>5, <2>2, MatchesMostHits, Zenon
  <2> QED BY <1>3, <2>3
<1> QED BY <1>6, <1>7

\* Each answer stays, or there is none.
LEMMA ExtendedKeeps ==
    ASSUME NEW T, NEW T2, NEW m, Extended(T, T2, m), NEW d \in DOMAIN T, T[d].is = "number", Prefix(T, d) = "$"
    PROVE  Keeps(ParsedTokens(T), ParsedTokens(T2))
<1>1. PICK span : span = extract_amount(T).span
  OBVIOUS
<1>2. span = extract_amount(T2).span
  BY <1>1, ExtendedSpan, Zenon
<1>3. match_job(T, span) # None => match_job(T2, span) \in {match_job(T, span), None}
  BY ExtendedJob
<1>4. match_supplier(T) # None => match_supplier(T2) \in {match_supplier(T), None}
  BY ExtendedSupplier
<1>5. match_category(T) # None => match_category(T2) \in {match_category(T), None}
  BY ExtendedCategory
<1>6. PICK p, q : p = ParsedTokens(T) /\ q = ParsedTokens(T2)
  OBVIOUS
<1>7. p.job = match_job(T, span) /\ p.supplier = match_supplier(T) /\ p.category = match_category(T)
  BY <1>1, <1>6, ParsedIs, Zenon
<1>8. q.job = match_job(T2, span) /\ q.supplier = match_supplier(T2) /\ q.category = match_category(T2)
  BY <1>2, <1>6, ParsedIs, Zenon
<1>9. Keeps(p, q)
  BY <1>3, <1>4, <1>5, <1>7, <1>8, Zenon DEF Keeps
<1> QED BY <1>6, <1>9, Zenon

\* No line ends in a symbol: what is said next is a price only with its own.
LEMMA PlainIsExtended ==
    ASSUME NEW s, NEW s2, NEW P, NEW T, NEW T2, NEW t, Telling(s, P), OneMore(s, s2, t),
           t.is # "symbol", ~t.unit, IsRead(T, s), IsRead(T2, s2)
    PROVE  Extended(T, T2, Len(s))
<1>1. s \in Seq(Toks) /\ s2 \in Seq(Toks)
  BY Zenon DEF Telling, OneMore
<1>2. PICK m \in Nat : m = Len(s)
  BY <1>1, TokenDomain, Zenon
<1>3. DOMAIN s = 1 .. m /\ DOMAIN s2 = 1 .. m + 1 /\ s2[m + 1] = t /\ \A i \in 1 .. m : s2[i] = s[i]
  BY <1>1, <1>2, TokenDomain, Zenon DEF OneMore
<1>4. /\ DOMAIN T = 1 .. m /\ DOMAIN T2 = 1 .. m + 1
      /\ \A i \in 1 .. m : T[i] = Rewritten(s[i])
      /\ \A i \in 1 .. m + 1 : T2[i] = Rewritten(s2[i])
  BY <1>3, Zenon DEF IsRead
<1>5. m + 1 \in 1 .. m + 1 /\ \A i \in 1 .. m : i \in 1 .. m + 1
  BY SMT
<1>6. \A k \in DOMAIN T : T2[k] = T[k]
  BY <1>3, <1>4, <1>5, Zenon
<1>7. ~T2[m + 1].unit
  <2>1. T2[m + 1] = Rewritten(t)
    BY <1>3, <1>4, <1>5, Zenon
  <2> QED BY <2>1, RewrittenIs, Zenon
<1>8. ASSUME m + 1 > 1, T2[(m + 1) - 1].is = "symbol" PROVE FALSE
  <2>1. m \in 1 .. m /\ (m + 1) - 1 = m
    BY <1>8
  <2>2. T[m].is = "symbol"
    BY <1>4, <1>6, <1>8, <2>1, Zenon
  <2>3. s[m].is = "symbol"
    <3>1. "symbol" # "number"
      OBVIOUS
    <3> QED BY <1>4, <2>1, <2>2, <3>1, RewrittenIs, Zenon
  <2>4. PICK p \in P : p.at = m + 1
    BY <1>3, <2>1, <2>3, Zenon DEF Telling, SymbolsLead
  <2>5. m + 1 \in 1 .. m
    BY <1>3, <2>4, Zenon DEF Telling, PricesSaid
  <2> QED BY <2>5, SMT
<1>9. Prefix(T2, m + 1) # "$"
  <2>1. "none" # "$"
    OBVIOUS
  <2> QED BY <1>7, <1>8, <2>1, Zenon DEF Prefix
<1> QED BY <1>2, <1>4, <1>6, <1>9, Zenon DEF Extended

\* A price more is a price: the prices are not what they were.
LEMMA PriceIsNew ==
    ASSUME LineInv, IsPriceStep
    PROVE  prices' # prices
<1>1. PICK s \in Seq(Toks) : s = said
  BY Zenon DEF LineInv, Telling
<1>2. PICK m \in Nat : m = Len(s) /\ DOMAIN s = 1 .. m
  BY TokenDomain, Zenon
<1>3. \A p \in prices : p.at \in 1 .. m
  BY <1>1, <1>2, Zenon DEF LineInv, Telling, PricesSaid
<1>4. PICK n, c, f, tokens : Price(n, c, f, tokens) /\ Len(tokens) \in Nat /\ Len(tokens) > 0
  <2>1. \A t, u : Len(<<t>>) \in Nat /\ Len(<<t>>) > 0 /\ Len(<<t, u>>) \in Nat /\ Len(<<t, u>>) > 0
    OBVIOUS
  <2>2. CASE \E n \in Numbers, c, f \in BOOLEAN :
                Price(n, c, f, <<Symbol(IF f THEN "e" ELSE "$"), Number(n, c)>>)
    BY <2>1, <2>2, Zenon
  <2>3. CASE \E n \in Spoken : \E way \in Ways(n) : Price(n, FALSE, FALSE, <<Numeral(way, TRUE)>>)
    BY <2>1, <2>3, Zenon
  <2> QED BY <2>2, <2>3, Zenon DEF IsPriceStep
<1>5. PICK p : p = PriceOf(n, c, f, m + Len(tokens))
  OBVIOUS
<1>6. p \in prices'
  BY <1>1, <1>2, <1>4, <1>5, Zenon DEF Price, PriceOf
<1>7. p.at = m + Len(tokens)
  BY <1>5 DEF PriceOf
<1>8. p.at \notin 1 .. m
  BY <1>4, <1>7
<1> QED BY <1>3, <1>6, <1>8, Zenon

\* Once a line has its price, a word more makes its job, supplier or category known
\* or unknown, and never another (jobs.py, suppliers.py, categories.py).
THEOREM WordsKeepAnswers == LineSpec => NoQuietSwitch
<1>1. ASSUME LineInv, SayMore, prices' = prices, Dollars # {}
      PROVE  Keeps(parse(said), parse(said'))
  <2>1. PICK t \in Toks : t.is # "symbol" /\ ~t.unit /\ said' = said \o <<t>>
    BY <1>1, StepsAre, PriceIsNew, Zenon DEF IsPlainStep
  <2>2. PICK s, s2 : s = said /\ s2 = said'
    OBVIOUS
  <2>3. Telling(s, prices)
    BY <1>1, <2>2, Zenon DEF LineInv
  <2>4. OneMore(s, s2, t)
    <3>1. s \in Seq(Toks)
      BY <2>3, Zenon DEF Telling
    <3> QED BY <2>1, <2>2, <3>1, OneIsMore, Zenon
  <2>5. PICK T, T2 : T = normalize_cjk_amount_tokens(s) /\ T2 = normalize_cjk_amount_tokens(s2)
    OBVIOUS
  <2>6. IsRead(T, s) /\ IsRead(T2, s2)
    BY <2>5, TokensAreRead, Zenon
  <2>7. Extended(T, T2, Len(s))
    BY <2>1, <2>3, <2>4, <2>6, PlainIsExtended
  <2>8. PICK p \in prices : ~p.foreign
    BY <1>1, Zenon DEF Dollars
  <2>9. p.at \in DOMAIN T /\ T[p.at].is = "number" /\ Prefix(T, p.at) = "$"
    BY <2>3, <2>6, <2>8, PriceIsDollar
  <2>10. Keeps(ParsedTokens(T), ParsedTokens(T2))
    BY <2>7, <2>9, ExtendedKeeps, Zenon
  <2>11. parse(said) = ParsedTokens(T) /\ parse(said') = ParsedTokens(T2)
    BY <2>2, <2>5, Zenon DEF parse
  <2> QED BY <2>10, <2>11, Zenon
<1>2. LineInv /\ [SayMore]_line =>
         [prices' = prices /\ Dollars # {} => Keeps(parse(said), parse(said'))]_line
  BY <1>1, Zenon
<1> QED BY <1>2, LineInvariant, PTL DEF LineSpec, NoQuietSwitch

-----------------------------------------------------------------------------
(* The split. *)

\* compute_gst_split (expense.py:265-296): for every amount.
LEMMA SplitOf ==
    ASSUME NEW inc \in Nat, NEW pay
    PROVE  LET x == compute_gst_split(inc, pay)
           IN  /\ x = [ex |-> x.ex, gst |-> x.gst]
               /\ x.ex \in Nat /\ x.gst \in 0 .. inc /\ x.ex + x.gst = inc
               /\ pay = "cash" => x.gst = 0
               /\ pay # "cash" => 11 * x.gst - inc \in -5 .. 5
<1> DEFINE ex == (20 * inc + 11) \div 22
<1>1. ex \in Int /\ 22 * ex <= 20 * inc + 11 /\ 20 * inc + 11 < 22 * ex + 22
  BY SMT
<1>2. inc = 0 => ex = 0
  BY <1>1, SMT
<1>3. ex \in 0 .. inc
  BY <1>1, <1>2, SMT
<1>4. 11 * (inc - ex) - inc \in -5 .. 5
  BY <1>1, SMT
<1>5. CASE pay = "cash"
  BY <1>5, SMT DEF compute_gst_split
<1>6. CASE pay # "cash"
  <2>1. compute_gst_split(inc, pay) = [ex |-> ex, gst |-> inc - ex]
    BY <1>6 DEF compute_gst_split, ExGst
  <2> QED BY <1>3, <1>4, <1>6, <2>1, SMT
<1> QED BY <1>5, <1>6

\* expense.py:265-296, 325-359: the split is exact for every number of cents.
THEOREM SplitIsAlwaysExact == SplitIsExact
<1> SUFFICES ASSUME NEW inc \in Cents, NEW pay \in Payments
             PROVE  LET x == compute_gst_split(inc, pay)
                    IN  /\ x.ex + x.gst = inc
                        /\ IF pay = "cash" THEN x.gst = 0 ELSE 11 * x.gst - inc \in -5 .. 5
                        /\ x.gst \in 0 .. inc
                        /\ pay # "cash" =>
                              reconcile_gst_split(inc, NoCents, x.gst, pay) = x
                              /\ reconcile_gst_split(inc, x.ex, NoCents, pay) = x
  BY DEF SplitIsExact
<1> DEFINE x == compute_gst_split(inc, pay)
<1>1. inc \in Nat
  BY ReviewAssumption
<1>2. /\ x = [ex |-> x.ex, gst |-> x.gst]
      /\ x.ex \in Nat /\ x.gst \in 0 .. inc /\ x.ex + x.gst = inc
      /\ pay = "cash" => x.gst = 0
      /\ pay # "cash" => 11 * x.gst - inc \in -5 .. 5
  BY <1>1, SplitOf
<1> HIDE DEF x
<1>3. x.ex # NoCents /\ x.gst # NoCents /\ inc - x.gst = x.ex /\ inc - x.ex = x.gst
  BY <1>1, <1>2 DEF NoCents
<1>4. ASSUME pay # "cash"
      PROVE  reconcile_gst_split(inc, NoCents, x.gst, pay) = x
             /\ reconcile_gst_split(inc, x.ex, NoCents, pay) = x
  BY <1>2, <1>3, <1>4 DEF reconcile_gst_split
<1> QED BY <1>2, <1>4 DEF x

-----------------------------------------------------------------------------
(* What a request makes of an expense. *)

USE ReviewAssumption

\* What nobody has read yet is an expense, an empty patch and an idle request.
LEMMA NoExpenseType == NoExpense \in Expense /\ NoPatch \in Patch /\ Idle \in Request
BY DEF NoExpense, NoPatch, Idle, A, Expense, Patch, Request, NoQueue, Queue, Payments,
       Statuses

\* A choice of fields from two expenses is one, if its amount stays a natural.
LEMMA CombineType ==
    ASSUME NEW S, NEW x \in Expense, NEW y \in Expense
    PROVE  Combine(S, x, y) \in Expense
BY DEF Combine, Expense

\* A patch of an expense is an expense.
LEMMA PatchedType ==
    ASSUME NEW q \in Request
    PROVE  /\ q.patch \in Patch /\ q.saw \in Expense /\ q.sawq \in Queue
           /\ Patched(q) \in Expense
           /\ Override(q, "ex") \in Int /\ Override(q, "gst") \in Int
<1>1. q.patch \in Patch /\ q.saw \in Expense /\ q.sawq \in Queue
  BY DEF Request
<1>2. q.patch.to \in Expense
  BY <1>1 DEF Patch
<1>3. q.patch.to["ex"] \in Int /\ q.patch.to["gst"] \in Int
  BY <1>2 DEF Expense
<1>4. Override(q, "ex") \in Int /\ Override(q, "gst") \in Int
  BY <1>3 DEF Override, NoCents
<1> QED BY <1>1, <1>2, <1>4, CombineType DEF Patched

\* Whatever is reconciled is made of integers.
LEMMA ReconcileType ==
    ASSUME NEW inc \in Nat, NEW ex \in Int, NEW gst \in Int, NEW pay
    PROVE  reconcile_gst_split(inc, ex, gst, pay).ex \in Int
           /\ reconcile_gst_split(inc, ex, gst, pay).gst \in Int
<1>1. compute_gst_split(inc, pay).ex \in Int /\ compute_gst_split(inc, pay).gst \in Int
  BY SplitOf
<1> QED BY <1>1 DEF reconcile_gst_split

\* What a request writes: its status, and no GST on cash.
LEMMA TargetOf ==
    ASSUME NEW q \in Request
    PROVE  /\ Target(q) \in Expense
           /\ Target(q).st = Status(q)
           /\ Target(q).pay = "cash" => Target(q).gst = 0
<1> DEFINE x == Patched(q)
           y == Reconciled(q)
           z == [y EXCEPT !.st = Status(q)]
           c == compute_gst_split(z.inc, z.pay)
<1>1. x \in Expense
  BY PatchedType
<1>2. y \in Expense
  <2> DEFINE split == reconcile_gst_split(x.inc, Override(q, "ex"), Override(q, "gst"), x.pay)
  <2>1. split.ex \in Int /\ split.gst \in Int
    BY <1>1, PatchedType, ReconcileType DEF Expense
  <2>2. [x EXCEPT !.ex = split.ex, !.gst = split.gst] \in Expense
    BY <1>1, <2>1 DEF Expense
  <2> QED BY <1>1, <2>2 DEF Reconciled
<1>3. Status(q) \in Statuses
  BY <1>1 DEF Status, Expense, Statuses
<1>4. z \in Expense /\ z.st = Status(q)
  BY <1>2, <1>3 DEF Expense
<1> HIDE DEF z
<1>5. c.ex \in Int /\ c.gst \in Int /\ (z.pay = "cash" => c.gst = 0)
  BY <1>4, SplitOf DEF Expense
<1>6. Target(q) = IF z.pay = "cash" THEN [z EXCEPT !.ex = c.ex, !.gst = c.gst] ELSE z
  BY DEF Target, _compute_gst_split, z
<1> HIDE DEF c
<1> QED BY <1>4, <1>5, <1>6 DEF Expense

\* The UPDATE's columns, one by one.
LEMMA ChangedOf ==
    ASSUME NEW q \in Request
    PROVE  /\ "job" \in Changed(q) <=> Target(q).job # q.saw.job
           /\ "inc" \in Changed(q) <=> Target(q).inc # q.saw.inc
           /\ "ex" \in Changed(q) <=> Target(q).ex # q.saw.ex
           /\ "gst" \in Changed(q) <=> Target(q).gst # q.saw.gst
           /\ "pay" \in Changed(q) <=> Target(q).pay # q.saw.pay
           /\ "st" \in Changed(q) <=> Target(q).st # q.saw.st
<1>1. Target(q) \in Expense /\ q.saw \in Expense
  BY TargetOf, PatchedType
<1> HIDE ReviewAssumption
<1> QED BY <1>1 DEF Changed, Fields, Money, Expense

\* The committed row after the UPDATE is an expense again, column by column.
LEMMA MergedOf ==
    ASSUME NEW q \in Request, expense \in Expense
    PROVE  /\ Merged(q) \in Expense
           /\ Changed(q) = {} => Merged(q) = expense
           /\ Merged(q).st = IF Status(q) # q.saw.st THEN Status(q) ELSE expense.st
<1>1. Merged(q) \in Expense
  BY CombineType, TargetOf DEF Merged
<1>2. ASSUME Changed(q) = {}
      PROVE  Merged(q) = expense
  BY <1>2 DEF Merged, Combine, Expense
<1>3. Merged(q).st = IF Status(q) # q.saw.st THEN Status(q) ELSE expense.st
  BY ChangedOf, TargetOf DEF Merged, Combine
<1> QED BY <1>1, <1>2, <1>3

\* A cash expense gets a GST only from a money UPDATE over money that was not
\* seen.
LEMMA MergedCash ==
    ASSUME NEW q \in Request, expense \in Expense, CashCarriesNoGst,
           Merged(q).pay = "cash", Merged(q).gst # 0
    PROVE  Changed(q) \cap Money # {} /\ \E f \in Money : expense[f] # q.saw[f]
<1>1. /\ Merged(q).pay = IF Target(q).pay # q.saw.pay THEN Target(q).pay ELSE expense.pay
      /\ Merged(q).gst = IF Target(q).gst # q.saw.gst THEN Target(q).gst ELSE expense.gst
  BY ChangedOf DEF Merged, Combine
<1>2. Target(q).pay # q.saw.pay \/ Target(q).gst # q.saw.gst
  BY <1>1 DEF CashCarriesNoGst
<1>3. "pay" \in Changed(q) \/ "gst" \in Changed(q)
  BY <1>2, ChangedOf
<1>4. expense.pay # q.saw.pay \/ expense.gst # q.saw.gst
  BY <1>1, TargetOf
<1>5. expense["pay"] # q.saw["pay"] \/ expense["gst"] # q.saw["gst"]
  BY <1>4
<1> QED BY <1>3, <1>5 DEF Money

-----------------------------------------------------------------------------
(* The inductive invariant. *)

\* Edits and deletes are read, flushed and committed; verdicts decided.
PathOf(q) ==
    /\ q.pc \in {"read", "flushed"} => q.act \in {"edit", "delete"}
    /\ q.pc \in {"queued", "decided"} => q.act \in {"resolve", "reject"}
    /\ q.act = "delete" => q.saw.st # "rejected"

Paths == \A r \in Requests : PathOf(req[r])

\* Whoever has flushed a column has the row, as it was checked.
FlushedHasRow ==
    \A r \in Requests :
       req[r].pc = "flushed" /\ Changed(req[r]) # {} =>
          lock = r /\ Balanced(Merged(req[r]))

\* Neither the row nor its queue row goes back.
NoReturn ==
    \/ "manual" \in marks
    \/ \A r \in Requests :
          req[r].pc = "decided" /\ req[r].saw.st # "pending" => expense.st # "pending"

NoReopening ==
    \A r \in Requests :
       req[r].pc = "flushed" /\ req[r].sawq.st # "open" => queue.st # "open"

\* An open queue row only loses reasons, and to nobody else than the request
\* that has the expense row.
ReasonsFade ==
    queue.st # "open" \/ "loose" \in marks \/
    \A r \in Requests : req[r].pc = "flushed" /\ req[r].sawq.st = "open" =>
       /\ queue.reasons \subseteq req[r].sawq.reasons
       /\ Changed(req[r]) # {} => queue.reasons = req[r].sawq.reasons

\* What a request has seen of the reasons and what they are now differ only in
\* what corrections have settled.
ReasonsAlike ==
    \A r \in Requests : req[r].pc = "flushed" =>
       /\ queue.reasons \subseteq req[r].sawq.reasons \cup fixed
       /\ req[r].sawq.reasons \subseteq queue.reasons \cup fixed

IInv ==
    /\ TypeOK
    /\ Paths
    /\ FlushedHasRow
    /\ MoneyIsExplained
    /\ ReviewedIsSettled
    /\ ReasonsAlike
    /\ NoReturn
    /\ NoReopening
    /\ PendingIsQueued
    /\ ReasonsFade
    /\ FixedReasonsLeave

\* The invariant holds when the expense has been created.
LEMMA InitIInv == Init => IInv
<1> SUFFICES ASSUME Init PROVE IInv
  OBVIOUS
<1>1. PICK job \in ActiveJobs, inc \in Amounts, pay \in Payments, why \in Gates :
         /\ expense = Created(job, inc, pay, why)
         /\ queue = [st |-> IF why = {} THEN "none" ELSE "open", reasons |-> why]
  BY DEF Init
<1> DEFINE x == compute_gst_split(inc, pay)
<1>2. /\ x.ex \in Nat /\ x.gst \in 0 .. inc /\ x.ex + x.gst = inc
      /\ pay = "cash" => x.gst = 0
  BY SplitOf
<1> HIDE DEF x
<1>3. expense = [job |-> job, inc |-> inc, ex |-> x.ex, gst |-> x.gst, pay |-> pay,
                 st |-> IF why = {} THEN "reviewed" ELSE "pending"]
  BY <1>1 DEF Created, x
<1>4. expense \in Expense /\ queue \in Queue
  BY <1>1, <1>2, <1>3 DEF Expense, Queue, Statuses
<1>5. TypeOK
  BY <1>4, NoExpenseType DEF Init, TypeOK, Expense
<1>6. MoneyIsExplained
  BY <1>2, <1>3 DEF MoneyIsExplained, Balanced, CashCarriesNoGst
<1>7. PendingIsQueued
  BY <1>1, <1>3 DEF PendingIsQueued
<1>8. \A r \in Requests : req[r].pc = "idle" /\ req[r].act = "edit"
  BY DEF Init, Idle, A
<1>9. fixed = {}
  BY DEF Init
<1>10. ReviewedIsSettled
  BY <1>1, <1>3 DEF ReviewedIsSettled
<1> QED BY <1>5, <1>6, <1>7, <1>8, <1>9, <1>10
        DEF IInv, Paths, PathOf, FlushedHasRow, ReasonsAlike, NoReturn, NoReopening,
            ReasonsFade, FixedReasonsLeave

-----------------------------------------------------------------------------
(* The steps that write neither row. *)

\* A request moves alone: the rows and the marks stay.
LEMMA MovesAlone ==
    ASSUME IInv, NEW r \in Requests, NEW q \in Request,
           req' = [req EXCEPT ![r] = q], PathOf(q),
           lock' \in Requests \cup {Nobody},
           starts' \in Nat,
           UNCHANGED <<expense, queue, fixed, marks>>,
           \A s \in Requests : s # r /\ lock = s => lock' = s,
           q.pc = "flushed" /\ Changed(q) # {} => lock' = r /\ Balanced(Merged(q)),
           q.pc = "decided" => q.saw = expense,
           q.pc = "flushed" => q.sawq = queue
    PROVE  IInv'
<1>1. TypeOK'
  BY DEF IInv, TypeOK
<1>2. \A s \in Requests : req'[s] = IF s = r THEN q ELSE req[s]
  BY DEF IInv, TypeOK
<1>3. \A p : Merged(p)' = Merged(p) /\ Changed(p)' = Changed(p)
  BY DEF Merged, Changed, Target
<1>4. Paths' /\ FlushedHasRow'
  BY <1>2, <1>3 DEF IInv, Paths, FlushedHasRow
<1>5. MoneyIsExplained' /\ ReviewedIsSettled' /\ PendingIsQueued' /\ FixedReasonsLeave'
  BY DEF IInv, MoneyIsExplained, Balanced, CashCarriesNoGst, ReviewedIsSettled,
         PendingIsQueued, FixedReasonsLeave
<1>6. NoReturn'
  BY <1>2 DEF IInv, NoReturn
<1>7. NoReopening'
  BY <1>2 DEF IInv, NoReopening
<1>8. ReasonsFade'
  BY <1>2 DEF IInv, ReasonsFade
<1>9. ReasonsAlike'
  BY <1>2 DEF IInv, ReasonsAlike
<1> QED BY <1>1, <1>4, <1>5, <1>6, <1>7, <1>8, <1>9 DEF IInv

-----------------------------------------------------------------------------
(* The commits. *)

\* What a commit must do for the invariant to stay.
CommitFacts(r) ==
    /\ expense' \in Expense /\ Balanced(expense') /\ queue' \in Queue
    /\ expense' # expense => lock \in {Nobody, r}
    /\ CashCarriesNoGst' \/ "raced" \in marks'
    /\ ReviewedIsSettled' /\ PendingIsQueued'
    /\ expense'.st = "pending" => expense.st = "pending" \/ "manual" \in marks'
    /\ queue'.st = "open" => queue.st = "open"
    /\ \/ queue'.st # "open" \/ "loose" \in marks' \/ queue' = queue
       \/ lock = r /\ queue'.reasons \subseteq queue.reasons
    /\ queue'.reasons \subseteq queue.reasons \cup fixed'
    /\ queue.reasons \subseteq queue'.reasons \cup fixed'
    /\ FixedReasonsLeave'

\* What a commit adds to the marks and corrections is of their types.
LEMMA HappensType ==
    ASSUME NEW q PROVE Happens(q) \subseteq Marks /\ Settled(q) \subseteq Reasons
BY DEF Happens, Marks, Settled, Cleared, Reasons

\* A commit keeps the invariant if its rows and corrections agree.
LEMMA CommitKeeps ==
    ASSUME IInv, NEW r \in Requests, req[r].pc # "idle", Commit(r), CommitFacts(r)
    PROVE  IInv'
<1> USE DEF CommitFacts
<1>0. TypeOK
  BY DEF IInv
<1>1. /\ req' = [req EXCEPT ![r] = Idle]
      /\ lock' = IF lock = r THEN Nobody ELSE lock
      /\ marks' = marks \cup Happens(req[r])
      /\ fixed' = fixed \cup Settled(req[r])
      /\ starts' = starts
  BY DEF Commit, Finish
<1>2. \A s \in Requests : req'[s] = IF s = r THEN Idle ELSE req[s]
  BY <1>0, <1>1 DEF TypeOK
<1>3. Idle.pc = "idle" /\ Idle.act = "edit"
  BY DEF Idle, A
<1>4. TypeOK'
  BY <1>0, <1>1, HappensType, NoExpenseType DEF TypeOK
<1>5. Paths'
  BY <1>2, <1>3 DEF IInv, Paths, PathOf
<1>6. FlushedHasRow'
  <2> SUFFICES ASSUME NEW s \in Requests, req'[s].pc = "flushed", Changed(req'[s]) # {}
               PROVE  lock' = s /\ Balanced(Merged(req[s])')
    BY <1>2, <1>3 DEF FlushedHasRow, Merged, Changed, Target
  <2>1. s # r /\ req'[s] = req[s] /\ lock = s /\ Balanced(Merged(req[s]))
    BY <1>2, <1>3 DEF IInv, FlushedHasRow
  <2>2. lock' = s /\ expense' = expense
    BY <1>1, <2>1, ReviewAssumption
  <2>3. Merged(req[s])' = Merged(req[s])
    BY <2>1, <2>2 DEF Merged, Changed, Target
  <2> QED BY <2>1, <2>2, <2>3
<1>7. MoneyIsExplained'
  BY DEF MoneyIsExplained, Balanced, CashCarriesNoGst
<1>8. NoReturn'
  BY <1>1, <1>2, <1>3 DEF IInv, NoReturn
<1>9. NoReopening'
  BY <1>2, <1>3 DEF IInv, NoReopening
<1>10. ReasonsFade'
  <2> SUFFICES ASSUME queue'.st = "open", "loose" \notin marks', NEW s \in Requests,
                      req'[s].pc = "flushed", req'[s].sawq.st = "open"
               PROVE  /\ queue'.reasons \subseteq req[s].sawq.reasons
                      /\ Changed(req[s]) # {} => queue'.reasons = req[s].sawq.reasons
    BY <1>2, <1>3 DEF ReasonsFade, Changed, Target
  <2>1. s # r /\ req'[s] = req[s] /\ queue.st = "open" /\ "loose" \notin marks
    BY <1>1, <1>2, <1>3
  <2>2. /\ queue.reasons \subseteq req[s].sawq.reasons
        /\ Changed(req[s]) # {} => queue.reasons = req[s].sawq.reasons
    BY <2>1 DEF IInv, ReasonsFade
  <2>3. Changed(req[s]) # {} => lock = s
    BY <2>1 DEF IInv, FlushedHasRow
  <2> QED BY <2>1, <2>2, <2>3, ReviewAssumption
<1>11. ReasonsAlike'
  <2> SUFFICES ASSUME NEW s \in Requests, req'[s].pc = "flushed"
               PROVE  /\ queue'.reasons \subseteq req'[s].sawq.reasons \cup fixed'
                      /\ req'[s].sawq.reasons \subseteq queue'.reasons \cup fixed'
    BY DEF ReasonsAlike
  <2>1. req'[s] = req[s] /\ req[s].pc = "flushed"
    BY <1>2, <1>3
  <2>2. /\ queue.reasons \subseteq req[s].sawq.reasons \cup fixed
        /\ req[s].sawq.reasons \subseteq queue.reasons \cup fixed
    BY <2>1 DEF IInv, ReasonsAlike
  <2> QED BY <1>1, <2>1, <2>2
<1> QED BY <1>4, <1>5, <1>6, <1>7, <1>8, <1>9, <1>10, <1>11 DEF IInv

\* What every commit can rely on.
LEMMA CommitBase ==
    ASSUME IInv, NEW r \in Requests, Commit(r)
    PROVE  /\ req[r] \in Request /\ expense \in Expense /\ queue \in Queue
           /\ Merged(req[r]) \in Expense
           /\ Changed(req[r]) = {} => Merged(req[r]) = expense
           /\ Merged(req[r]).pay = "cash" /\ Merged(req[r]).gst # 0 => "raced" \in marks'
           /\ marks \subseteq marks' /\ fixed' = fixed \cup Settled(req[r])
           /\ Changed(req[r]) = {} => req[r].saw.st = Status(req[r])
<1>1. req[r] \in Request /\ expense \in Expense /\ queue \in Queue
  BY DEF IInv, TypeOK
<1>2. Merged(req[r]) \in Expense /\ (Changed(req[r]) = {} => Merged(req[r]) = expense)
  BY <1>1, MergedOf
<1>3. ASSUME Merged(req[r]).pay = "cash", Merged(req[r]).gst # 0, "raced" \notin marks
      PROVE  "raced" \in marks'
  <2>1. CashCarriesNoGst
    BY <1>3 DEF IInv, MoneyIsExplained
  <2>2. Changed(req[r]) \cap Money # {} /\ \E f \in Money : expense[f] # req[r].saw[f]
    BY <1>1, <1>3, <2>1, MergedCash
  <2>3. "raced" \in Happens(req[r])
    BY <2>2 DEF Happens
  <2> QED BY <2>3 DEF Commit
<1>4. marks \subseteq marks' /\ fixed' = fixed \cup Settled(req[r])
  BY DEF Commit
<1>5. Changed(req[r]) = {} => req[r].saw.st = Status(req[r])
  BY <1>1, ChangedOf, TargetOf
<1> QED BY <1>1, <1>2, <1>3, <1>4, <1>5

\* Whoever does not make an expense reviewed leaves its reasons settled.
LEMMA StaysSettled ==
    ASSUME IInv, NEW r \in Requests, Commit(r),
           expense'.st = "reviewed" => expense.st = "reviewed",
           queue'.reasons \subseteq queue.reasons \cup fixed'
    PROVE  ReviewedIsSettled'
BY DEF IInv, ReviewedIsSettled, Commit

\* An edit whose patch leaves review_status alone keeps the status it read.
LEMMA StatusOfEdit ==
    ASSUME NEW q \in Request, q.act = "edit", "st" \notin q.patch.set
    PROVE  Status(q) = q.saw.st
BY DEF Status, Patched, Combine

\* An edit that settles nothing more keeps what is not settled settled.
LEMMA EditFixes ==
    ASSUME IInv, NEW r \in Requests, CommitEdit(r)
    PROVE  /\ FixedReasonsLeave'
           /\ queue'.st = "open" => queue.st = "open"
           /\ queue' \in Queue
           /\ queue'.reasons \subseteq queue.reasons \cup fixed'
           /\ queue.reasons \subseteq queue'.reasons \cup fixed'
           /\ Closes(req[r]) => queue'.reasons \subseteq fixed'
           /\ \/ queue'.st # "open" \/ "loose" \in marks' \/ queue' = queue
              \/ lock = r /\ queue'.reasons \subseteq queue.reasons
<1> DEFINE q == req[r]
<1>1. q.pc = "flushed" /\ Commit(r)
      /\ queue' = IF Closes(q) THEN [queue EXCEPT !.st = "resolved"]
                  ELSE IF Shrinks(q)
                       THEN [queue EXCEPT !.reasons = q.sawq.reasons \ Settled(q)]
                       ELSE queue
  BY DEF CommitEdit
<1>2. /\ q \in Request /\ queue \in Queue
      /\ marks \subseteq marks' /\ fixed' = fixed \cup Settled(q)
  BY <1>1, CommitBase
<1>3. marks' = marks \cup Happens(q)
  BY <1>1 DEF Commit
<1> HIDE DEF q
<1>4. q.sawq \in Queue
  BY <1>2 DEF Request
<1>5. queue' \in Queue
  BY <1>1, <1>2, <1>4 DEF Queue
<1>6. ASSUME queue'.st = "open", "loose" \notin marks'
      PROVE  /\ queue.st = "open"
             /\ queue' = queue \/ (lock = r /\ queue'.reasons \subseteq queue.reasons)
             /\ queue'.reasons \cap fixed' = {}
  <2>1. ~Closes(q) /\ queue.st = "open" /\ "loose" \notin marks
    BY <1>1, <1>2, <1>6 DEF Queue
  <2>2. queue.reasons \cap fixed = {}
    BY <2>1 DEF IInv, FixedReasonsLeave
  <2>3. q.sawq.st = "open"
    BY <1>1, <2>1 DEF IInv, NoReopening, q
  <2>4. /\ queue.reasons \subseteq q.sawq.reasons
        /\ Changed(q) # {} => queue.reasons = q.sawq.reasons
    BY <1>1, <2>1, <2>3 DEF IInv, ReasonsFade, q
  <2>5. CASE Shrinks(q)
    <3>1. Changed(q) # {}
      BY <1>3, <1>6, <2>5 DEF Happens
    <3>2. lock = r
      BY <1>1, <3>1 DEF IInv, FlushedHasRow, q
    <3>3. queue'.reasons = queue.reasons \ Settled(q)
      BY <1>1, <1>2, <2>1, <2>4, <2>5, <3>1 DEF Queue
    <3> QED BY <1>2, <2>1, <2>2, <3>2, <3>3
  <2>6. CASE ~Shrinks(q)
    <3>1. queue' = queue
      BY <1>1, <2>1, <2>6
    <3>2. Settled(q) \cap q.sawq.reasons = {}
      BY <2>3, <2>6 DEF Shrinks
    <3> QED BY <1>2, <2>1, <2>2, <2>4, <3>1, <3>2
  <2> QED BY <2>5, <2>6
<1>7. queue'.st = "open" => queue.st = "open"
  BY <1>1, <1>2 DEF Queue
<1>8. /\ queue.reasons \subseteq q.sawq.reasons \cup fixed
      /\ q.sawq.reasons \subseteq queue.reasons \cup fixed
  BY <1>1 DEF IInv, ReasonsAlike, q
<1>9. queue'.reasons = IF ~Closes(q) /\ Shrinks(q) THEN q.sawq.reasons \ Settled(q)
                       ELSE queue.reasons
  BY <1>1, <1>2 DEF Queue
<1>10. /\ queue'.reasons \subseteq queue.reasons \cup fixed'
       /\ queue.reasons \subseteq queue'.reasons \cup fixed'
  BY <1>2, <1>8, <1>9
<1>11. Closes(q) => queue'.reasons \subseteq fixed'
  BY <1>2, <1>8, <1>9 DEF Closes
<1> QED BY <1>5, <1>6, <1>7, <1>10, <1>11 DEF FixedReasonsLeave, q

\* update_expense commits nothing that breaks the invariant.
LEMMA EditKeeps ==
    ASSUME IInv, NEW r \in Requests, CommitEdit(r)
    PROVE  IInv'
<1> DEFINE q == req[r]
           m == Merged(q)
<1>1. /\ q.pc = "flushed" /\ q.act = "edit" /\ Commit(r)
      /\ Closes(q) => Free(r)
      /\ expense' = IF Closes(q) THEN [m EXCEPT !.st = "reviewed"] ELSE m
      /\ Closes(q) => queue' = [queue EXCEPT !.st = "resolved"]
      /\ ~Closes(q) /\ ~Shrinks(q) => queue' = queue
      /\ ~Closes(q) /\ Shrinks(q) => queue' = [queue EXCEPT !.reasons = q.sawq.reasons \ Settled(q)]
  BY DEF CommitEdit
<1>2. /\ q \in Request /\ expense \in Expense /\ queue \in Queue /\ m \in Expense
      /\ Changed(q) = {} => m = expense
      /\ m.pay = "cash" /\ m.gst # 0 => "raced" \in marks'
      /\ marks \subseteq marks'
  BY <1>1, CommitBase
<1>3. m.st = IF Status(q) # q.saw.st THEN Status(q) ELSE expense.st
  BY <1>2, MergedOf
<1>4. Changed(q) # {} => lock = r /\ Balanced(m)
  BY <1>1 DEF IInv, FlushedHasRow
<1>5. Balanced(expense)
  BY DEF IInv, MoneyIsExplained
<1>6. "st" \in q.patch.set => "manual" \in marks'
  BY <1>1 DEF Commit, Happens
<1>7. "st" \notin q.patch.set => m.st = expense.st
  BY <1>1, <1>2, <1>3, StatusOfEdit
<1>8. /\ queue.st # "open" => queue'.st # "open"
      /\ queue'.reasons \subseteq queue.reasons \cup fixed'
      /\ Closes(q) => queue'.reasons \subseteq fixed'
  BY EditFixes
<1> HIDE DEF q, m
<1>9. expense' \in Expense /\ Balanced(expense')
  BY <1>1, <1>2, <1>4, <1>5 DEF Expense, Statuses, Balanced
<1>10. expense' # expense => lock \in {Nobody, r}
  BY <1>1, <1>2, <1>4 DEF Free
<1>11. CashCarriesNoGst' \/ "raced" \in marks'
  BY <1>1, <1>2 DEF CashCarriesNoGst, Expense
<1>12. ReviewedIsSettled'
  <2>1. CASE Closes(q)
    BY <1>8, <2>1 DEF ReviewedIsSettled
  <2>2. CASE "st" \in q.patch.set
    BY <1>6, <2>2 DEF ReviewedIsSettled
  <2>3. CASE ~Closes(q) /\ "st" \notin q.patch.set
    BY <1>1, <1>7, <1>8, <2>3, StaysSettled
  <2> QED BY <2>1, <2>2, <2>3
<1>13. expense'.st = "pending" => expense.st = "pending" \/ "manual" \in marks'
  BY <1>1, <1>2, <1>6, <1>7 DEF Expense
<1>14. PendingIsQueued'
  <2> SUFFICES ASSUME "manual" \notin marks'
               PROVE  expense'.st = "pending" <=> queue'.st = "open"
    BY DEF PendingIsQueued
  <2>1. expense.st = "pending" <=> queue.st = "open"
    BY <1>2 DEF IInv, PendingIsQueued
  <2>2. m.st = expense.st
    BY <1>6, <1>7
  <2>3. CASE Closes(q)
    BY <1>1, <1>2, <2>3 DEF Expense, Queue
  <2>4. CASE ~Closes(q)
    BY <1>1, <1>2, <2>1, <2>2, <2>4 DEF Queue
  <2> QED BY <2>3, <2>4
<1>15. CommitFacts(r)
  BY <1>9, <1>10, <1>11, <1>12, <1>13, <1>14, EditFixes DEF CommitFacts
<1> QED BY <1>1, <1>15, CommitKeeps DEF q

\* A delete or a verdict: the queue row is closed or left as it is.
LEMMA ClosingKeeps ==
    ASSUME IInv, NEW r \in Requests, req[r].pc # "idle", req[r].act # "edit",
           Commit(r),
           Changed(req[r]) # {} => lock \in {Nobody, r} /\ Balanced(Merged(req[r])),
           expense' = Merged(req[r]),
           queue' \in Queue, queue'.st # "open", queue'.reasons = queue.reasons,
           "manual" \in marks \/ req[r].saw.st = "pending" \/ expense.st # "pending"
              \/ Status(req[r]) # req[r].saw.st
    PROVE  IInv'
<1> DEFINE q == req[r]
           m == Merged(q)
<1>1. /\ q \in Request /\ expense \in Expense /\ queue \in Queue /\ m \in Expense
      /\ Changed(q) = {} => m = expense
      /\ m.pay = "cash" /\ m.gst # 0 => "raced" \in marks'
      /\ marks \subseteq marks'
  BY CommitBase
<1>2. m.st = IF Status(q) # q.saw.st THEN Status(q) ELSE expense.st
  BY <1>1, MergedOf
<1>3. Status(q) \in {"reviewed", "rejected"} /\ (Status(q) = "reviewed" => q.act = "resolve")
  BY DEF Status
<1>4. Balanced(expense)
  BY DEF IInv, MoneyIsExplained
<1>5. expense' = m /\ q.act # "edit"
  OBVIOUS
<1>6. Changed(q) # {} => lock \in {Nobody, r} /\ Balanced(m)
  OBVIOUS
<1>7. "manual" \in marks \/ q.saw.st = "pending" \/ expense.st # "pending"
        \/ Status(q) # q.saw.st
  OBVIOUS
<1> HIDE DEF q, m
<1>8. expense' \in Expense /\ Balanced(expense') /\ (expense' # expense => lock \in {Nobody, r})
  BY <1>1, <1>4, <1>5, <1>6
<1>9. CashCarriesNoGst' \/ "raced" \in marks'
  BY <1>1, <1>5 DEF CashCarriesNoGst
<1>10. ReviewedIsSettled'
  <2>1. CASE q.act = "resolve"
    BY <2>1 DEF Commit, Happens, ReviewedIsSettled, q
  <2>2. CASE q.act # "resolve"
    <3>1. expense'.st = "reviewed" => expense.st = "reviewed"
      BY <1>2, <1>3, <1>5, <2>2
    <3> QED BY <3>1, StaysSettled
  <2> QED BY <2>1, <2>2
<1>11. "manual" \in marks' \/ expense'.st # "pending"
  BY <1>1, <1>2, <1>3, <1>5, <1>7
<1>12. PendingIsQueued' /\ FixedReasonsLeave'
  BY <1>11 DEF PendingIsQueued, FixedReasonsLeave
<1>13. CommitFacts(r)
  BY <1>8, <1>9, <1>10, <1>11, <1>12 DEF CommitFacts
<1> QED BY <1>13, CommitKeeps

\* Nor does delete_expense.
LEMMA DeleteKeeps ==
    ASSUME IInv, NEW r \in Requests, CommitDelete(r)
    PROVE  IInv'
<1> DEFINE q == req[r]
<1>1. /\ q.pc = "flushed" /\ q.act = "delete" /\ Commit(r) /\ expense' = Merged(q)
      /\ queue' = IF q.sawq.st = "open" THEN [queue EXCEPT !.st = "rejected"] ELSE queue
  BY DEF CommitDelete
<1>2. queue \in Queue /\ Status(q) = "rejected" /\ q.saw.st # "rejected"
  BY <1>1 DEF IInv, TypeOK, Paths, PathOf, Status
<1>3. q.sawq.st # "open" => queue.st # "open"
  BY <1>1 DEF IInv, NoReopening
<1>4. queue' \in Queue /\ queue'.st # "open" /\ queue'.reasons = queue.reasons
  BY <1>1, <1>2, <1>3 DEF Queue
<1>5. Changed(q) # {} => lock = r /\ Balanced(Merged(q))
  BY <1>1 DEF IInv, FlushedHasRow
<1> QED BY <1>1, <1>2, <1>4, <1>5, ClosingKeeps

\* A request that is rolled back leaves the rows to the others.
LEMMA RollbackKeeps ==
    ASSUME IInv, NEW r \in Requests, Rollback(r)
    PROVE  IInv'
<1>1. /\ req' = [req EXCEPT ![r] = Idle]
      /\ lock' = IF lock = r THEN Nobody ELSE lock
      /\ UNCHANGED <<expense, queue, starts, fixed, marks>>
  BY DEF Rollback, Finish
<1>2. PathOf(Idle) /\ Idle.pc = "idle"
  BY DEF PathOf, Idle, A
<1>3. lock' \in Requests \cup {Nobody} /\ starts' \in Nat
  BY <1>1 DEF IInv, TypeOK
<1> QED BY <1>1, <1>2, <1>3, NoExpenseType, MovesAlone

\* resolve and reject keep the invariant, committed or refused.
LEMMA VerdictKeeps ==
    ASSUME IInv, NEW r \in Requests, CommitVerdict(r)
    PROVE  IInv'
<1> DEFINE q == req[r]
<1>1. q.pc = "decided" /\ (Changed(q) # {} => Free(r))
  BY DEF CommitVerdict
<1>2. CASE Balanced(Merged(q)) \/ Changed(q) = {}
  <2>1. /\ Commit(r) /\ expense' = Merged(q)
        /\ queue' = [queue EXCEPT !.st =
                        IF q.act = "resolve" THEN "resolved" ELSE "rejected"]
    BY <1>2 DEF CommitVerdict
  <2>2. q.act \in {"resolve", "reject"} /\ queue \in Queue
    BY <1>1 DEF IInv, Paths, PathOf, TypeOK
  <2>3. queue' \in Queue /\ queue'.st # "open" /\ queue'.reasons = queue.reasons
    BY <2>1, <2>2 DEF Queue
  <2>4. "manual" \in marks \/ q.saw.st = "pending" \/ expense.st # "pending"
    BY <1>1 DEF IInv, NoReturn
  <2> QED BY <1>1, <1>2, <2>1, <2>2, <2>3, <2>4, ClosingKeeps DEF Free
<1>3. CASE ~(Balanced(Merged(q)) \/ Changed(q) = {})
  <2>1. Rollback(r)
    BY <1>3 DEF CommitVerdict
  <2> QED BY <2>1, RollbackKeeps
<1> QED BY <1>2, <1>3

\* An edit or a delete starts from the row it reads.
LEMMA ReadKeeps ==
    ASSUME IInv, NEW r \in Requests, NEW p \in Patch, NEW admin \in {"yes", "no"},
           NEW act \in {"edit", "delete"}, Read(r, act, admin, p)
    PROVE  IInv'
<1> DEFINE q == A("read", act, admin, p, expense, NoQueue)
<1>1. Allowed(q) /\ Begin(r, q)
  BY DEF Read
<1>2. q = [pc |-> "read", act |-> act, admin |-> admin, patch |-> p, saw |-> expense,
           sawq |-> NoQueue]
  BY DEF A
<1>3. q \in Request
  BY <1>2 DEF IInv, TypeOK, Request, NoQueue, Queue
<1>4. PathOf(q)
  BY <1>1, <1>2 DEF PathOf, Allowed
<1> HIDE DEF q
<1>5. /\ req' = [req EXCEPT ![r] = q] /\ starts' = starts + 1
      /\ UNCHANGED <<expense, queue, lock, fixed, marks>>
  BY <1>1 DEF Begin
<1>6. lock' \in Requests \cup {Nobody} /\ starts' \in Nat
  BY <1>5 DEF IInv, TypeOK
<1>7. q.pc = "read"
  BY <1>2
<1> QED BY <1>3, <1>4, <1>5, <1>6, <1>7, MovesAlone

\* A verdict starts from an open queue row.
LEMMA ReadQueueKeeps ==
    ASSUME IInv, NEW r \in Requests, NEW p \in Patch, NEW act, ReadQueue(r, act, p)
    PROVE  IInv'
<1> DEFINE q == A("queued", act, "yes", p, NoExpense, queue)
<1>1. act \in {"resolve", "reject"} /\ Begin(r, q)
  BY DEF ReadQueue
<1>2. q = [pc |-> "queued", act |-> act, admin |-> "yes", patch |-> p,
           saw |-> NoExpense, sawq |-> queue]
  BY DEF A
<1>3. q \in Request /\ PathOf(q)
  BY <1>1, <1>2, NoExpenseType DEF IInv, TypeOK, Request, PathOf
<1> HIDE DEF q
<1>4. /\ req' = [req EXCEPT ![r] = q] /\ starts' = starts + 1
      /\ UNCHANGED <<expense, queue, lock, fixed, marks>>
  BY <1>1 DEF Begin
<1>5. lock' \in Requests \cup {Nobody} /\ starts' \in Nat
  BY <1>4 DEF IInv, TypeOK
<1>6. q.pc = "queued"
  BY <1>2
<1> QED BY <1>3, <1>4, <1>5, <1>6, MovesAlone

\* ... and then reads the expense.
LEMMA ReadExpenseKeeps ==
    ASSUME IInv, NEW r \in Requests, ReadExpense(r)
    PROVE  IInv'
<1> DEFINE q == [req[r] EXCEPT !.pc = "decided", !.saw = expense]
<1>1. req[r].pc = "queued" /\ req[r] \in Request /\ PathOf(req[r]) /\ expense \in Expense
  BY DEF ReadExpense, IInv, TypeOK, Paths
<1>2. CASE Rollback(r)
  BY <1>2, RollbackKeeps
<1>3. CASE /\ req' = [req EXCEPT ![r] = q]
           /\ UNCHANGED <<expense, queue, lock, starts, fixed, marks>>
  <2>1. q \in Request /\ q.pc = "decided" /\ q.saw = expense /\ PathOf(q)
    BY <1>1 DEF Request, PathOf
  <2>2. lock' \in Requests \cup {Nobody} /\ starts' \in Nat
    BY <1>3 DEF IInv, TypeOK
  <2> HIDE DEF q
  <2> QED BY <1>3, <2>1, <2>2, MovesAlone
<1> QED BY <1>2, <1>3 DEF ReadExpense

\* The UPDATE is sound for the row it finds, or ends the request.
LEMMA FlushKeeps ==
    ASSUME IInv, NEW r \in Requests, Flush(r)
    PROVE  IInv'
<1> DEFINE q == [req[r] EXCEPT !.pc = "flushed", !.sawq = queue]
<1>1. /\ req[r].pc = "read" /\ req[r] \in Request /\ PathOf(req[r]) /\ queue \in Queue
      /\ lock \in Requests \cup {Nobody}
      /\ Changed(req[r]) # {} => Free(r)
  BY DEF Flush, IInv, TypeOK, Paths
<1>2. CASE Rollback(r)
  BY <1>2, RollbackKeeps
<1>3. CASE /\ Balanced(Merged(req[r])) \/ Changed(req[r]) = {}
           /\ lock' = IF Changed(req[r]) = {} THEN lock ELSE r
           /\ req' = [req EXCEPT ![r] = q]
           /\ UNCHANGED <<expense, queue, starts, fixed, marks>>
  <2>1. q \in Request /\ q.pc = "flushed" /\ q.sawq = queue /\ PathOf(q)
    BY <1>1 DEF Request, PathOf
  <2>2. q.act = req[r].act /\ q.patch = req[r].patch /\ q.saw = req[r].saw
    BY <1>1 DEF Request
  <2> HIDE DEF q
  <2>3. /\ Patched(q) = Patched(req[r]) /\ Status(q) = Status(req[r])
        /\ Override(q, "ex") = Override(req[r], "ex")
        /\ Override(q, "gst") = Override(req[r], "gst")
    BY <2>2 DEF Patched, Status, Override
  <2>4. Target(q) = Target(req[r])
    <3>1. Reconciled(q) = Reconciled(req[r])
      BY <2>2, <2>3, Zenon DEF Reconciled
    <3> QED BY <2>3, <3>1, Zenon DEF Target
  <2>5. Changed(q) = Changed(req[r]) /\ Merged(q) = Merged(req[r])
    BY <2>2, <2>4 DEF Changed, Merged
  <2>6. lock' \in Requests \cup {Nobody} /\ starts' \in Nat
    BY <1>1, <1>3 DEF IInv, TypeOK
  <2>7. \A s \in Requests : s # r /\ lock = s => lock' = s
    BY <1>1, <1>3, ReviewAssumption DEF Free
  <2> QED BY <1>3, <2>1, <2>5, <2>6, <2>7, MovesAlone
<1> QED BY <1>2, <1>3 DEF Flush

\* One step of any request keeps the invariant.
LEMMA NextKeeps == IInv /\ [Next]_vars => IInv'
<1> SUFFICES ASSUME IInv, [Next]_vars PROVE IInv'
  OBVIOUS
<1>1. CASE UNCHANGED vars
  <2>1. \A p : Merged(p)' = Merged(p) /\ Changed(p)' = Changed(p)
    BY <1>1 DEF vars, Merged, Changed, Target
  <2> QED BY <1>1, <2>1
      DEF IInv, vars, TypeOK, Paths, FlushedHasRow, MoneyIsExplained, Balanced,
          CashCarriesNoGst, ReviewedIsSettled, ReasonsAlike, NoReturn, NoReopening,
          PendingIsQueued, ReasonsFade, FixedReasonsLeave
<1>2. CASE Quiet
  BY <1>1, <1>2 DEF Quiet
<1>3. ASSUME NEW r \in Requests, Serve(r)
      PROVE  IInv'
  <2>1. ASSUME NEW p \in Patches, NEW admin \in {"yes", "no"}, Read(r, "edit", admin, p)
        PROVE  IInv'
    BY <2>1, ReadKeeps
  <2>2. CASE Read(r, "delete", "yes", NoPatch)
    BY <2>2, NoExpenseType, ReadKeeps
  <2>3. ASSUME NEW p \in Patches \cup {NoPatch}, ReadQueue(r, "resolve", p)
        PROVE  IInv'
    BY <2>3, NoExpenseType, ReadQueueKeeps
  <2>4. CASE ReadQueue(r, "reject", NoPatch)
    BY <2>4, NoExpenseType, ReadQueueKeeps
  <2>5. CASE ReadExpense(r)
    BY <2>5, ReadExpenseKeeps
  <2>6. CASE Flush(r)
    BY <2>6, FlushKeeps
  <2>7. CASE CommitEdit(r)
    BY <2>7, EditKeeps
  <2>8. CASE CommitDelete(r)
    BY <2>8, DeleteKeeps
  <2>9. CASE CommitVerdict(r)
    BY <2>9, VerdictKeeps
  <2>10. CASE Lost(r)
    BY <2>10, RollbackKeeps DEF Lost
  <2> QED BY <1>3, <2>1, <2>2, <2>3, <2>4, <2>5, <2>6, <2>7, <2>8, <2>9, <2>10 DEF Serve
<1> QED BY <1>1, <1>2, <1>3 DEF Next

\* The invariant holds in every state.
LEMMA SpecIInv == Spec => []IInv
BY InitIInv, NextKeeps, PTL DEF Spec

-----------------------------------------------------------------------------
(* The theorems. *)

\* Every variable keeps its type.
THEOREM TypeCorrect == Spec => []TypeOK
<1>1. IInv => TypeOK
  BY DEF IInv
<1> QED BY SpecIInv, <1>1, PTL

\* models/expense.py:325-391: an expense's money adds up, and cash carries no
\* GST unless money was written over money that was not seen.
THEOREM MoneyStaysExplained == Spec => []MoneyIsExplained
<1>1. IInv => MoneyIsExplained
  BY DEF IInv
<1> QED BY SpecIInv, <1>1, PTL

\* expenses.py:867-871 and 893-900: a held expense is reviewed only when an
\* administrator says so or corrections have settled every reason its queue row
\* has left.
THEOREM ReviewedStaysSettled == Spec => []ReviewedIsSettled
<1>1. IInv => ReviewedIsSettled
  BY DEF IInv
<1> QED BY SpecIInv, <1>1, PTL

\* An expense is pending exactly while its queue row is open, unless its
\* status was set by hand.
THEOREM PendingStaysQueued == Spec => []PendingIsQueued
<1>1. IInv => PendingIsQueued
  BY DEF IInv
<1> QED BY SpecIInv, <1>1, PTL

\* expenses.py:1054-1057: settled reasons leave the open queue row.
THEOREM FixedReasonsStayOut == Spec => []FixedReasonsLeave
<1>1. IInv => FixedReasonsLeave
  BY DEF IInv
<1> QED BY SpecIInv, <1>1, PTL

=============================================================================
