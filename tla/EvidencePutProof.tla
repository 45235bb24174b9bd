-------------------------- MODULE EvidencePutProof ---------------------------
(* Theorems about S3 puts (EvidencePut), for any number of concurrent       *)
(* attempts, any payloads and any bucket.                                   *)
EXTENDS EvidencePut, TLAPS

-----------------------------------------------------------------------------
(* The inductive invariant. *)

\* Not copied yet.
Early == {"idle", "create", "stream", "complete", "head"}

KeyOf(p, payload) == <<p[1], payload, p[2]>>
PublishedAs(p, payload) == object[KeyOf(p, payload)] = [by |-> p, bytes |-> payload]

\* What the state s of put p says about the bucket.
Local(p, s) ==
    /\ s.pc = "idle" =>
          s.payload = None /\ s.cancelled = "no" /\ s.outcome = "none"
    /\ s.pc \in {"create", "stream"} => s.payload \in Contents \cup {Empty}
    /\ s.pc \in {"complete", "head", "copy"} => s.payload \in Contents
    /\ s.pc = "head" /\ s.reply = "absent" => object[KeyOf(p, s.payload)] = None
    /\ \/ s.pc = "copy" /\ s.reply = "done"
       \/ s.pc = "cleanup" /\ s.primary = "none"
       \/ s.outcome = "stored"
       => s.payload \in Contents /\ PublishedAs(p, s.payload)
    /\ s.pc = "ended" /\ s.cancelled = "yes" => s.outcome \in {"cancelled", "died"}

PutsLocal == \A p \in Puts : Local(p, put[p])

\* A request belongs to a put that has started; only a streamed payload is
\* completed, probed or copied.
SentStarted ==
    \A r \in sent :
       /\ put[r.by].pc # "idle"
       /\ r.op \in {"complete", "head", "copy"} => put[r.by].payload \in Contents

\* A copy is sent once, after HEAD, to a key that is free and stays free.
CopyOnce ==
    \A r \in sent : r.op = "copy" =>
       /\ put[r.by].pc \notin Early
       /\ object[FinalKey(r.by)] = None

\* Nobody else writes a put's staging object.
StagedIsOwn ==
    \A p \in Puts : staging[p] # None =>
       put[p].payload \in Contents /\ staging[p] = put[p].payload

IInv ==
    /\ TypeOK
    /\ PutsLocal
    /\ SentStarted
    /\ CopyOnce
    /\ StagedIsOwn
    /\ FinalIsItsHash

USE PutAssumption

-----------------------------------------------------------------------------
(* The states a put can take. *)

\* A record of Put, field by field.
LEMMA PutFields ==
    ASSUME NEW s \in Put
    PROVE  /\ s.pc \in {"idle", "create", "stream", "complete", "head", "copy",
                        "cleanup", "ended"}
           /\ s.payload \in Contents \cup {Empty, None}
           /\ s.upload_id \in {"none", "known"}
           /\ s.completed \in {"no", "yes"}
           /\ s.primary \in Failure \cup {"none"}
           /\ s.cancelled \in {"no", "yes"}
           /\ s.grace \in 0 .. GraceTicks
           /\ s.reply \in {"none", "done", "absent", "present", "error"}
           /\ s.lost \in SUBSET Op
           /\ s.outcome \in Failure \cup {"none", "stored", "died"}
  BY DEF Put

\* A put that ends, and one that unwinds.
Ended(s, outcome) == [s EXCEPT !.pc = "ended", !.outcome = outcome]

Unwound(s, failure, cancelled, lost) ==
    [s EXCEPT !.primary = failure, !.cancelled = cancelled,
              !.reply = "none", !.lost = lost]

LEMMA Ends ==
    ASSUME NEW s \in Put, NEW o \in Failure, NEW x, x = Ended(s, o)
    PROVE  /\ x \in Put /\ x.pc = "ended" /\ x.payload = s.payload
           /\ x.outcome = o /\ x.cancelled = s.cancelled
  <1>1. x \in Put
    BY Zenon DEF Put, Ended
  <1>2. /\ x.pc = "ended" /\ x.payload = s.payload
        /\ x.outcome = o /\ x.cancelled = s.cancelled
    BY DEF Put, Ended
  <1> QED
    BY <1>1, <1>2

LEMMA Unwinds ==
    ASSUME NEW s \in Put, NEW failure \in Failure, NEW cancelled \in {"no", "yes"},
           NEW lost \in SUBSET Op, NEW x, x = Unwound(s, failure, cancelled, lost)
    PROVE  /\ x \in Put /\ x.payload = s.payload /\ x.cancelled = cancelled
           /\ x.primary = failure /\ x.outcome = s.outcome
  <1>1. x \in Put
    BY Zenon DEF Put, Unwound
  <1>2. /\ x.payload = s.payload /\ x.cancelled = cancelled
        /\ x.primary = failure /\ x.outcome = s.outcome
    BY DEF Put, Unwound
  <1> QED
    BY <1>1, <1>2

\* Different puts have different final keys.
LEMMA KeysApart ==
    ASSUME NEW p \in Puts, NEW q \in Puts, NEW c, NEW d,
           KeyOf(p, c) = KeyOf(q, d)
    PROVE  p = q
  BY DEF KeyOf, Puts

\* The invariant holds before the first put begins.
LEMMA InitIInv == Init => IInv
<1> SUFFICES ASSUME Init PROVE IInv
  OBVIOUS
<1> USE DEF Init
<1>1. Fresh \in Put
  BY DEF Fresh, Put
<1>2. \A p \in Puts : put[p] = Fresh
  OBVIOUS
<1>3. TypeOK
  BY <1>1 DEF TypeOK, Object, Keys
<1>4. PutsLocal
  BY <1>2 DEF PutsLocal, Local, Fresh
<1>5. FinalIsItsHash
  BY DEF FinalIsItsHash
<1> QED
  BY <1>3, <1>4, <1>5 DEF IInv, SentStarted, CopyOnce, StagedIsOwn

\* Put p takes the state s and sends the request op, if it is one.
Moves(p, s, op) ==
    /\ put' = [put EXCEPT ![p] = s]
    /\ UNCHANGED bucket
    /\ sent' = sent \cup (IF op = "none" THEN {} ELSE {[by |-> p, op |-> op]})

\* What s and op must respect.
Sound(p, s, op) ==
    /\ s \in Put
    /\ Local(p, s)
    /\ s.pc # "idle"
    /\ s.payload = put[p].payload \/ put[p].pc = "idle"
    /\ s.pc \in Early => put[p].pc \in Early
    /\ op \in Op \cup {"none"}
    /\ op \in {"complete", "head", "copy"} => s.payload \in Contents
    /\ op = "copy" => s.pc \notin Early /\ object[KeyOf(p, s.payload)] = None

\* A put that moves to a state that is right about the bucket keeps the
\* invariant.
LEMMA PutMoves ==
    ASSUME IInv, NEW p \in Puts, NEW s, NEW op, Moves(p, s, op), Sound(p, s, op)
    PROVE  IInv'
<1> DEFINE new == IF op = "none" THEN {} ELSE {[by |-> p, op |-> op]}
<1>0. /\ s \in Put
      /\ put' = [put EXCEPT ![p] = s] /\ UNCHANGED bucket /\ sent' = sent \cup new
      /\ Local(p, s) /\ s.pc # "idle"
      /\ s.payload = put[p].payload \/ put[p].pc = "idle"
      /\ s.pc \in Early => put[p].pc \in Early
      /\ new \subseteq [by : {p}, op : Op]
      /\ \A r \in new : r.op \in {"complete", "head", "copy"} =>
            s.payload \in Contents
      /\ \A r \in new : r.op = "copy" =>
            s.pc \notin Early /\ object[KeyOf(p, s.payload)] = None
  BY DEF Moves, Sound
<1> HIDE DEF new
<1> USE <1>0
<1> USE DEF IInv, bucket
<1>1. \A q \in Puts : put'[q] = IF q = p THEN s ELSE put[q]
  BY DEF TypeOK
<1>2. TypeOK'
  BY DEF TypeOK, Op
<1>3. PutsLocal'
  BY <1>1 DEF PutsLocal, Local, PublishedAs
<1>4. \A r \in sent : r.by \in Puts /\ r.op \in Op
  BY DEF TypeOK
<1>5. SentStarted'
  <2> SUFFICES ASSUME NEW r \in sent'
               PROVE  /\ put'[r.by].pc # "idle"
                      /\ r.op \in {"complete", "head", "copy"} =>
                            put'[r.by].payload \in Contents
    BY DEF SentStarted
  <2>1. CASE r \in new
    BY <1>1, <2>1
  <2>2. CASE r \in sent
    BY <1>1, <1>4, <2>2 DEF SentStarted
  <2> QED
    BY <2>1, <2>2
<1>6. CopyOnce'
  <2> SUFFICES ASSUME NEW r \in sent', r.op = "copy"
               PROVE  /\ put'[r.by].pc \notin Early
                      /\ object[KeyOf(r.by, put'[r.by].payload)] = None
    BY DEF CopyOnce, FinalKey, KeyOf
  <2>1. CASE r \in new
    BY <1>1, <2>1
  <2>2. CASE r \in sent
    BY <1>1, <1>4, <2>2 DEF CopyOnce, SentStarted, FinalKey, KeyOf, Early
  <2> QED
    BY <2>1, <2>2
<1>7. StagedIsOwn'
  BY <1>1 DEF StagedIsOwn, PutsLocal, Local
<1>8. FinalIsItsHash'
  BY DEF FinalIsItsHash
<1> QED
  BY <1>2, <1>3, <1>5, <1>6, <1>7, <1>8
-----------------------------------------------------------------------------
(* The steps of a put. *)

\* A call that came back and was followed by the next.
LEMMA CallStep ==
    ASSUME IInv, NEW p \in Puts,
           \/ ConnectFails(p) \/ Start(p) \/ Created(p) \/ Streamed(p)
           \/ Completed(p) \/ HeadAbsent(p) \/ Copied(p)
    PROVE  IInv'
<1> DEFINE t == put[p]
<1>0. t \in Put /\ Local(p, t)
  BY DEF IInv, TypeOK, PutsLocal
<1> USE PutFields
<1>1. CASE ConnectFails(p)
  <2> DEFINE s == [t EXCEPT !.pc = "ended", !.outcome = "storage"]
  <2>1. Moves(p, s, "none")
    BY <1>1 DEF Moves, ConnectFails
  <2>2. s \in Put /\ s.pc = "ended" /\ s.payload = t.payload
        /\ s.outcome = "storage" /\ s.cancelled = t.cancelled
    <3>1. "storage" \in Failure
      BY DEF Failure
    <3>2. s = Ended(t, "storage")
      BY DEF Ended
    <3> HIDE DEF s, t
    <3> QED BY <1>0, <3>1, <3>2, Ends
  <2> HIDE DEF s
  <2>3. Sound(p, s, "none")
    BY <1>0, <1>1, <2>2 DEF Sound, Local, Early, ConnectFails
  <2> QED
    BY <2>1, <2>3, PutMoves
<1>2. CASE Start(p)
  <2>1. PICK c \in Contents \cup {Empty} :
           Call(p, "idle", "none", [put[p] EXCEPT !.pc = "create", !.payload = c])
    BY <1>2 DEF Start
  <2> DEFINE s == [[t EXCEPT !.pc = "create", !.payload = c] EXCEPT !.reply = "none"]
  <2>2. Moves(p, s, "create")
    BY <1>2, <2>1 DEF Moves, Start, Call, Send
  <2>3. s \in Put /\ s.pc = "create" /\ s.payload = c /\ s.outcome = t.outcome
    BY <1>0, <2>1 DEF Put, Call
  <2> HIDE DEF s
  <2>4. Sound(p, s, "create")
    BY <1>0, <2>1, <2>3 DEF Sound, Local, Op, Early, Call
  <2> QED
    BY <2>2, <2>4, PutMoves
<1>3. CASE Created(p)
  <2> DEFINE s == [[t EXCEPT !.pc = "stream", !.upload_id = "known"]
                     EXCEPT !.reply = "none"]
  <2>1. Moves(p, s, "none")
    BY <1>3 DEF Moves, Created, Call
  <2>2. s \in Put /\ s.pc = "stream" /\ s.payload = t.payload
        /\ s.outcome = t.outcome
    BY <1>0, <1>3 DEF Put, Created, Call
  <2> HIDE DEF s
  <2>3. Sound(p, s, "none")
    BY <1>0, <1>3, <2>2 DEF Sound, Local, Op, Early, Created, Call
  <2> QED
    BY <2>1, <2>3, PutMoves
<1>4. CASE Streamed(p)
  <2> DEFINE s == [[t EXCEPT !.pc = "complete"] EXCEPT !.reply = "none"]
  <2>1. Moves(p, s, "complete")
    BY <1>4 DEF Moves, Streamed, Call, Send
  <2>2. s \in Put /\ s.pc = "complete" /\ s.payload = t.payload
        /\ s.outcome = t.outcome
    BY <1>0, <1>4 DEF Put, Streamed, Call
  <2> HIDE DEF s
  <2>3. Sound(p, s, "complete")
    BY <1>0, <1>4, <2>2 DEF Sound, Local, Op, Early, Streamed, Call
  <2> QED
    BY <2>1, <2>3, PutMoves
<1>5. CASE Completed(p)
  <2> DEFINE s == [[t EXCEPT !.pc = "head", !.completed = "yes"]
                     EXCEPT !.reply = "none"]
  <2>1. Moves(p, s, "head")
    BY <1>5 DEF Moves, Completed, Call, Send
  <2>2. s \in Put /\ s.pc = "head" /\ s.payload = t.payload
        /\ s.outcome = t.outcome /\ s.reply = "none"
    BY <1>0, <1>5 DEF Put, Completed, Call
  <2> HIDE DEF s
  <2>3. Sound(p, s, "head")
    BY <1>0, <1>5, <2>2 DEF Sound, Local, Op, Early, Completed, Call
  <2> QED
    BY <2>1, <2>3, PutMoves
<1>6. CASE HeadAbsent(p)
  <2> DEFINE s == [[t EXCEPT !.pc = "copy"] EXCEPT !.reply = "none"]
  <2>1. Moves(p, s, "copy")
    BY <1>6 DEF Moves, HeadAbsent, Call, Send
  <2>2. s \in Put /\ s.pc = "copy" /\ s.payload = t.payload
        /\ s.outcome = t.outcome /\ s.reply = "none"
    BY <1>0, <1>6 DEF Put, HeadAbsent, Call
  <2> HIDE DEF s
  <2>3. Sound(p, s, "copy")
    BY <1>0, <1>6, <2>2 DEF Sound, Local, Op, Early, HeadAbsent, Call
  <2> QED
    BY <2>1, <2>3, PutMoves
<1>7. CASE Copied(p)
  <2> DEFINE s == [[t EXCEPT !.pc = "cleanup"] EXCEPT !.reply = "none"]
  <2>1. Moves(p, s, "delete")
    BY <1>7 DEF Moves, Copied, Call, Send
  <2>2. s \in Put /\ s.pc = "cleanup" /\ s.payload = t.payload
        /\ s.outcome = t.outcome
    BY <1>0, <1>7 DEF Put, Copied, Call
  <2> HIDE DEF s
  <2>3. Sound(p, s, "delete")
    BY <1>0, <1>7, <2>2 DEF Sound, Local, Op, Early, Copied, Call
  <2> QED
    BY <2>1, <2>3, PutMoves
<1> QED
  BY <1>1, <1>2, <1>3, <1>4, <1>5, <1>6, <1>7

\* Unwinding sends an abort or a delete, or ends a put that has nothing.
LEMMA UnwindStep ==
    ASSUME IInv, NEW p \in Puts, NEW failure \in Failure,
           NEW cancelled \in {"no", "yes"}, NEW lost \in SUBSET Op,
           cancelled = "yes" => failure = "cancelled",
           put[p].pc \in {"create", "stream", "complete", "head", "copy"},
           Unwind(p, failure, cancelled, lost)
    PROVE  IInv'
<1> DEFINE t == put[p]
           next == [t EXCEPT !.primary = failure, !.cancelled = cancelled,
                             !.reply = "none", !.lost = t.lost \cup lost]
<1>0. t \in Put /\ Local(p, t)
  BY DEF IInv, TypeOK, PutsLocal
<1>1. next \in Put /\ next.payload = t.payload /\ next.cancelled = cancelled
      /\ next.primary = failure /\ next.outcome = t.outcome
  <2>1. PICK l : l = t.lost \cup lost
    OBVIOUS
  <2>2. l \in SUBSET Op
    BY <1>0, <2>1, PutFields
  <2>3. next = Unwound(t, failure, cancelled, l)
    BY <2>1 DEF Unwound
  <2> HIDE DEF next, t
  <2> QED BY <1>0, <2>2, <2>3, Unwinds
<1>2. t.outcome = "stored" => t.payload \in Contents /\ PublishedAs(p, t.payload)
  BY <1>0 DEF Local
<1>3. CASE t.upload_id = "known"
  <2> DEFINE s == [next EXCEPT !.pc = "cleanup"]
             op == IF t.completed = "yes" THEN "delete" ELSE "abort"
  <2>1. Moves(p, s, op)
    BY <1>3 DEF Moves, Unwind, Send
  <2>2. op \in {"delete", "abort"}
    OBVIOUS
  <2> HIDE DEF next, op
  <2>3. s \in Put /\ s.pc = "cleanup" /\ s.payload = t.payload
        /\ s.primary = failure /\ s.outcome = t.outcome
    <3>1. s \in Put
      BY <1>1, Zenon DEF Put
    <3>2. s.pc = "cleanup" /\ s.payload = t.payload
          /\ s.primary = failure /\ s.outcome = t.outcome
      BY <1>1 DEF Put
    <3> QED BY <3>1, <3>2
  <2> HIDE DEF s
  <2>4. Local(p, s)
    BY <1>2, <2>3 DEF Local, Failure
  <2>5. Sound(p, s, op)
    BY <2>2, <2>3, <2>4 DEF Sound, Op, Early
  <2> QED
    BY <2>1, <2>5, PutMoves
<1>4. CASE t.upload_id # "known"
  <2> DEFINE s == [next EXCEPT !.pc = "ended", !.outcome = failure]
  <2>1. Moves(p, s, "none")
    BY <1>4 DEF Moves, Unwind
  <2> HIDE DEF next
  <2>2. s \in Put /\ s.pc = "ended" /\ s.payload = t.payload
        /\ s.outcome = failure /\ s.cancelled = cancelled
    <3>1. s = Ended(next, failure)
      BY DEF Ended
    <3> HIDE DEF s
    <3> QED BY <1>1, <3>1, Ends
  <2> HIDE DEF s
  <2>3. Local(p, s)
    BY <2>2 DEF Local, Failure
  <2>4. Sound(p, s, "none")
    BY <2>2, <2>3 DEF Sound, Early
  <2> QED
    BY <2>1, <2>4, PutMoves
<1> QED
  BY <1>3, <1>4

\* Every way to fail unwinds.
LEMMA FailureStep ==
    ASSUME IInv, NEW p \in Puts,
           \/ CallRefused(p) \/ CallLost(p) \/ StreamFails(p) \/ SourceFails(p)
           \/ HeadPresent(p) \/ Cancel(p)
    PROVE  IInv'
<1> USE UnwindStep DEF Failure, Op
<1>1. CASE CallRefused(p)
  BY <1>1 DEF CallRefused
<1>2. CASE CallLost(p)
  BY <1>2 DEF CallLost
<1>3. CASE StreamFails(p)
  BY <1>3 DEF StreamFails
<1>4. CASE SourceFails(p)
  BY <1>4 DEF SourceFails
<1>5. CASE HeadPresent(p)
  BY <1>5 DEF HeadPresent
<1>6. CASE Cancel(p)
  BY <1>6 DEF Cancel
<1> QED
  BY <1>1, <1>2, <1>3, <1>4, <1>5, <1>6

\* Ending a cleanup keeps what the put has published.
LEMMA EndStep ==
    ASSUME IInv, NEW p \in Puts, NEW lost \in SUBSET Op, End(p, Outcome(p), lost)
    PROVE  IInv'
<1> DEFINE t == put[p]
           s == [t EXCEPT !.pc = "ended", !.outcome = Outcome(p),
                          !.lost = t.lost \cup lost]
<1>0. t \in Put /\ Local(p, t) /\ t.pc = "cleanup"
  BY DEF IInv, TypeOK, PutsLocal, End
<1> USE PutFields
<1>1. Outcome(p) \in Failure \cup {"stored"}
  BY <1>0 DEF Outcome, Failure
<1>2. s \in Put
  BY <1>0, <1>1 DEF Put
<1>3. Local(p, s)
  BY <1>0 DEF Local, Put, Outcome, Failure
<1>4. s.pc = "ended" /\ s.payload = t.payload
  BY <1>0 DEF Put
<1>5. Moves(p, s, "none")
  BY DEF Moves, End
<1> HIDE DEF s
<1>6. Sound(p, s, "none")
  BY <1>2, <1>3, <1>4 DEF Sound, Early
<1> QED
  BY <1>5, <1>6, PutMoves

\* The cleanup, its supervision and the death of the process.
LEMMA CleanupStep ==
    ASSUME IInv, NEW p \in Puts,
           \/ CancelCleanup(p) \/ Tick(p) \/ CleanedUp(p) \/ CleanupFails(p)
           \/ GraceOver(p) \/ Die(p)
    PROVE  IInv'
<1> DEFINE t == put[p]
<1>0. t \in Put /\ Local(p, t)
  BY DEF IInv, TypeOK, PutsLocal
<1> USE PutFields
<1>1. CASE CancelCleanup(p)
  <2> DEFINE s == [t EXCEPT !.cancelled = "yes"]
  <2>1. Moves(p, s, "none")
    BY <1>1 DEF Moves, CancelCleanup
  <2>2. s.payload = t.payload /\ s.pc # "idle"
    BY <1>0, <1>1 DEF Put, CancelCleanup
  <2>3. Sound(p, s, "none")
    BY <1>0, <1>1, <2>2 DEF Sound, Local, Put, Op, Early, Failure, CancelCleanup
  <2> QED
    BY <2>1, <2>3, PutMoves
<1>2. CASE Tick(p)
  <2> DEFINE s == [t EXCEPT !.grace = t.grace - 1]
  <2>1. Moves(p, s, "none")
    BY <1>2 DEF Moves, Tick
  <2>2. s.payload = t.payload /\ s.pc # "idle"
    BY <1>0, <1>2 DEF Put, Tick
  <2>3. Sound(p, s, "none")
    BY <1>0, <1>2, <2>2 DEF Sound, Local, Put, Op, Early, Failure, Tick
  <2> QED
    BY <2>1, <2>3, PutMoves
<1>3. CASE CleanedUp(p) \/ CleanupFails(p) \/ GraceOver(p)
  <2>1. put[p].pc = "cleanup"
    BY <1>3 DEF CleanedUp, CleanupFails, GraceOver, End
  <2>2. {Awaited(p)} \in SUBSET Op
    BY <2>1 DEF Awaited, Op
  <2> QED
    BY <1>3, <2>2, EndStep DEF CleanedUp, CleanupFails, GraceOver
<1>4. CASE Die(p)
  <2> DEFINE s == [t EXCEPT !.pc = "ended", !.outcome = "died"]
  <2>1. Moves(p, s, "none")
    BY <1>4 DEF Moves, Die
  <2>2. s \in Put /\ s.pc = "ended" /\ s.payload = t.payload
        /\ s.outcome = "died"
    BY <1>0, <1>4 DEF Put, Die
  <2> HIDE DEF s
  <2>3. Sound(p, s, "none")
    BY <1>0, <1>4, <2>2 DEF Sound, Local, Op, Early, Die
  <2> QED
    BY <2>1, <2>3, PutMoves
<1> QED
  BY <1>1, <1>2, <1>3, <1>4
-----------------------------------------------------------------------------
(* The bucket's steps. *)

Answers == {"done", "absent", "present", "error"}

\* What an answer changes of the puts.
LEMMA ReplyFields ==
    ASSUME TypeOK, NEW r \in sent, NEW answer \in Answers, Reply(r, answer)
    PROVE  /\ r.by \in Puts /\ r.op \in Op
           /\ sent' = sent \ {r}
           /\ put' \in [Puts -> Put]
           /\ \A q \in Puts :
                 /\ put'[q].pc = put[q].pc
                 /\ put'[q].payload = put[q].payload
                 /\ put'[q].primary = put[q].primary
                 /\ put'[q].cancelled = put[q].cancelled
                 /\ put'[q].outcome = put[q].outcome
                 /\ put'[q].upload_id = put[q].upload_id
                 /\ put'[q].completed = put[q].completed
                 /\ put'[q].lost = put[q].lost
                 /\ \/ put'[q].reply = put[q].reply
                    \/ q = r.by /\ Awaited(q) = r.op /\ put'[q].reply = answer
<1>1. r.by \in Puts /\ r.op \in Op /\ put \in [Puts -> Put]
  BY DEF TypeOK
<1>2. sent' = sent \ {r}
  BY DEF Reply
<1>3. CASE Awaited(r.by) = r.op
  <2> DEFINE s == [put[r.by] EXCEPT !.reply = answer]
  <2>1. put' = [put EXCEPT ![r.by] = s]
    BY <1>3 DEF Reply
  <2>2. /\ s \in Put /\ s.pc = put[r.by].pc /\ s.payload = put[r.by].payload
        /\ s.primary = put[r.by].primary /\ s.cancelled = put[r.by].cancelled
        /\ s.outcome = put[r.by].outcome /\ s.reply = answer
        /\ s.upload_id = put[r.by].upload_id /\ s.completed = put[r.by].completed
        /\ s.lost = put[r.by].lost
    BY <1>1 DEF Put, Answers
  <2> HIDE DEF s
  <2>3. \A q \in Puts : put'[q] = IF q = r.by THEN s ELSE put[q]
    BY <1>1, <2>1
  <2> QED
    BY <1>1, <1>2, <1>3, <2>1, <2>2, <2>3
<1>4. CASE Awaited(r.by) # r.op
  BY <1>1, <1>2, <1>4 DEF Reply
<1> QED
  BY <1>3, <1>4

\* What a put awaits is where it is.
LEMMA AwaitedAt ==
    ASSUME NEW p \in Puts
    PROVE  /\ put[p].pc = "copy" => Awaited(p) = "copy"
           /\ put[p].pc = "head" => Awaited(p) = "head"
  BY DEF Awaited

\* An answer that leaves the final objects alone and promises nothing wrong.
LEMMA AnswerStep ==
    ASSUME IInv, NEW r \in sent, NEW answer \in Answers, Reply(r, answer),
           object' = object, uploads' \subseteq Puts,
           r.op = "copy" => answer # "done",
           r.op = "head" /\ answer = "absent" => object[FinalKey(r.by)] = None,
           staging' \in [Puts -> Contents \cup {None}],
           \A p \in Puts : staging'[p] # None =>
              put[p].payload \in Contents /\ staging'[p] = put[p].payload
    PROVE  IInv'
<1> USE ReplyFields DEF IInv
<1>1. TypeOK'
  BY DEF TypeOK
<1>2. PutsLocal'
  <2> SUFFICES ASSUME NEW p \in Puts PROVE Local(p, put[p])'
    BY DEF PutsLocal
  <2>1. Local(p, put[p])
    BY DEF PutsLocal
  <2>2. put'[p].pc = "head" /\ put'[p].reply = "absent"
           => object[KeyOf(p, put[p].payload)] = None
    BY <2>1, AwaitedAt DEF Local, KeyOf, FinalKey
  <2>3. put'[p].pc = "copy" /\ put'[p].reply = "done" => put[p].reply = "done"
    BY AwaitedAt
  <2> QED
    BY <2>1, <2>2, <2>3 DEF Local, PublishedAs
<1>3. SentStarted'
  BY DEF SentStarted, TypeOK
<1>4. CopyOnce'
  BY DEF CopyOnce, FinalKey, TypeOK
<1>5. StagedIsOwn'
  BY DEF StagedIsOwn
<1>6. FinalIsItsHash'
  BY DEF FinalIsItsHash
<1> QED
  BY <1>1, <1>2, <1>3, <1>4, <1>5, <1>6

\* The copy takes the free key of its put, and no other.
LEMMA CopyFacts ==
    ASSUME IInv, NEW r \in sent, ServeCopy(r)
    PROVE  /\ r.by \in Puts /\ put[r.by].payload \in Contents
           /\ FinalKey(r.by) \in Keys /\ object[FinalKey(r.by)] = None
           /\ object' = [object EXCEPT ![FinalKey(r.by)] =
                            [by |-> r.by, bytes |-> put[r.by].payload]]
<1>1. r.by \in Puts /\ put[r.by].payload \in Contents
  BY DEF IInv, TypeOK, SentStarted, ServeCopy
<1>2. staging[r.by] = put[r.by].payload
  BY <1>1 DEF IInv, StagedIsOwn, ServeCopy, StagingKey
<1>3. object[FinalKey(r.by)] = None
  BY DEF IInv, CopyOnce, ServeCopy
<1>4. FinalKey(r.by) \in Keys
  BY <1>1 DEF FinalKey, Keys, Puts
<1> QED
  BY <1>1, <1>2, <1>3, <1>4 DEF ServeCopy, StagingKey

\* The copy keeps the invariant: it writes a key that nobody else has.
LEMMA CopyStep ==
    ASSUME IInv, NEW r \in sent, ServeCopy(r)
    PROVE  IInv'
<1> DEFINE p == r.by
           o == [by |-> p, bytes |-> put[p].payload]
<1>1. Reply(r, "done") /\ "done" \in Answers /\ UNCHANGED <<uploads, staging>>
      /\ r.op = "copy"
  BY DEF ServeCopy, Answers
<1>2. /\ p \in Puts /\ put[p].payload \in Contents
      /\ FinalKey(p) \in Keys /\ object[FinalKey(p)] = None
      /\ object' = [object EXCEPT ![FinalKey(p)] = o]
  BY CopyFacts
<1>3. o \in Object /\ o.bytes = put[p].payload
  BY <1>2 DEF Object
<1>4. \A k \in Keys : object'[k] = IF k = FinalKey(p) THEN o ELSE object[k]
  BY <1>2 DEF IInv, TypeOK
<1>5. TypeOK'
  BY <1>1, <1>2, <1>3, ReplyFields DEF IInv, TypeOK
<1>6. \A q \in Puts, c \in Contents :
         KeyOf(q, c) \in Keys /\ (q # p => KeyOf(q, c) # FinalKey(p))
  BY <1>2, KeysApart DEF Keys, Puts, FinalKey, KeyOf
<1>7. put[p].pc \notin Early
  BY <1>1 DEF IInv, CopyOnce
<1>8. PutsLocal'
  <2> SUFFICES ASSUME NEW q \in Puts PROVE Local(q, put[q])'
    BY DEF PutsLocal
  <2>1. Local(q, put[q])
    BY DEF IInv, PutsLocal
  <2>2. /\ put'[q].pc = put[q].pc /\ put'[q].payload = put[q].payload
        /\ put'[q].primary = put[q].primary
        /\ put'[q].cancelled = put[q].cancelled
        /\ put'[q].outcome = put[q].outcome
    BY <1>1, ReplyFields DEF IInv
  <2>3. CASE q = p
    <3>1. PublishedAs(p, put[p].payload)'
      BY <1>2, <1>4, <2>2, <2>3 DEF PublishedAs, KeyOf, FinalKey
    <3> QED
      BY <1>2, <1>7, <2>1, <2>2, <2>3, <3>1 DEF Local, Early
  <2>4. CASE q # p
    <3>1. put'[q].reply = put[q].reply
      BY <1>1, <2>4, ReplyFields DEF IInv
    <3>2. put[q].payload \in Contents =>
             object'[KeyOf(q, put[q].payload)] = object[KeyOf(q, put[q].payload)]
      BY <1>4, <1>6, <2>4
    <3> QED
      BY <2>1, <2>2, <3>1, <3>2 DEF Local, PublishedAs
  <2> QED
    BY <2>3, <2>4
<1>9. SentStarted'
  BY <1>1, ReplyFields DEF IInv, SentStarted, TypeOK
<1>10. CopyOnce'
  <2> SUFFICES ASSUME NEW q \in sent', q.op = "copy"
               PROVE  put'[q.by].pc \notin Early /\ object'[FinalKey(q.by)'] = None
    BY DEF CopyOnce
  <2>1. q \in sent /\ q # r /\ q.by \in Puts
    BY <1>1, ReplyFields DEF IInv, TypeOK
  <2>2. q.by # p
    BY <1>1, <2>1 DEF IInv, TypeOK
  <2>3. put[q.by].pc \notin Early /\ object[FinalKey(q.by)] = None
        /\ put[q.by].payload \in Contents
    BY <2>1 DEF IInv, CopyOnce, SentStarted
  <2>4. FinalKey(q.by)' = FinalKey(q.by) /\ put'[q.by].pc = put[q.by].pc
    BY <1>1, <2>1, ReplyFields DEF FinalKey, IInv
  <2>5. object'[FinalKey(q.by)] = object[FinalKey(q.by)]
    BY <1>4, <1>6, <2>1, <2>2, <2>3 DEF FinalKey, KeyOf
  <2> QED
    BY <2>3, <2>4, <2>5
<1>11. StagedIsOwn'
  BY <1>1, ReplyFields DEF IInv, StagedIsOwn
<1>12. FinalIsItsHash'
  BY <1>3, <1>4 DEF IInv, FinalIsItsHash, FinalKey
<1> QED
  BY <1>5, <1>8, <1>9, <1>10, <1>11, <1>12 DEF IInv

\* Whatever the bucket does with a request keeps the invariant.
LEMMA ServeStep ==
    ASSUME IInv, NEW r \in sent, Serve(r)
    PROVE  IInv'
<1> USE DEF Answers
<1>0. /\ r.by \in Puts /\ uploads \subseteq Puts
      /\ staging \in [Puts -> Contents \cup {None}]
      /\ \A p \in Puts : staging[p] # None =>
            put[p].payload \in Contents /\ staging[p] = put[p].payload
  BY DEF IInv, TypeOK, StagedIsOwn
<1>1. CASE ServeCreate(r)
  BY <1>0, <1>1, AnswerStep DEF ServeCreate
<1>2. CASE ServeComplete(r)
  <2>1. put[r.by].payload \in Contents
    BY <1>2 DEF IInv, SentStarted, ServeComplete
  <2>2. staging' = [staging EXCEPT ![r.by] = put[r.by].payload]
    BY <1>2 DEF ServeComplete, StagingKey
  <2>3. uploads' \subseteq Puts /\ object' = object /\ Reply(r, "done")
        /\ r.op = "complete"
    BY <1>0, <1>2 DEF ServeComplete
  <2>4. /\ staging' \in [Puts -> Contents \cup {None}]
        /\ \A p \in Puts : staging'[p] # None =>
              put[p].payload \in Contents /\ staging'[p] = put[p].payload
    BY <1>0, <2>1, <2>2
  <2> QED
    BY <2>3, <2>4, AnswerStep
<1>3. CASE ServeHead(r)
  BY <1>0, <1>3, AnswerStep DEF ServeHead, bucket
<1>4. CASE ServeCopy(r)
  BY <1>4, CopyStep
<1>5. CASE ServeAbort(r)
  BY <1>0, <1>5, AnswerStep DEF ServeAbort
<1>6. CASE ServeDelete(r)
  <2>1. staging' = [staging EXCEPT ![r.by] = None]
    BY <1>6 DEF ServeDelete, StagingKey
  <2>2. /\ staging' \in [Puts -> Contents \cup {None}]
        /\ \A p \in Puts : staging'[p] # None =>
              put[p].payload \in Contents /\ staging'[p] = put[p].payload
    BY <1>0, <2>1
  <2> QED
    BY <1>0, <1>6, <2>2, AnswerStep DEF ServeDelete
<1>7. CASE Refuse(r)
  BY <1>0, <1>7, AnswerStep DEF Refuse, bucket
<1> QED
  BY <1>1, <1>2, <1>3, <1>4, <1>5, <1>6, <1>7 DEF Serve

-----------------------------------------------------------------------------
(* What an ended put leaves behind. *)

Done == {"stored", "cancelled", "died"}

\* How far a put is, what it has and what it has lost.
Progress(s) ==
    /\ s.pc \notin {"cleanup", "ended"} =>
          s.primary = "none" /\ s.lost = {} /\ s.outcome = "none"
    /\ s.pc = "cleanup" => s.outcome = "none"
    /\ s.pc \in {"idle", "create"} => s.upload_id = "none"
    /\ s.pc \in {"stream", "complete", "head", "copy", "cleanup"} => s.upload_id = "known"
    /\ s.pc \in {"idle", "create", "stream", "complete"} => s.completed = "no"
    /\ s.pc \in {"head", "copy"} => s.completed = "yes"
    /\ s.completed = "yes" => s.upload_id = "known"

\* A request that is still out is waited for, or its put went on without it.
Outstanding(s, op) ==
    \/ s.pc = op /\ s.reply = "none"
    \/ op \in s.lost
    \/ s.outcome = "died"

Requested(p, s) ==
    \A r \in sent : r.by = p =>
       /\ r.op = "create" => s.upload_id = "none" /\ Outstanding(s, "create")
       /\ r.op = "complete" => s.completed = "no" /\ Outstanding(s, "complete")
       /\ r.op = "copy" => Outstanding(s, "copy")

\* An upload is open, a staging object or a final object is there: the put will
\* deal with it, has not heard of it, or lost what would have.
UploadOf(s) ==
    /\ s.completed = "no" /\ s.pc # "idle"
    /\ s.pc = "create" => s.reply = "done"
    /\ s.pc \in {"complete", "cleanup"} => s.reply # "done"
    /\ s.pc = "ended" => s.outcome = "died" \/ s.lost \cap {"create", "abort"} # {}

StagingOf(s) ==
    /\ s.pc \notin {"idle", "create", "stream"}
    /\ s.pc = "complete" => s.reply = "done"
    /\ s.pc = "cleanup" =>
          IF s.completed = "yes" THEN s.reply # "done" ELSE "complete" \in s.lost
    /\ s.pc = "ended" => s.outcome = "died" \/ s.lost \cap {"complete", "delete"} # {}

ObjectOf(s) ==
    /\ s.pc \in {"copy", "cleanup", "ended"}
    /\ s.pc = "copy" => s.reply = "done"
    /\ s.pc = "cleanup" => s.primary = "none" \/ "copy" \in s.lost
    /\ s.pc = "ended" => s.outcome \in Done \/ "copy" \in s.lost

\* What the state s of put p says about what is there of it.
Traces(p, s) ==
    /\ Progress(s)
    /\ Requested(p, s)
    /\ p \in uploads => UploadOf(s)
    /\ staging[p] # None => StagingOf(s)
    /\ \A k \in Keys :
          object[k] # None /\ object[k].by = p /\ p # None => ObjectOf(s)

TInv == \A p \in Puts : Traces(p, put[p])

\* It holds of the first state: only objects from before are there.
LEMMA InitTraces == Init => TInv
<1> SUFFICES ASSUME Init, NEW p \in Puts PROVE Traces(p, put[p])
  BY DEF TInv
<1>1. put[p] = Fresh /\ sent = {} /\ p \notin uploads /\ staging[p] = None
  BY DEF Init
<1>2. \A k \in Keys : object[k] # None => object[k].by = None
  BY DEF Init
<1>3. Progress(Fresh)
  BY DEF Progress, Fresh
<1> QED
  BY <1>1, <1>2, <1>3 DEF Traces, Requested

\* From t to s a put keeps the account of what is there, and of its requests.
Passes(t, s) ==
    /\ UploadOf(t) => UploadOf(s)
    /\ StagingOf(t) => StagingOf(s)
    /\ ObjectOf(t) => ObjectOf(s)
    /\ t.upload_id = "none" /\ Outstanding(t, "create") =>
          s.upload_id = "none" /\ Outstanding(s, "create")
    /\ t.completed = "no" /\ Outstanding(t, "complete") =>
          s.completed = "no" /\ Outstanding(s, "complete")
    /\ Outstanding(t, "copy") => Outstanding(s, "copy")

\* The put in s waits for the answer to op.
Asks(s, op) ==
    /\ op = "create" => s.upload_id = "none" /\ Outstanding(s, "create")
    /\ op = "complete" => s.completed = "no" /\ Outstanding(s, "complete")
    /\ op = "copy" => Outstanding(s, "copy")

\* A put begins without requests, so nothing is owed to them.
LEMMA IdleOwesNothing ==
    ASSUME NEW t \in Put, Progress(t), t.pc = "idle"
    PROVE  /\ ~UploadOf(t) /\ ~StagingOf(t) /\ ~ObjectOf(t)
           /\ \A op \in {"create", "complete", "copy"} : ~Outstanding(t, op)
  BY DEF Progress, UploadOf, StagingOf, ObjectOf, Outstanding

\* A put that moves and keeps its account keeps everyone's.
LEMMA PutTraces ==
    ASSUME TypeOK, TInv, NEW p \in Puts, NEW s, NEW op, Moves(p, s, op),
           Progress(s), Passes(put[p], s), Asks(s, op)
    PROVE  TInv'
<1> DEFINE new == IF op = "none" THEN {} ELSE {[by |-> p, op |-> op]}
<1>1. /\ put' = [put EXCEPT ![p] = s] /\ UNCHANGED <<uploads, staging, object>>
      /\ sent' = sent \cup new
      /\ \A r \in new : r.by = p /\ r.op = op
  BY DEF Moves, bucket
<1> HIDE DEF new
<1>2. \A q \in Puts : put'[q] = IF q = p THEN s ELSE put[q]
  BY <1>1 DEF TypeOK
<1> SUFFICES ASSUME NEW q \in Puts PROVE Traces(q, put[q])'
  BY DEF TInv
<1>3. Traces(q, put[q])
  BY DEF TInv
<1>4. CASE q # p
  <2>1. put'[q] = put[q]
    BY <1>2, <1>4
  <2>2. Requested(q, put[q])'
    BY <1>1, <1>3, <1>4, <2>1 DEF Traces, Requested, Outstanding
  <2> QED
    BY <1>1, <1>3, <2>1, <2>2 DEF Traces, Progress, UploadOf, StagingOf, ObjectOf
<1>5. CASE q = p
  <2>1. put'[q] = s
    BY <1>2, <1>5
  <2>2. Requested(q, put[q])'
    BY <1>1, <1>3, <1>5, <2>1 DEF Traces, Requested, Passes, Asks, Outstanding
  <2>3. Progress(put'[q])
    BY <2>1
  <2>4. /\ UploadOf(put[q]) => UploadOf(put'[q])
        /\ StagingOf(put[q]) => StagingOf(put'[q])
        /\ ObjectOf(put[q]) => ObjectOf(put'[q])
    BY <1>5, <2>1 DEF Passes
  <2> QED
    BY <1>1, <1>3, <2>2, <2>3, <2>4 DEF Traces
<1> QED
  BY <1>4, <1>5

\* The call that came back was the only one out, and the next is waited for.
LEMMA CallTraces ==
    ASSUME IInv, TInv, NEW p \in Puts,
           \/ ConnectFails(p) \/ Start(p) \/ Created(p) \/ Streamed(p)
           \/ Completed(p) \/ HeadAbsent(p) \/ Copied(p)
    PROVE  TInv'
<1> DEFINE t == put[p]
<1>0. t \in Put /\ Progress(t) /\ TypeOK
  BY DEF IInv, TypeOK, TInv, Traces
<1> USE PutFields DEF Progress, Passes, Asks, Outstanding, UploadOf, StagingOf, ObjectOf
<1>1. CASE ConnectFails(p)
  <2> DEFINE s == [t EXCEPT !.pc = "ended", !.outcome = "storage"]
  <2>1. Moves(p, s, "none") /\ t.pc = "idle"
    BY <1>1 DEF Moves, ConnectFails
  <2>2. /\ s.pc = "ended" /\ s.outcome = "storage" /\ s.upload_id = t.upload_id
        /\ s.completed = t.completed /\ s.primary = t.primary
        /\ s.lost = t.lost /\ s.reply = t.reply
    BY <1>0 DEF Put
  <2> HIDE DEF s
  <2>3. Progress(s) /\ Passes(t, s)
    BY <1>0, <2>1, <2>2, IdleOwesNothing
  <2> QED
    BY <1>0, <2>1, <2>3, PutTraces
<1>2. CASE Start(p)
  <2>1. PICK c \in Contents \cup {Empty} :
           Call(p, "idle", "none", [put[p] EXCEPT !.pc = "create", !.payload = c])
    BY <1>2 DEF Start
  <2> DEFINE s == [[t EXCEPT !.pc = "create", !.payload = c] EXCEPT !.reply = "none"]
  <2>2. Moves(p, s, "create") /\ t.pc = "idle"
    BY <1>2, <2>1 DEF Moves, Start, Call, Send
  <2>3. /\ s.pc = "create" /\ s.outcome = t.outcome /\ s.upload_id = t.upload_id
        /\ s.completed = t.completed /\ s.primary = t.primary
        /\ s.lost = t.lost /\ s.reply = "none"
    BY <1>0 DEF Put
  <2> HIDE DEF s
  <2>4. Progress(s) /\ Passes(t, s) /\ Asks(s, "create")
    BY <1>0, <2>2, <2>3, IdleOwesNothing
  <2> QED
    BY <1>0, <2>2, <2>4, PutTraces
<1>3. CASE Created(p)
  <2> DEFINE s == [[t EXCEPT !.pc = "stream", !.upload_id = "known"]
                     EXCEPT !.reply = "none"]
  <2>1. Moves(p, s, "none") /\ t.pc = "create" /\ t.reply = "done"
    BY <1>3 DEF Moves, Created, Call
  <2>2. /\ s.pc = "stream" /\ s.outcome = t.outcome /\ s.upload_id = "known"
        /\ s.completed = t.completed /\ s.primary = t.primary
        /\ s.lost = t.lost /\ s.reply = "none"
    BY <1>0 DEF Put
  <2> HIDE DEF s
  <2>3. Progress(s) /\ Passes(t, s) /\ Asks(s, "none")
    BY <1>0, <2>1, <2>2
  <2> QED
    BY <1>0, <2>1, <2>3, PutTraces
<1>4. CASE Streamed(p)
  <2> DEFINE s == [[t EXCEPT !.pc = "complete"] EXCEPT !.reply = "none"]
  <2>1. Moves(p, s, "complete") /\ t.pc = "stream"
    BY <1>4 DEF Moves, Streamed, Call, Send
  <2>2. /\ s.pc = "complete" /\ s.outcome = t.outcome /\ s.upload_id = t.upload_id
        /\ s.completed = t.completed /\ s.primary = t.primary
        /\ s.lost = t.lost /\ s.reply = "none"
    BY <1>0 DEF Put
  <2> HIDE DEF s
  <2>3. Progress(s) /\ Passes(t, s) /\ Asks(s, "complete")
    BY <1>0, <2>1, <2>2
  <2> QED
    BY <1>0, <2>1, <2>3, PutTraces
<1>5. CASE Completed(p)
  <2> DEFINE s == [[t EXCEPT !.pc = "head", !.completed = "yes"]
                     EXCEPT !.reply = "none"]
  <2>1. Moves(p, s, "head") /\ t.pc = "complete" /\ t.reply = "done"
    BY <1>5 DEF Moves, Completed, Call, Send
  <2>2. /\ s.pc = "head" /\ s.outcome = t.outcome /\ s.upload_id = t.upload_id
        /\ s.completed = "yes" /\ s.primary = t.primary
        /\ s.lost = t.lost /\ s.reply = "none"
    BY <1>0 DEF Put
  <2> HIDE DEF s
  <2>3. Progress(s) /\ Passes(t, s) /\ Asks(s, "head")
    BY <1>0, <2>1, <2>2
  <2> QED
    BY <1>0, <2>1, <2>3, PutTraces
<1>6. CASE HeadAbsent(p)
  <2> DEFINE s == [[t EXCEPT !.pc = "copy"] EXCEPT !.reply = "none"]
  <2>1. Moves(p, s, "copy") /\ t.pc = "head"
    BY <1>6 DEF Moves, HeadAbsent, Call, Send
  <2>2. /\ s.pc = "copy" /\ s.outcome = t.outcome /\ s.upload_id = t.upload_id
        /\ s.completed = t.completed /\ s.primary = t.primary
        /\ s.lost = t.lost /\ s.reply = "none"
    BY <1>0 DEF Put
  <2> HIDE DEF s
  <2>3. Progress(s) /\ Passes(t, s) /\ Asks(s, "copy")
    BY <1>0, <2>1, <2>2
  <2> QED
    BY <1>0, <2>1, <2>3, PutTraces
<1>7. CASE Copied(p)
  <2> DEFINE s == [[t EXCEPT !.pc = "cleanup"] EXCEPT !.reply = "none"]
  <2>1. Moves(p, s, "delete") /\ t.pc = "copy" /\ t.reply = "done"
    BY <1>7 DEF Moves, Copied, Call, Send
  <2>2. /\ s.pc = "cleanup" /\ s.outcome = t.outcome /\ s.upload_id = t.upload_id
        /\ s.completed = t.completed /\ s.primary = t.primary
        /\ s.lost = t.lost /\ s.reply = "none"
    BY <1>0 DEF Put
  <2> HIDE DEF s
  <2>3. Progress(s) /\ Passes(t, s) /\ Asks(s, "delete")
    BY <1>0, <2>1, <2>2
  <2> QED
    BY <1>0, <2>1, <2>3, PutTraces
<1> QED
  BY <1>1, <1>2, <1>3, <1>4, <1>5, <1>6, <1>7

\* A transfer that failed refused, or did not hear of, what it was waiting for.
LEMMA UnwindTraces ==
    ASSUME IInv, TInv, NEW p \in Puts, NEW failure \in Failure,
           NEW cancelled \in {"no", "yes"}, NEW lost \in SUBSET Op,
           put[p].pc \in {"create", "stream", "complete", "head", "copy"},
           put[p].pc \in {"create", "complete", "copy"} =>
              put[p].reply = "error" \/ put[p].pc \in lost,
           cancelled = "yes" <=> failure = "cancelled",
           Unwind(p, failure, cancelled, lost)
    PROVE  TInv'
<1> DEFINE t == put[p]
           next == [t EXCEPT !.primary = failure, !.cancelled = cancelled,
                             !.reply = "none", !.lost = t.lost \cup lost]
<1>0. t \in Put /\ Progress(t) /\ TypeOK
  BY DEF IInv, TypeOK, TInv, Traces
<1>1. t.lost = {} /\ t.outcome = "none"
  BY <1>0 DEF Progress
<1> USE PutFields
<1>2. CASE t.upload_id = "known"
  <2> DEFINE s == [next EXCEPT !.pc = "cleanup"]
             op == IF t.completed = "yes" THEN "delete" ELSE "abort"
  <2>1. Moves(p, s, op)
    BY <1>2 DEF Moves, Unwind, Send
  <2>2. /\ s.pc = "cleanup" /\ s.outcome = "none" /\ s.upload_id = "known"
        /\ s.completed = t.completed /\ s.primary = failure
        /\ s.lost = lost /\ s.reply = "none"
    BY <1>0, <1>1, <1>2 DEF Put
  <2>3. op \in {"delete", "abort"}
    OBVIOUS
  <2> HIDE DEF s, op
  <2>4. Progress(s) /\ Asks(s, op)
    BY <2>2, <2>3 DEF Progress, Asks
  <2>5. UploadOf(t) => UploadOf(s)
    BY <1>0, <2>2 DEF UploadOf
  <2>6. StagingOf(t) => StagingOf(s)
    BY <1>0, <2>2 DEF StagingOf, Progress
  <2>7. ObjectOf(t) => ObjectOf(s)
    BY <1>0, <2>2 DEF ObjectOf, Progress
  <2>8. Passes(t, s)
    BY <1>0, <1>1, <1>2, <2>2, <2>5, <2>6, <2>7 DEF Passes, Outstanding, Progress
  <2> QED
    BY <1>0, <2>1, <2>4, <2>8, PutTraces
<1>3. CASE t.upload_id # "known"
  <2> DEFINE s == [next EXCEPT !.pc = "ended", !.outcome = failure]
  <2>1. Moves(p, s, "none")
    BY <1>3 DEF Moves, Unwind
  <2>2. /\ s.pc = "ended" /\ s.outcome = failure /\ s.upload_id = "none"
        /\ s.completed = t.completed /\ s.primary = failure
        /\ s.lost = lost /\ s.reply = "none"
    BY <1>0, <1>1, <1>3 DEF Put
  <2>3. t.pc = "create" /\ t.completed = "no"
    BY <1>0, <1>3 DEF Progress
  <2> HIDE DEF s
  <2>4. Progress(s) /\ Asks(s, "none")
    BY <2>2, <2>3 DEF Progress, Asks
  <2>5. UploadOf(t) => UploadOf(s)
    BY <1>0, <2>2, <2>3 DEF UploadOf
  <2>6. Passes(t, s)
    BY <1>0, <1>1, <2>2, <2>3, <2>5
       DEF Passes, Outstanding, StagingOf, ObjectOf
  <2> QED
    BY <1>0, <2>1, <2>4, <2>6, PutTraces
<1> QED
  BY <1>2, <1>3

\* Every way to fail accounts for the call it gives up.
LEMMA FailureTraces ==
    ASSUME IInv, TInv, NEW p \in Puts,
           \/ CallRefused(p) \/ CallLost(p) \/ StreamFails(p) \/ SourceFails(p)
           \/ HeadPresent(p) \/ Cancel(p)
    PROVE  TInv'
<1> USE UnwindTraces DEF Failure, Op
<1>1. CASE CallRefused(p)
  BY <1>1 DEF CallRefused
<1>2. CASE CallLost(p)
  BY <1>2 DEF CallLost
<1>3. CASE StreamFails(p)
  BY <1>3 DEF StreamFails
<1>4. CASE SourceFails(p)
  BY <1>4 DEF SourceFails
<1>5. CASE HeadPresent(p)
  BY <1>5 DEF HeadPresent
<1>6. CASE Cancel(p)
  BY <1>6 DEF Cancel
<1> QED
  BY <1>1, <1>2, <1>3, <1>4, <1>5, <1>6

\* A cleanup ends with its request answered, or listed as lost.
LEMMA EndTraces ==
    ASSUME IInv, TInv, NEW p \in Puts, NEW lost \in SUBSET Op,
           put[p].reply = "done" \/ Awaited(p) \in lost,
           End(p, Outcome(p), lost)
    PROVE  TInv'
<1> DEFINE t == put[p]
           s == [t EXCEPT !.pc = "ended", !.outcome = Outcome(p),
                          !.lost = t.lost \cup lost]
<1>0. t \in Put /\ Progress(t) /\ TypeOK /\ t.pc = "cleanup"
  BY DEF IInv, TypeOK, TInv, Traces, End
<1> USE PutFields
<1>1. t.primary = "none" => Outcome(p) \in Done
  BY <1>0 DEF Outcome, Done
<1>2. Awaited(p) = IF t.completed = "yes" THEN "delete" ELSE "abort"
  BY <1>0 DEF Awaited
<1>3. Moves(p, s, "none")
  BY DEF Moves, End
<1>4. /\ s.pc = "ended" /\ s.upload_id = t.upload_id
      /\ s.completed = t.completed /\ s.outcome = Outcome(p)
      /\ s.lost = t.lost \cup lost /\ s.reply = t.reply
  BY <1>0 DEF Put
<1> HIDE DEF s
<1>5. Progress(s) /\ Asks(s, "none")
  BY <1>0, <1>4 DEF Progress, Asks
<1>6. UploadOf(t) => UploadOf(s)
  BY <1>0, <1>2, <1>4 DEF UploadOf
<1>7. StagingOf(t) => StagingOf(s)
  BY <1>0, <1>2, <1>4 DEF StagingOf
<1>8. ObjectOf(t) => ObjectOf(s)
  BY <1>0, <1>1, <1>4 DEF ObjectOf
<1>9. Passes(t, s)
  BY <1>0, <1>4, <1>6, <1>7, <1>8 DEF Passes, Outstanding, Progress
<1> QED
  BY <1>0, <1>3, <1>5, <1>9, PutTraces

\* Neither the supervision nor a death loses track of anything.
LEMMA CleanupTraces ==
    ASSUME IInv, TInv, NEW p \in Puts,
           \/ CancelCleanup(p) \/ Tick(p) \/ CleanedUp(p) \/ CleanupFails(p)
           \/ GraceOver(p) \/ Die(p)
    PROVE  TInv'
<1> DEFINE t == put[p]
<1>0. t \in Put /\ Progress(t) /\ TypeOK
  BY DEF IInv, TypeOK, TInv, Traces
<1> USE PutFields
<1>1. ASSUME NEW s, Moves(p, s, "none"),
             s.pc = t.pc, s.upload_id = t.upload_id, s.completed = t.completed,
             s.primary = t.primary, s.lost = t.lost, s.reply = t.reply,
             s.outcome = t.outcome
      PROVE  TInv'
  <2>1. Progress(s) /\ Asks(s, "none")
    BY <1>0, <1>1 DEF Progress, Asks
  <2>2. Passes(t, s)
    BY <1>1 DEF Passes, Outstanding, UploadOf, StagingOf, ObjectOf
  <2> QED
    BY <1>0, <1>1, <2>1, <2>2, PutTraces
<1>2. CASE CancelCleanup(p)
  <2> DEFINE s == [t EXCEPT !.cancelled = "yes"]
  <2>1. Moves(p, s, "none")
    BY <1>2 DEF Moves, CancelCleanup
  <2>2. /\ s.pc = t.pc /\ s.upload_id = t.upload_id /\ s.completed = t.completed
        /\ s.primary = t.primary /\ s.lost = t.lost /\ s.reply = t.reply
        /\ s.outcome = t.outcome
    BY <1>0 DEF Put
  <2> QED
    BY <1>1, <2>1, <2>2
<1>3. CASE Tick(p)
  <2> DEFINE s == [t EXCEPT !.grace = t.grace - 1]
  <2>1. Moves(p, s, "none")
    BY <1>3 DEF Moves, Tick
  <2>2. /\ s.pc = t.pc /\ s.upload_id = t.upload_id /\ s.completed = t.completed
        /\ s.primary = t.primary /\ s.lost = t.lost /\ s.reply = t.reply
        /\ s.outcome = t.outcome
    BY <1>0 DEF Put
  <2> QED
    BY <1>1, <2>1, <2>2
<1>4. CASE CleanedUp(p) \/ CleanupFails(p) \/ GraceOver(p)
  <2>1. put[p].pc = "cleanup"
    BY <1>4 DEF CleanedUp, CleanupFails, GraceOver, End
  <2>2. {Awaited(p)} \in SUBSET Op
    BY <2>1 DEF Awaited, Op
  <2> QED
    BY <1>4, <2>2, EndTraces DEF CleanedUp, CleanupFails, GraceOver
<1>5. CASE Die(p)
  <2> DEFINE s == [t EXCEPT !.pc = "ended", !.outcome = "died"]
  <2>1. Moves(p, s, "none") /\ t.pc # "idle" /\ t.pc # "ended"
    BY <1>5 DEF Moves, Die
  <2>2. /\ s.pc = "ended" /\ s.upload_id = t.upload_id
        /\ s.completed = t.completed /\ s.outcome = "died"
        /\ s.lost = t.lost /\ s.reply = t.reply
    BY <1>0 DEF Put
  <2> HIDE DEF s
  <2>3. Progress(s) /\ Asks(s, "none")
    BY <1>0, <2>2 DEF Progress, Asks
  <2>4. Passes(t, s)
    BY <1>0, <2>1, <2>2
       DEF Passes, Outstanding, UploadOf, StagingOf, ObjectOf, Done
  <2> QED
    BY <1>0, <2>1, <2>3, <2>4, PutTraces
<1> QED
  BY <1>2, <1>3, <1>4, <1>5

\* What an awaited operation is.
LEMMA AwaitedIs ==
    ASSUME NEW p \in Puts, put[p] \in Put
    PROVE  /\ put[p].pc \in {"create", "complete", "copy"} => Awaited(p) = put[p].pc
           /\ \A op \in {"create", "complete", "copy"} :
                 Awaited(p) = op => put[p].pc = op
           /\ put[p].pc = "cleanup" =>
                 Awaited(p) = IF put[p].completed = "yes" THEN "delete" ELSE "abort"
           /\ Awaited(p) = "abort" => put[p].pc = "cleanup" /\ put[p].completed = "no"
           /\ Awaited(p) = "delete" => put[p].pc = "cleanup" /\ put[p].completed = "yes"
  BY PutFields DEF Awaited

\* An answer changes what is there of its own put only: s is that put after it.
LEMMA AnswerTraces ==
    ASSUME TypeOK, TInv, NEW r \in sent, NEW answer \in Answers, Reply(r, answer),
           \A q \in Puts : q # r.by /\ q \in uploads' => q \in uploads,
           \A q \in Puts : q # r.by /\ staging'[q] # None => staging[q] # None,
           \A q \in Puts : q # r.by => \A k \in Keys :
              object'[k] # None /\ object'[k].by = q =>
                 object[k] # None /\ object[k].by = q,
           r.by \in uploads' => UploadOf(put'[r.by]),
           staging'[r.by] # None => StagingOf(put'[r.by]),
           \A k \in Keys :
              object'[k] # None /\ object'[k].by = r.by /\ r.by # None =>
                 ObjectOf(put'[r.by])
    PROVE  TInv'
<1> SUFFICES ASSUME NEW q \in Puts PROVE Traces(q, put[q])'
  BY DEF TInv
<1>1. /\ r.by \in Puts /\ r.op \in Op /\ sent' = sent \ {r}
      /\ put[q] \in Put /\ put'[q] \in Put
      /\ put'[q].pc = put[q].pc /\ put'[q].primary = put[q].primary
      /\ put'[q].outcome = put[q].outcome
      /\ put'[q].upload_id = put[q].upload_id
      /\ put'[q].completed = put[q].completed
      /\ put'[q].lost = put[q].lost
      /\ \/ put'[q].reply = put[q].reply
         \/ q = r.by /\ Awaited(q) = r.op
  BY ReplyFields DEF TypeOK
<1>2. Traces(q, put[q])
  BY DEF TInv
<1>3. Progress(put'[q])
  BY <1>1, <1>2 DEF Traces, Progress
<1>4. \A x \in sent' : x.by = q /\ x.op \in {"create", "complete", "copy"} =>
         (Outstanding(put[q], x.op) => Outstanding(put'[q], x.op))
  <2> SUFFICES ASSUME NEW x \in sent', x.by = q,
                      x.op \in {"create", "complete", "copy"},
                      Outstanding(put[q], x.op)
               PROVE  Outstanding(put'[q], x.op)
    OBVIOUS
  <2>1. CASE put'[q].reply = put[q].reply
    BY <1>1, <2>1 DEF Outstanding
  <2>2. CASE q = r.by /\ Awaited(q) = r.op
    <3>1. x.op # r.op
      BY <1>1, <2>2 DEF TypeOK
    <3>2. put[q].pc # x.op
      BY <1>1, <2>2, <3>1, AwaitedIs
    <3> QED
      BY <1>1, <3>2 DEF Outstanding
  <2> QED
    BY <1>1, <2>1, <2>2
<1>5. Requested(q, put[q])'
  BY <1>1, <1>2, <1>4 DEF Traces, Requested
<1>6. CASE q = r.by
  BY <1>3, <1>5, <1>6 DEF Traces
<1>7. CASE q # r.by
  <2>1. put'[q].reply = put[q].reply
    BY <1>1, <1>7
  <2>2. /\ UploadOf(put[q]) => UploadOf(put'[q])
        /\ StagingOf(put[q]) => StagingOf(put'[q])
        /\ ObjectOf(put[q]) => ObjectOf(put'[q])
    BY <1>1, <2>1 DEF UploadOf, StagingOf, ObjectOf
  <2> QED
    BY <1>2, <1>3, <1>5, <1>7, <2>2 DEF Traces
<1> QED
  BY <1>6, <1>7

\* Whatever the bucket does with a request, what it leaves is accounted for.
LEMMA ServeTraces ==
    ASSUME IInv, TInv, NEW r \in sent, Serve(r)
    PROVE  TInv'
<1> DEFINE p == r.by
           t == put[p]
<1> USE DEF Answers
<1>0. /\ TypeOK /\ p \in Puts /\ t \in Put /\ r.op \in Op
      /\ Traces(p, t) /\ Progress(t) /\ Requested(p, t)
  BY DEF IInv, TypeOK, TInv, Traces
<1>1. /\ t.pc \in {"create", "complete", "copy"} => Awaited(p) = t.pc
      /\ \A op \in {"create", "complete", "copy"} : Awaited(p) = op => t.pc = op
      /\ t.pc = "cleanup" =>
            Awaited(p) = IF t.completed = "yes" THEN "delete" ELSE "abort"
      /\ Awaited(p) = "abort" => t.pc = "cleanup" /\ t.completed = "no"
      /\ Awaited(p) = "delete" => t.pc = "cleanup" /\ t.completed = "yes"
  BY <1>0, AwaitedIs
<1>2. /\ r.op = "create" => t.upload_id = "none" /\ Outstanding(t, "create")
      /\ r.op = "complete" => t.completed = "no" /\ Outstanding(t, "complete")
      /\ r.op = "copy" => Outstanding(t, "copy")
  BY <1>0 DEF Requested
<1>3. /\ p \in uploads => UploadOf(t)
      /\ staging[p] # None => StagingOf(t)
      /\ \A k \in Keys : object[k] # None /\ object[k].by = p /\ p # None => ObjectOf(t)
  BY <1>0 DEF Traces
<1>4. /\ t.pc \in {"idle", "create", "stream", "complete", "head", "copy",
                   "cleanup", "ended"}
      /\ t.completed \in {"no", "yes"}
  BY <1>0, PutFields
<1>5. ASSUME NEW answer \in Answers, Reply(r, answer)
      PROVE  /\ put'[p].pc = t.pc /\ put'[p].primary = t.primary
             /\ put'[p].outcome = t.outcome /\ put'[p].upload_id = t.upload_id
             /\ put'[p].completed = t.completed /\ put'[p].lost = t.lost
             /\ IF Awaited(p) = r.op THEN put'[p].reply = answer
                                     ELSE put'[p].reply = t.reply
  <2>1. CASE Awaited(p) = r.op
    <3> DEFINE s == [t EXCEPT !.reply = answer]
    <3>1. put' = [put EXCEPT ![p] = s]
      BY <1>5, <2>1 DEF Reply
    <3>2. /\ s.pc = t.pc /\ s.primary = t.primary /\ s.outcome = t.outcome
          /\ s.upload_id = t.upload_id /\ s.completed = t.completed
          /\ s.lost = t.lost /\ s.reply = answer
      BY <1>0 DEF Put
    <3> HIDE DEF s
    <3>3. put'[p] = s
      BY <1>0, <3>1 DEF TypeOK
    <3> QED
      BY <2>1, <3>2, <3>3
  <2>2. CASE Awaited(p) # r.op
    BY <1>5, <2>2 DEF Reply
  <2> QED
    BY <2>1, <2>2
\* The objects' accounts do not depend on an answer, except a copy's.
<1>6. ASSUME NEW answer \in Answers, Reply(r, answer), r.op # "copy", ObjectOf(t)
      PROVE  ObjectOf(put'[p])
  BY <1>1, <1>5, <1>6 DEF ObjectOf
<1>7. CASE ServeCreate(r)
  <2>1. /\ r.op = "create" /\ uploads' = uploads \cup {p} /\ Reply(r, "done")
        /\ staging' = staging /\ object' = object
    BY <1>7 DEF ServeCreate
  <2> DEFINE s == put'[p]
  <2>2. UploadOf(s)
    BY <1>0, <1>1, <1>2, <1>4, <1>5, <2>1
       DEF UploadOf, Progress, Outstanding
  <2>3. StagingOf(t) => StagingOf(s)
    BY <1>0, <1>1, <1>2, <1>4, <1>5, <2>1
       DEF StagingOf, Progress, Outstanding
  <2>4. ObjectOf(t) => ObjectOf(s)
    BY <1>6, <2>1
  <2> QED
    BY <1>0, <1>3, <2>1, <2>2, <2>3, <2>4, AnswerTraces
<1>8. CASE ServeComplete(r)
  <2>1. /\ r.op = "complete" /\ uploads' = uploads \ {p} /\ Reply(r, "done")
        /\ staging' = [staging EXCEPT ![p] = t.payload] /\ object' = object
    BY <1>8 DEF ServeComplete, StagingKey
  <2> DEFINE s == put'[p]
  <2>2. StagingOf(s)
    BY <1>0, <1>1, <1>2, <1>4, <1>5, <2>1
       DEF StagingOf, Progress, Outstanding
  <2>3. ObjectOf(t) => ObjectOf(s)
    BY <1>6, <2>1
  <2>4. \A q \in Puts : q # p => staging'[q] = staging[q]
    BY <1>0, <2>1 DEF TypeOK
  <2> QED
    BY <1>0, <1>3, <2>1, <2>2, <2>3, <2>4, AnswerTraces
<1>9. CASE ServeHead(r)
  <2>1. PICK answer \in Answers : Reply(r, answer)
    BY <1>9 DEF ServeHead
  <2>2. r.op = "head" /\ uploads' = uploads /\ staging' = staging /\ object' = object
    BY <1>9 DEF ServeHead, bucket
  <2> DEFINE s == put'[p]
  <2>3. UploadOf(t) => UploadOf(s)
    BY <1>1, <1>5, <2>1, <2>2 DEF UploadOf
  <2>4. StagingOf(t) => StagingOf(s)
    BY <1>1, <1>5, <2>1, <2>2 DEF StagingOf
  <2>5. ObjectOf(t) => ObjectOf(s)
    BY <1>6, <2>1, <2>2
  <2> QED
    BY <1>0, <1>3, <2>1, <2>2, <2>3, <2>4, <2>5, AnswerTraces
<1>10. CASE ServeCopy(r)
  <2>1. /\ r.op = "copy" /\ uploads' = uploads /\ staging' = staging
        /\ Reply(r, "done")
    BY <1>10 DEF ServeCopy
  <2> DEFINE s == put'[p]
             o == [by |-> p, bytes |-> put[p].payload]
  <2>2. \A k \in Keys : object'[k] = IF k = FinalKey(p) THEN o ELSE object[k]
    BY <1>0, <1>10, CopyFacts DEF TypeOK
  <2>3. o.by = p
    OBVIOUS
  <2> HIDE DEF o
  <2>4. UploadOf(t) => UploadOf(s)
    BY <1>1, <1>5, <2>1 DEF UploadOf
  <2>5. StagingOf(t) => StagingOf(s)
    BY <1>1, <1>5, <2>1 DEF StagingOf
  <2>6. ObjectOf(s)
    BY <1>0, <1>1, <1>2, <1>4, <1>5, <2>1
       DEF ObjectOf, Progress, Outstanding, Done
  <2>7. \A q \in Puts : q # p => \A k \in Keys :
           object'[k] # None /\ object'[k].by = q =>
              object[k] # None /\ object[k].by = q
    BY <2>2, <2>3
  <2> QED
    BY <1>0, <1>3, <2>1, <2>4, <2>5, <2>6, <2>7, AnswerTraces
<1>11. CASE ServeAbort(r)
  <2>1. /\ r.op = "abort" /\ uploads' = uploads \ {p} /\ Reply(r, "done")
        /\ staging' = staging /\ object' = object
    BY <1>11 DEF ServeAbort
  <2> DEFINE s == put'[p]
  <2>2. StagingOf(t) => StagingOf(s)
    BY <1>1, <1>4, <1>5, <2>1 DEF StagingOf
  <2>3. ObjectOf(t) => ObjectOf(s)
    BY <1>6, <2>1
  <2> QED
    BY <1>0, <1>3, <2>1, <2>2, <2>3, AnswerTraces
<1>12. CASE ServeDelete(r)
  <2>1. /\ r.op = "delete" /\ uploads' = uploads /\ Reply(r, "done")
        /\ staging' = [staging EXCEPT ![p] = None] /\ object' = object
    BY <1>12 DEF ServeDelete, StagingKey
  <2> DEFINE s == put'[p]
  <2>2. UploadOf(t) => UploadOf(s)
    BY <1>1, <1>4, <1>5, <2>1 DEF UploadOf
  <2>3. ObjectOf(t) => ObjectOf(s)
    BY <1>6, <2>1
  <2>4. /\ staging'[p] = None
        /\ \A q \in Puts : q # p => staging'[q] = staging[q]
    BY <1>0, <2>1 DEF TypeOK
  <2> QED
    BY <1>0, <1>3, <2>1, <2>2, <2>3, <2>4, AnswerTraces
<1>13. CASE Refuse(r)
  <2>1. Reply(r, "error") /\ uploads' = uploads /\ staging' = staging
        /\ object' = object
    BY <1>13 DEF Refuse, bucket
  <2> DEFINE s == put'[p]
  <2>2. UploadOf(t) => UploadOf(s)
    BY <1>0, <1>1, <1>2, <1>4, <1>5, <2>1
       DEF UploadOf, Progress, Outstanding, Op
  <2>3. StagingOf(t) => StagingOf(s)
    BY <1>0, <1>1, <1>2, <1>4, <1>5, <2>1
       DEF StagingOf, Progress, Outstanding, Op
  <2>4. ObjectOf(t) => ObjectOf(s)
    BY <1>0, <1>1, <1>2, <1>4, <1>5, <2>1
       DEF ObjectOf, Progress, Outstanding, Op
  <2> QED
    BY <1>0, <1>3, <2>1, <2>2, <2>3, <2>4, AnswerTraces
<1> QED
  BY <1>7, <1>8, <1>9, <1>10, <1>11, <1>12, <1>13 DEF Serve

\* One step keeps the account of every put.
LEMMA NextTraces == IInv /\ TInv /\ [Next]_vars => TInv'
<1> SUFFICES ASSUME IInv, TInv, [Next]_vars PROVE TInv'
  OBVIOUS
<1>1. ASSUME NEW p \in Puts, Step(p) PROVE TInv'
  BY <1>1, CallTraces, FailureTraces, CleanupTraces DEF Step
<1>2. ASSUME NEW r \in sent, Serve(r) PROVE TInv'
  BY <1>2, ServeTraces
<1>3. CASE UNCHANGED vars
  BY <1>3 DEF vars, TInv, Traces, Requested
<1> QED
  BY <1>1, <1>2, <1>3 DEF Next

-----------------------------------------------------------------------------
(* The theorems. *)

\* Doing nothing changes nothing.
LEMMA StutterStep == IInv /\ UNCHANGED vars => IInv'
  BY DEF vars, IInv, TypeOK, PutsLocal, Local, PublishedAs, SentStarted, CopyOnce,
         StagedIsOwn, FinalIsItsHash, FinalKey

\* One step of a put or of the bucket keeps the invariant.
LEMMA NextIInv == IInv /\ [Next]_vars => IInv'
<1> SUFFICES ASSUME IInv, [Next]_vars PROVE IInv'
  OBVIOUS
<1>1. ASSUME NEW p \in Puts, Step(p) PROVE IInv'
  BY <1>1, CallStep, FailureStep, CleanupStep DEF Step
<1>2. ASSUME NEW r \in sent, Serve(r) PROVE IInv'
  BY <1>2, ServeStep
<1>3. CASE UNCHANGED vars
  BY <1>3, StutterStep
<1> QED
  BY <1>1, <1>2, <1>3 DEF Next

\* The inductive invariant holds in every state.
THEOREM PutInvariance == Spec => []IInv
  BY InitIInv, NextIInv, PTL DEF Spec

\* Every variable keeps its type.
THEOREM PutTypeCorrect == Spec => []TypeOK
  BY PutInvariance, PTL DEF IInv

\* A final object holds the bytes its key was computed from, however many
\* attempts stage, complete and copy at the same time.
THEOREM FinalObjectsAreTheirHash == Spec => []FinalIsItsHash
  BY PutInvariance, PTL DEF IInv

\* What a put reports as stored is published under its own key.
THEOREM StoredObjectsArePublished == Spec => []StoredIsPublished
<1>1. IInv => StoredIsPublished
  BY DEF IInv, PutsLocal, Local, PublishedAs, KeyOf, FinalKey, StoredIsPublished
<1> QED
  BY <1>1, PutInvariance, PTL

\* A cancelled put never reports anything but the cancellation.
THEOREM CancellationsPropagate == Spec => []CancellationPropagates
<1>1. IInv => CancellationPropagates
  BY DEF IInv, PutsLocal, Local, CancellationPropagates
<1> QED
  BY <1>1, PutInvariance, PTL

\* No step replaces or removes a final object.
THEOREM FinalObjectsAreImmutable == Spec => ObjectsImmutable
<1> DEFINE Keep == \A k \in Keys : object[k] # None => object'[k] = object[k]
<1>1. IInv /\ [Next]_vars => [Keep]_vars
  <2> SUFFICES ASSUME IInv, Next PROVE Keep
    BY DEF vars
  <2>1. ASSUME NEW p \in Puts, Step(p) PROVE object' = object
    BY <2>1 DEF Step, ConnectFails, Start, Created, Streamed, Completed,
         HeadAbsent, Copied, Call, CallRefused, CallLost, StreamFails,
         SourceFails, HeadPresent, Cancel, Unwind, CancelCleanup, Tick,
         CleanedUp, CleanupFails, GraceOver, End, Die, bucket
  <2>2. ASSUME NEW r \in sent, Serve(r) PROVE Keep
    <3>1. CASE ServeCopy(r)
      BY <3>1, CopyFacts DEF IInv, TypeOK
    <3>2. CASE ~ServeCopy(r)
      BY <2>2, <3>2 DEF Serve, ServeCreate, ServeComplete, ServeHead,
           ServeAbort, ServeDelete, Refuse, bucket
    <3> QED
      BY <3>1, <3>2
  <2> QED
    BY <2>1, <2>2 DEF Next
<1> QED
  BY <1>1, PutInvariance, PTL DEF Spec, ObjectsImmutable

\* Once a put is cancelled and cleaning up, no step takes it back to the
\* transfer, clears the cancellation or gives the cleanup more time.
THEOREM CleanupsAreBounded == Spec => CleanupIsBounded
<1> DEFINE Bounded(p) ==
       put[p].pc = "cleanup" /\ put[p].cancelled = "yes" =>
          \/ put'[p].pc = "ended"
          \/ /\ put'[p].pc = "cleanup" /\ put'[p].cancelled = "yes"
             /\ put'[p].grace <= put[p].grace
<1>1. ASSUME IInv, [Next]_vars, NEW p \in Puts PROVE Bounded(p)
  <2>0. /\ put \in [Puts -> Put] /\ put[p] \in Put
        /\ put[p].grace \in 0 .. GraceTicks
    BY <1>1, PutFields DEF IInv, TypeOK
  <2>1. ASSUME put'[p] = put[p] PROVE Bounded(p)
    BY <2>0, <2>1
  <2>2. ASSUME NEW q \in Puts, q # p, Step(q) PROVE put'[p] = put[p]
    BY <2>0, <2>2 DEF Step, ConnectFails, Start, Created, Streamed, Completed,
         HeadAbsent, Copied, Call, CallRefused, CallLost, StreamFails,
         SourceFails, HeadPresent, Cancel, Unwind, CancelCleanup, Tick,
         CleanedUp, CleanupFails, GraceOver, End, Die
  <2>3. ASSUME Step(p) PROVE Bounded(p)
    <3>1. CASE CancelCleanup(p)
      BY <2>0, <3>1 DEF CancelCleanup, Put
    <3>2. CASE Tick(p)
      BY <2>0, <3>2 DEF Tick, Put
    <3>3. CASE CleanedUp(p) \/ CleanupFails(p) \/ GraceOver(p) \/ Die(p)
      <4>1. ASSUME NEW outcome, NEW lost, End(p, outcome, lost)
            PROVE  put'[p].pc = "ended"
        BY <2>0, <4>1 DEF End, Put
      <4>2. ASSUME Die(p) PROVE put'[p].pc = "ended"
        BY <2>0, <4>2 DEF Die, Put
      <4> QED
        BY <3>3, <4>1, <4>2 DEF CleanedUp, CleanupFails, GraceOver
    <3>4. CASE ~(CancelCleanup(p) \/ Tick(p) \/ CleanedUp(p) \/ CleanupFails(p)
                 \/ GraceOver(p) \/ Die(p))
      BY <2>3, <3>4 DEF Step, ConnectFails, Start, Created, Streamed, Completed,
           HeadAbsent, Copied, Call, CallRefused, CallLost, StreamFails,
           SourceFails, HeadPresent, Cancel
    <3> QED
      BY <3>1, <3>2, <3>3, <3>4
  <2>4. ASSUME NEW r \in sent, Serve(r) PROVE Bounded(p)
    <3>1. put' = put \/ \E answer : put' = [put EXCEPT ![r.by] = [@ EXCEPT !.reply = answer]]
      BY <2>4 DEF Serve, ServeCreate, ServeComplete, ServeHead, ServeCopy,
           ServeAbort, ServeDelete, Refuse, Reply
    <3>2. /\ put'[p].pc = put[p].pc /\ put'[p].cancelled = put[p].cancelled
          /\ put'[p].grace = put[p].grace
      <4>1. CASE put' = put
        BY <4>1
      <4>2. ASSUME NEW answer, put' = [put EXCEPT ![r.by] = [@ EXCEPT !.reply = answer]]
            PROVE  /\ put'[p].pc = put[p].pc
                   /\ put'[p].cancelled = put[p].cancelled
                   /\ put'[p].grace = put[p].grace
        BY <2>0, <4>2 DEF Put
      <4> QED
        BY <3>1, <4>1, <4>2
    <3> QED
      BY <2>0, <3>2
  <2> QED
    BY <1>1, <2>1, <2>2, <2>3, <2>4 DEF Next, vars
<1>2. IInv /\ [Next]_vars => [\A p \in Puts : Bounded(p)]_vars
  BY <1>1
<1> HIDE DEF Bounded
<1> QED
  BY <1>2, PutInvariance, PTL DEF Spec, CleanupIsBounded, Bounded

\* What every put accounts for holds in every state.
THEOREM TracesKept == Spec => [](IInv /\ TInv)
<1>1. Init => IInv /\ TInv
  BY InitIInv, InitTraces
<1>2. IInv /\ TInv /\ [Next]_vars => (IInv /\ TInv)'
  BY NextIInv, NextTraces
<1> QED
  BY <1>1, <1>2, PTL DEF Spec

\* An upload or a staging object outlives its put only if the put died, never
\* heard the answer that made it, or lost the request that would have removed
\* it: no interleaving of late requests, cancellations and deadlines leaves one
\* behind a cleanup that succeeded.
THEOREM ResiduesAreExplained == Spec => []ResidueIsExplained
<1>1. IInv /\ TInv => ResidueIsExplained
  BY DEF TInv, Traces, UploadOf, StagingOf, ResidueIsExplained, StagingKey
<1> QED
  BY <1>1, TracesKept, PTL

\* A put that reports a failure has published nothing, unless it was cancelled,
\* died or never heard the answer to its copy.
THEOREM OrphansAreExplained == Spec => []OrphanIsExplained
<1>1. ASSUME IInv, TInv, NEW k \in Keys, object[k] # None, object[k].by # None
      PROVE  put[object[k].by].pc = "ended" =>
                \/ put[object[k].by].outcome \in {"stored", "cancelled", "died"}
                \/ "copy" \in put[object[k].by].lost
  <2> DEFINE p == object[k].by
  <2>1. p \in Puts
    BY <1>1 DEF IInv, TypeOK, Object
  <2>2. ObjectOf(put[p])
    BY <1>1, <2>1 DEF TInv, Traces
  <2> QED
    BY <2>2 DEF ObjectOf, Done
<1>2. IInv /\ TInv => OrphanIsExplained
  BY <1>1 DEF OrphanIsExplained
<1> QED
  BY <1>2, TracesKept, PTL
=============================================================================
