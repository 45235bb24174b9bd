--------------------------- MODULE TaskCreateProof ----------------------------
(***************************************************************************)
(* What holds of TaskCreate for any keys, values and number of faults: one *)
(* wish makes one task, its record outlives a crash, another account's     *)
(* record outlives both, a request is its record's, and the whole is the   *)
(* TaskSet that it should be.                                              *)
(***************************************************************************)
EXTENDS TaskCreate, FiniteSetTheorems, TLAPS

USE TaskAssumption

-----------------------------------------------------------------------------
(* The inductive invariant. *)

\* A create is on the phone.
Rec(k) == disk[k] # None

\* No request carries the key and no task was made under it.
Fresh(k) == task[k] = None /\ \A q \in req : q.key # k

\* The disk is read and written by one operation at a time, each for what asked
\* for it; a sign-out clears what it found, or what was given up.
OpInv(o) ==
    /\ o.copy # None => o.copy = disk
    /\ o.op = "put" => /\ o.key \in Keys /\ o.for = "send"
                       /\ app.send[o.key].pc = "putting" /\ o.val = app.send[o.key].val
    /\ o.op = "remove" => /\ o.key \in Keys /\ o.for \in {"send", "check", "discard"}
                          /\ o.for = "send" => app.send[o.key].pc = "forgetting"
    /\ o.op \in {"clear", "hydrate"} => o.for = "none"
    /\ o.for = "check" => o.key \in known

\* Nothing that a sign-out would clear is on the disk, or will be before it.
ClearsNothing(n) ==
    /\ \A k \in Keys : ~Rec(k)
    /\ \A i \in 1 .. n - 1 : queue[i].op # "put"

\* Only the operation whose turn it is holds a copy, and a send waits for one.
QueueInv ==
    /\ \A i \in 1 .. Len(queue) :
          /\ OpInv(queue[i])
          /\ queue[i].copy # None => i = 1
          /\ queue[i].op = "clear" => givenUp \/ ClearsNothing(i)
    /\ \A i, j \in 1 .. Len(queue) : queue[i].for = "send" /\ queue[j].for = "send" => i = j

\* The phone's memory is what is on its disk, once it has been read.
MemoryInv ==
    /\ disk[Foreign] # None
    /\ hydrated => memory = disk
    /\ ~hydrated => \A k \in Keys : memory[k] = None

\* What the author began and no session has interrupted, the author waits for.
SessionInv ==
    /\ screen.open => user = Author
    /\ ~screen.open => screen = NoScreen
    /\ \A k \in Keys : Running(k) /\ ~app.send[k].stale => user = Author
    /\ \A q \in req : q.by = Author

\* A send has one request that it awaits, and knows what its answer means.
SendInv ==
    /\ \A k \in Keys :
          LET s == app.send[k] IN
          /\ s.pc # "idle" => s.val \in Values
          /\ s.reply # "none" => s.pc \in {"posted", "forgetting"}
          /\ s.pc = "forgetting" =>
                CASE s.reply = "created" -> k \in known
                  [] s.reply = "refused_ahead" -> overtaken
                  [] s.reply = "refused" -> TRUE
                  [] OTHER -> FALSE
          /\ s.reply = "refused" => Fresh(k) \/ givenUp
    /\ \A q \in req : q.awaited =>
          app.send[q.key].pc = "posted" /\ app.send[q.key].reply = "none"
    /\ \A q, r \in req : q.awaited /\ r.awaited /\ q.key = r.key => q = r

\* A create in doubt is on the disk: one at a time, the only one there is.
KeptInv ==
    /\ \A j, k \in Keys : (Rec(j) \/ Running(j)) /\ (Rec(k) \/ Running(k)) => j = k
    /\ \A k \in Keys \ known : ~Fresh(k) => Rec(k) \/ givenUp \/ overtaken
    /\ \A j, k \in Keys :
          /\ Rec(j) \/ Running(j) \/ ~Fresh(j)
          /\ Rec(k) \/ Running(k) \/ ~Fresh(k)
          => j = k \/ givenUp \/ overtaken

\* Everything under one key is one create.
Agrees(k, v) ==
    /\ \A q \in req : q.key = k => q.val = v
    /\ task[k] \in {None, v} /\ disk[k] \in {None, v}
    /\ Running(k) => app.send[k].val = v

\* Until the user gives a record up, each key has one value.
ValueInv == givenUp \/ \A k \in Keys : \E v \in Values : Agrees(k, v)

\* The form keeps a key only while nothing was created under it, or its record is
\* there; and whoever watches a send is not asking about it.
FormInv ==
    /\ \A k \in Keys : screen.key = k =>
          /\ Running(k) => screen.saving \/ (screen.phase = "sending" /\ screen.panel = k)
          /\ Rec(k) \/ givenUp \/ known # {} \/
                (Fresh(k) /\ app.check[k].pc \notin {"joining", "asking"})
    /\ \A k \in Keys :
          screen.panel = k /\ screen.phase \in {"not_found", "sending"} =>
              app.check[k].pc \notin {"joining", "asking"}

\* The inductive invariant: the task is one because a create in doubt is on the
\* disk, it is on the disk because the queue, the sends and the form agree on it.
IInv ==
    /\ TypeOK /\ QueueInv /\ MemoryInv /\ SessionInv /\ SendInv /\ KeptInv
    /\ ValueInv /\ FormInv /\ OneConversation

-----------------------------------------------------------------------------
(* The app's state, and what the operators make of it. *)

\* The app's state, and the ranges of what it holds.
App == [send : [Keys -> Sending], check : [Keys -> Checking], screen : Screen]

SendPc == {"idle", "putting", "posted", "forgetting"}
CheckPc == {"idle", "joining", "asking", "forgetting"}
Phase == {"none", "checking", "not_found", "unknown", "sending"}

\* A record that differs from a in what the send under k holds, and in nothing else.
SendChange(x, a, k, s) ==
    /\ x \in App /\ x.check = a.check /\ x.screen = a.screen
    /\ x.send[k] = s /\ \A j \in Keys \ {k} : x.send[j] = a.send[j]

\* What a state of the app is made of, key by key.
LEMMA Parts ==
    ASSUME NEW a \in App, NEW k \in Keys
    PROVE  /\ a.send \in [Keys -> Sending] /\ a.check \in [Keys -> Checking] /\ a.screen \in Screen
           /\ a.send[k] \in Sending /\ a.check[k] \in Checking
           /\ a.send[k].pc \in SendPc /\ a.send[k].val \in Values \cup {None}
           /\ a.send[k].reply \in Reply /\ a.send[k].stale \in BOOLEAN
           /\ a.check[k].pc \in CheckPc /\ a.check[k].here \in BOOLEAN /\ a.check[k].stale \in BOOLEAN
           /\ a.screen.open \in BOOLEAN /\ a.screen.key \in Keys \cup {None}
           /\ a.screen.saving \in BOOLEAN /\ a.screen.panel \in Keys \cup {None}
           /\ a.screen.phase \in Phase
BY DEF App, Sending, Checking, Screen, SendPc, CheckPc, Phase

\* The same of its screen.
LEMMA ScreenParts ==
    ASSUME NEW a \in App
    PROVE  /\ a.screen \in Screen /\ a.screen.key \in Keys \cup {None}
           /\ a.screen.panel \in Keys \cup {None} /\ a.screen.phase \in Phase
BY DEF App, Screen, Phase

\* The idle send and question, the closed screen, the app as it starts.
LEMMA Nulls ==
    /\ NoSend \in Sending /\ NoCheck \in Checking /\ NoScreen \in Screen /\ Started \in App
    /\ NoSend.pc = "idle" /\ NoSend.reply = "none" /\ ~NoSend.stale
    /\ NoCheck.pc = "idle" /\ ~NoCheck.here /\ ~NoScreen.open /\ ~NoScreen.saving
    /\ NoScreen.key = None /\ NoScreen.panel = None /\ NoScreen.phase = "none"
BY DEF NoSend, Sending, Reply, NoCheck, Checking, NoScreen, Screen, Started, App

\* Setting what is known of one send changes nothing else.
LEMMA SendSet ==
    ASSUME NEW a \in App, NEW k \in Keys, NEW s \in Sending
    PROVE  SendChange([a EXCEPT !.send[k] = s], a, k, s)
<1> DEFINE x == [a EXCEPT !.send[k] = s]
<1>1. a.send \in [Keys -> Sending]
  BY Parts
<1>2. x.send = [a.send EXCEPT ![k] = s] /\ x.check = a.check /\ x.screen = a.screen
  BY DEF App
<1>3. x \in App
  BY <1>1 DEF App
<1> QED BY <1>1, <1>2, <1>3 DEF SendChange

\* Setting how far one send is changes nothing else.
LEMMA PcSet ==
    ASSUME NEW a \in App, NEW k \in Keys, NEW pc \in SendPc
    PROVE  SendChange([a EXCEPT !.send[k].pc = pc], a, k, [a.send[k] EXCEPT !.pc = pc])
<1> DEFINE s == [a.send[k] EXCEPT !.pc = pc]
<1>1. s \in Sending
  BY Parts DEF Sending, SendPc
<1>2. [a EXCEPT !.send[k].pc = pc] = [a EXCEPT !.send[k] = s]
  OBVIOUS
<1> HIDE DEF s
<1>3. SendChange([a EXCEPT !.send[k] = s], a, k, s)
  BY <1>1, SendSet
<1> QED BY <1>2, <1>3 DEF s

\* Setting the reply of one send changes nothing else.
LEMMA ReplySet ==
    ASSUME NEW a \in App, NEW k \in Keys, NEW reply \in Reply
    PROVE  SendChange([a EXCEPT !.send[k].reply = reply], a, k, [a.send[k] EXCEPT !.reply = reply])
<1> DEFINE s == [a.send[k] EXCEPT !.reply = reply]
<1>1. s \in Sending
  BY Parts DEF Sending
<1>2. [a EXCEPT !.send[k].reply = reply] = [a EXCEPT !.send[k] = s]
  OBVIOUS
<1> HIDE DEF s
<1>3. SendChange([a EXCEPT !.send[k] = s], a, k, s)
  BY <1>1, SendSet
<1> QED BY <1>2, <1>3 DEF s

\* What a send begins as.
New(v) == [NoSend EXCEPT !.pc = "putting", !.val = v]

\* A send that begins waits for its record.
LEMMA NewIs ==
    ASSUME NEW v \in Values
    PROVE  /\ New(v) \in Sending /\ New(v).pc = "putting" /\ New(v).val = v
           /\ New(v).reply = "none" /\ ~New(v).stale
BY Nulls DEF New, Sending

\* Begin changes the send under its key, and nothing else.
LEMMA BeginIs ==
    ASSUME NEW a \in App, NEW k \in Keys, NEW v \in Values
    PROVE  SendChange(Begin(a, k, v), a, k, New(v))
BY NewIs, SendSet DEF Begin, New

\* Setting the screen changes nothing else.
LEMMA ScreenSet ==
    ASSUME NEW a \in App, NEW s \in Screen
    PROVE  LET x == [a EXCEPT !.screen = s]
           IN  x \in App /\ x.send = a.send /\ x.check = a.check /\ x.screen = s
BY DEF App

\* Setting one question changes nothing else.
LEMMA CheckSet ==
    ASSUME NEW a \in App, NEW k \in Keys, NEW c \in Checking
    PROVE  LET x == [a EXCEPT !.check[k] = c]
           IN  /\ x \in App /\ x.send = a.send /\ x.screen = a.screen
               /\ x.check = [a.check EXCEPT ![k] = c]
BY Parts DEF App

\* There is no panel to close on a closed screen.
LEMMA NoPanel == [NoScreen EXCEPT !.panel = None, !.phase = "none"] = NoScreen
<1>1. ASSUME NEW s \in Screen, s.panel = None, s.phase = "none"
      PROVE  [s EXCEPT !.panel = None, !.phase = "none"] = s
  BY <1>1 DEF Screen
<1> QED BY <1>1, Nulls

\* Shown closes the panel of a record that is not pending, and nothing else.
LEMMA ShownIs ==
    ASSUME NEW a \in App, NEW list
    PROVE  LET x == Shown(a, list)
           IN  /\ x \in App /\ x.send = a.send /\ x.check = a.check
               /\ \/ x = a
                  \/ /\ x.screen = [a.screen EXCEPT !.panel = None, !.phase = "none"]
                     /\ a.screen.panel \notin PendingIn(a, list)
<1>1. CASE a.screen.panel \in PendingIn(a, list)
  BY <1>1 DEF Shown
<1>2. CASE a.screen.panel \notin PendingIn(a, list)
  <2> DEFINE s == [a.screen EXCEPT !.panel = None, !.phase = "none"]
  <2>1. s \in Screen
    BY DEF App, Screen
  <2>2. Shown(a, list) = [a EXCEPT !.screen = s]
    BY <1>2 DEF Shown, App
  <2> QED BY <1>2, <2>1, <2>2, ScreenSet
<1> QED BY <1>1, <1>2

\* How a send may end.
Ending == {"created", "refused", "not_saved", "unknown"}

\* A screen after something it may have waited for: gone, or the same, with no
\* more keys or panels than before.
Settles(x, s) ==
    \/ x = NoScreen
    \/ /\ s.open /\ x \in Screen /\ x.open /\ x.key \in {None, s.key} /\ x.panel \in {None, s.panel}
       /\ x.panel # None /\ x.phase \in {"not_found", "sending"} =>
              s.phase \in {"not_found", "sending"}

\* The screen, once the panel of a record that is gone is closed.
Closed(s) == [s EXCEPT !.panel = None, !.phase = "none"]

\* Closing the panel leaves the form.
LEMMA ClosedIs ==
    ASSUME NEW s \in Screen
    PROVE  /\ Closed(s) \in Screen /\ Closed(s).open = s.open /\ Closed(s).key = s.key
           /\ Closed(s).saving = s.saving /\ Closed(s).panel = None /\ Closed(s).phase = "none"
           /\ Closed(NoScreen) = NoScreen
BY NoPanel DEF Closed, Screen

\* A screen that settled has still settled once its panel is closed.
LEMMA ClosedSettles ==
    ASSUME NEW s \in Screen, NEW x \in Screen, Settles(x, s)
    PROVE  Settles(Closed(x), s)
BY ClosedIs DEF Settles

\* The screen after a send: settled, and without its key if the answer was definite.
LEMMA AfterSendIs ==
    ASSUME NEW a \in App, a.screen.open \/ a.screen = NoScreen,
           NEW k \in Keys, NEW outcome \in Ending
    PROVE  LET x == AfterSend(a, k, outcome)
           IN  /\ x \in Screen /\ Settles(x, a.screen)
               /\ outcome \in {"created", "refused"} /\ a.screen.open /\ Watching(a, k) =>
                      x.key = None
<1> DEFINE s == a.screen
           after(phase) ==
              [s EXCEPT !.saving = IF s.key = k THEN FALSE ELSE s.saving,
                        !.phase = IF s.phase = "sending" /\ s.panel = k
                                  THEN phase ELSE s.phase]
<1>0. /\ s \in Screen /\ s.open \in BOOLEAN /\ s.key \in Keys \cup {None} /\ s.saving \in BOOLEAN
      /\ s.panel \in Keys \cup {None} /\ s.phase \in Phase
  BY Parts
<1>1. CASE ~s.open \/ ~Watching(a, k)
  BY <1>0, <1>1 DEF AfterSend, Settles
<1>2. CASE s.open /\ Watching(a, k) /\ outcome = "created"
  BY <1>2, Nulls DEF AfterSend, Settles
<1>3. CASE s.open /\ Watching(a, k) /\ outcome = "refused"
  <2>1. AfterSend(a, k, outcome) = RefusedForm(s)
    BY <1>3 DEF AfterSend
  <2> HIDE DEF s
  <2>2. RefusedForm(s) \in Screen
    BY <1>0 DEF RefusedForm, Screen
  <2>3. RefusedForm(s).open = s.open /\ RefusedForm(s).key = None /\ RefusedForm(s).panel = None
    BY <1>0 DEF RefusedForm, Screen
  <2>4. s.open
    BY <1>3 DEF s
  <2> QED BY <2>1, <2>2, <2>3, <2>4 DEF Settles, s
<1>4. ASSUME NEW phase \in {"not_found", "unknown"}, s.open, AfterSend(a, k, outcome) = after(phase)
      PROVE  LET x == AfterSend(a, k, outcome) IN x \in Screen /\ Settles(x, s)
  <2> HIDE DEF s
  <2>1. after(phase) \in Screen
    BY <1>0 DEF Screen, Phase
  <2>2. /\ after(phase).open = s.open /\ after(phase).key = s.key /\ after(phase).panel = s.panel
        /\ after(phase).phase = s.phase \/ s.phase = "sending"
    BY <1>0 DEF Screen
  <2> QED BY <1>4, <2>1, <2>2 DEF Settles
<1>5. CASE s.open /\ Watching(a, k) /\ outcome = "not_saved"
  BY <1>4, <1>5 DEF AfterSend
<1>6. CASE s.open /\ Watching(a, k) /\ outcome = "unknown"
  BY <1>4, <1>6 DEF AfterSend
<1> QED BY <1>1, <1>2, <1>3, <1>5, <1>6 DEF Ending

\* A question after the send it had joined: concluded, or put to the server.
LEMMA AfterJoinIs ==
    ASSUME NEW c \in Checking, NEW outcome
    PROVE  /\ AfterJoin(c, outcome) \in Checking
           /\ c.pc # "joining" => AfterJoin(c, outcome) = c
           /\ AfterJoin(c, outcome).pc \in {c.pc, "idle", "asking"}
           /\ AfterJoin(c, outcome).pc # "joining"
BY Nulls DEF AfterJoin, Checking

\* What the end of a send makes of the app.
LEMMA EndSendIs ==
    ASSUME NEW a \in App, a.screen.open \/ a.screen = NoScreen,
           NEW k \in Keys, NEW outcome \in Ending, NEW list
    PROVE  LET x == EndSend(a, k, outcome, list)
           IN  /\ x \in App /\ x.send = [a.send EXCEPT ![k] = NoSend]
               /\ x.check = [a.check EXCEPT ![k] = AfterJoin(a.check[k], outcome)]
               /\ Settles(x.screen, a.screen)
               /\ outcome \in {"created", "refused"} /\ a.screen.open /\ Watching(a, k) =>
                      x.screen.key = None
<1> DEFINE s == AfterSend(a, k, outcome)
           y == [send |-> [a.send EXCEPT ![k] = NoSend],
                 check |-> [a.check EXCEPT ![k] = AfterJoin(a.check[k], outcome)],
                 screen |-> s]
           x == EndSend(a, k, outcome, list)
<1>1. s \in Screen /\ Settles(s, a.screen) /\ a.screen \in Screen
  BY AfterSendIs, Parts
<1>2. y \in App
  BY <1>1, Parts, Nulls, AfterJoinIs DEF App
<1>3. x = Shown(y, list)
  BY DEF EndSend
<1>4. x \in App /\ x.send = y.send /\ x.check = y.check /\ x.screen \in {s, Closed(s)}
  <2> HIDE DEF y, x
  <2>1. y.screen = s
    BY DEF y
  <2>2. \/ x = y
        \/ x.screen = [y.screen EXCEPT !.panel = None, !.phase = "none"]
    BY <1>2, <1>3, ShownIs
  <2>3. x \in App /\ x.send = y.send /\ x.check = y.check
    BY <1>2, <1>3, ShownIs
  <2> HIDE DEF s
  <2> QED BY <2>1, <2>2, <2>3 DEF Closed
<1>5. Settles(x.screen, a.screen) /\ x.screen.key = s.key
  <2> HIDE DEF s, y, x
  <2> QED BY <1>1, <1>4, ClosedIs, ClosedSettles
<1> QED BY <1>4, <1>5, AfterSendIs

\* What Shown makes of the screen: nothing, or the panel it has was of no record.
Shows(x, a, list) ==
    \/ x = a.screen
    \/ x = Closed(a.screen) /\ a.screen.panel \notin PendingIn(a, list)

\* What an answered question makes of the app.
LEMMA EndCheckIs ==
    ASSUME NEW a \in App, a.screen.open \/ a.screen = NoScreen, NEW k \in Keys, NEW list
    PROVE  LET x == EndCheck(a, k, list)
           IN  /\ x \in App /\ x.send = a.send /\ x.check = [a.check EXCEPT ![k] = NoCheck]
               /\ x.screen = NoScreen \/ Shows(x.screen, a, list)
<1> DEFINE s == IF a.check[k].here THEN NoScreen ELSE a.screen
           y == [a EXCEPT !.check[k] = NoCheck, !.screen = s]
           x == EndCheck(a, k, list)
<1>1. s \in Screen /\ s \in {NoScreen, a.screen}
  BY Nulls, Parts
<1>2. x = Shown(y, list)
  BY DEF EndCheck
<1> HIDE DEF s
<1>3. y.send = a.send /\ y.check = [a.check EXCEPT ![k] = NoCheck] /\ y.screen = s /\ y \in App
  BY <1>1, Nulls, Parts DEF App
<1>4. PendingIn(y, list) = PendingIn(a, list)
  BY <1>3 DEF PendingIn
<1> HIDE DEF y, x
<1>5. /\ x \in App /\ x.send = y.send /\ x.check = y.check
      /\ x.screen = s \/ (x.screen = Closed(s) /\ s.panel \notin PendingIn(a, list))
  BY <1>2, <1>3, <1>4, ShownIs DEF Closed
<1>6. x.screen = NoScreen \/ Shows(x.screen, a, list)
  BY <1>1, <1>5, ClosedIs, Nulls DEF Shows
<1> QED BY <1>3, <1>5, <1>6 DEF x

\* What leaving the screen makes of the app.
LEMMA LeftIs ==
    ASSUME NEW a \in App
    PROVE  /\ Left(a) \in App /\ Left(a).send = a.send /\ Left(a).screen = NoScreen
           /\ \A k \in Keys : Left(a).check[k].pc = a.check[k].pc
<1> DEFINE c == [k \in Keys |-> [a.check[k] EXCEPT !.here = FALSE]]
<1>1. c \in [Keys -> Checking] /\ \A k \in Keys : c[k].pc = a.check[k].pc
  <2>1. ASSUME NEW k \in Keys
        PROVE  c[k] \in Checking /\ c[k].pc = a.check[k].pc
    <3>1. a.check[k] \in Checking /\ c[k] = [a.check[k] EXCEPT !.here = FALSE]
      BY DEF App
    <3> QED BY <3>1 DEF Checking
  <2> QED BY <2>1
<1> HIDE DEF c
<1>2. [a EXCEPT !.screen = NoScreen, !.check = c] \in App
  BY <1>1, Nulls DEF App
<1>3. Left(a) = [a EXCEPT !.screen = NoScreen, !.check = c]
  BY DEF Left, c
<1> QED BY <1>1, <1>2, <1>3 DEF App

\* The invariant and the types, part by part.
LEMMA Facts ==
    ASSUME IInv
    PROVE  /\ TypeOK /\ app \in App /\ queue \in Seq(Operation) /\ disk \in Records
           /\ memory \in Records /\ req \subseteq Request /\ task \in [Keys -> Values \cup {None}]
           /\ QueueInv /\ MemoryInv /\ SessionInv /\ SendInv /\ KeptInv /\ ValueInv /\ FormInv
           /\ OneConversation
BY DEF IInv, TypeOK, App

-----------------------------------------------------------------------------
(* The queue of disk operations. *)

LEMMA QueueTyped ==
    ASSUME NEW q \in Seq(Operation), NEW i \in 1 .. Len(q)
    PROVE  /\ q[i] \in Operation
           /\ q[i].op \in {"put", "remove", "clear", "hydrate"}
           /\ q[i].key \in Keys \cup {None} /\ q[i].val \in Values \cup {None}
           /\ q[i].for \in {"send", "check", "discard", "none"}
           /\ q[i].copy \in Records \cup {None}
<1>1. q[i] \in Operation
  OBVIOUS
<1> QED BY <1>1 DEF Operation

\* The fields of an operation.
LEMMA OpIs ==
    ASSUME NEW op \in {"put", "remove", "clear", "hydrate"}, NEW k \in Keys \cup {None},
           NEW v \in Values \cup {None}, NEW for \in {"send", "check", "discard", "none"}
    PROVE  LET o == Op(op, k, v, for)
           IN  /\ o \in Operation /\ o.op = op /\ o.key = k /\ o.val = v /\ o.for = for
               /\ o.copy = None
BY DEF Op, Operation

\* What is queued stays good while those it works for wait for it.
LEMMA QueueStays ==
    ASSUME IInv, queue' = queue, disk' = disk,
           \A k \in Keys : app.send[k].pc \in {"putting", "forgetting"} =>
                 app'.send[k].pc = app.send[k].pc /\ app'.send[k].val = app.send[k].val,
           known \subseteq known', givenUp => givenUp'
    PROVE  QueueInv'
<1>1. QueueInv
  BY Facts
<1>2. \A i \in 1 .. Len(queue) : OpInv(queue[i]) => OpInv(queue[i])'
  BY DEF OpInv
<1>3. \A i \in 1 .. Len(queue) : ClearsNothing(i) => ClearsNothing(i)'
  BY DEF ClearsNothing, Rec
<1> QED BY <1>1, <1>2, <1>3 DEF QueueInv

\* An operation that is good when it is queued joins others that stay good.
LEMMA QueueGrows ==
    ASSUME IInv, NEW o \in Operation, queue' = Append(queue, o), disk' = disk,
           \A k \in Keys : app.send[k].pc \in {"putting", "forgetting"} =>
                 app'.send[k].pc = app.send[k].pc /\ app'.send[k].val = app.send[k].val,
           known \subseteq known', givenUp => givenUp',
           o.copy = None, OpInv(o)',
           o.for = "send" => \A k \in Keys : app.send[k].pc \notin {"putting", "forgetting"},
           o.op = "clear" => givenUp' \/ ClearsNothing(Len(queue) + 1)
    PROVE  QueueInv'
<1>0. QueueInv /\ queue \in Seq(Operation)
  BY Facts
<1>1. /\ Len(queue') = Len(queue) + 1 /\ queue'[Len(queue) + 1] = o /\ Len(queue) \in Nat
      /\ \A i \in 1 .. Len(queue) : queue'[i] = queue[i]
  BY <1>0
<1>2. ASSUME NEW i \in 1 .. Len(queue), NEW p, p = queue[i] PROVE OpInv(p)'
  <2>1. OpInv(p)
    BY <1>0, <1>2 DEF QueueInv
  <2> QED BY <2>1 DEF OpInv
<1>3. \A i \in 1 .. Len(queue) + 1 : ClearsNothing(i) => ClearsNothing(i)'
  BY <1>1 DEF ClearsNothing, Rec
<1>4. o.for = "send" => \A i \in 1 .. Len(queue) : queue[i].for # "send"
  <2>1. \A i \in 1 .. Len(queue) : queue[i].op \in {"put", "remove", "clear", "hydrate"}
    BY <1>0, QueueTyped
  <2> QED BY <1>0, <2>1 DEF QueueInv, OpInv
<1>5. ASSUME NEW i \in 1 .. Len(queue')
      PROVE  /\ OpInv(queue[i])'
             /\ queue'[i].copy # None => i = 1
             /\ queue'[i].op = "clear" => givenUp' \/ ClearsNothing(i)'
  <2>1. CASE i = Len(queue) + 1
    <3>1. ClearsNothing(i) => ClearsNothing(i)'
      BY <1>1, <1>3, <2>1
    <3> QED BY <1>1, <2>1, <3>1
  <2>2. CASE i \in 1 .. Len(queue)
    <3>1. /\ queue[i].copy # None => i = 1
          /\ queue[i].op = "clear" => givenUp \/ ClearsNothing(i)
          /\ queue'[i] = queue[i]
      BY <1>0, <1>1, <2>2 DEF QueueInv
    <3>2. OpInv(queue[i])'
      BY <1>2, <2>2, <3>1
    <3>3. ClearsNothing(i) => ClearsNothing(i)'
      BY <1>1, <1>3, <2>2
    <3> QED BY <3>1, <3>2, <3>3
  <2> QED BY <1>1, <2>1, <2>2
<1>6. \A i, j \in 1 .. Len(queue') : queue'[i].for = "send" /\ queue'[j].for = "send" => i = j
  BY <1>0, <1>1, <1>4 DEF QueueInv
<1> QED BY <1>5, <1>6 DEF QueueInv

\* The first operation is done with, whether it was written or not.
LEMMA QueueShrinks ==
    ASSUME IInv, queue # <<>>, queue' = Tail(queue),
           known \subseteq known', givenUp => givenUp',
           Head(queue).for # "send" =>
               \A k \in Keys : app.send[k].pc \in {"putting", "forgetting"} =>
                  app'.send[k].pc = app.send[k].pc /\ app'.send[k].val = app.send[k].val,
           Head(queue).op # "put" => \A k \in Keys : ~Rec(k) => ~Rec(k)'
    PROVE  QueueInv'
<1>0. QueueInv /\ queue \in Seq(Operation)
  BY Facts
<1>1. /\ Len(queue) \in Nat \ {0} /\ Len(queue') = Len(queue) - 1 /\ Head(queue) = queue[1]
      /\ \A i \in 1 .. Len(queue) - 1 : queue'[i] = queue[i + 1]
  BY <1>0
<1>2. \A i \in 2 .. Len(queue) : queue[1].for = "send" => queue[i].for # "send"
  BY <1>0, <1>1 DEF QueueInv
<1>3. ASSUME NEW i \in 2 .. Len(queue), NEW p, p = queue[i] PROVE OpInv(p)'
  <2>1. OpInv(p) /\ p.copy = None
    BY <1>0, <1>3 DEF QueueInv
  <2>2. p.for = "send" => Head(queue).for # "send"
    BY <1>1, <1>2, <1>3
  <2> QED BY <2>1, <2>2 DEF OpInv
<1>4. ASSUME NEW i \in 2 .. Len(queue), queue[i].op = "clear"
      PROVE  givenUp' \/ ClearsNothing(i - 1)'
  <2>1. CASE givenUp
    BY <2>1
  <2>2. CASE ClearsNothing(i)
    <3>1. Head(queue).op # "put" /\ \A k \in Keys : ~Rec(k)
      BY <1>1, <2>2 DEF ClearsNothing
    <3>2. \A n \in 1 .. i - 2 : queue'[n].op # "put"
      BY <1>1, <2>2 DEF ClearsNothing
    <3> QED BY <3>1, <3>2 DEF ClearsNothing
  <2> QED BY <1>0, <1>4, <2>1, <2>2 DEF QueueInv
<1>5. ASSUME NEW i \in 1 .. Len(queue')
      PROVE  /\ OpInv(queue[i])'
             /\ queue'[i].copy # None => i = 1
             /\ queue'[i].op = "clear" => givenUp' \/ ClearsNothing(i)'
  <2>1. queue'[i] = queue[i + 1] /\ i + 1 \in 2 .. Len(queue) /\ (i + 1) - 1 = i
    BY <1>1
  <2>2. queue[i + 1].copy = None
    BY <1>0, <2>1 DEF QueueInv
  <2>3. OpInv(queue[i])'
    BY <1>3, <2>1
  <2> HIDE DEF ClearsNothing
  <2>4. queue[i + 1].op = "clear" => givenUp' \/ ClearsNothing(i)'
    BY <1>4, <2>1
  <2> QED BY <2>1, <2>2, <2>3, <2>4
<1>6. \A i, j \in 1 .. Len(queue') : queue'[i].for = "send" /\ queue'[j].for = "send" => i = j
  BY <1>0, <1>1 DEF QueueInv
<1> QED BY <1>5, <1>6 DEF QueueInv

-----------------------------------------------------------------------------
(* The screen and its panel. *)

LEMMA ScreenWhole ==
    ASSUME IInv
    PROVE  screen.open \/ screen = NoScreen
BY Facts DEF SessionInv

\* A step of the screen or of a question: no send, disk or request is touched.
LEMMA LookKeeps ==
    ASSUME IInv, TypeOK', app'.send = app.send,
           UNCHANGED <<store, user, server, hist>>,
           screen'.open => user = Author, screen'.open \/ screen' = NoScreen,
           FormInv', OneConversation'
    PROVE  IInv'
<1>0. /\ UNCHANGED <<disk, memory, hydrated, queue, user, req, task, known, givenUp, overtaken>>
      /\ \A k \in Keys : app'.send[k] = app.send[k]
  BY DEF store, server, hist
<1>1. QueueInv'
  BY <1>0, QueueStays
<1>2. MemoryInv'
  BY <1>0, Facts DEF MemoryInv
<1>3. SessionInv'
  BY <1>0, Facts DEF SessionInv, Running
<1>4. SendInv'
  BY <1>0, Facts DEF SendInv, Fresh
<1>5. KeptInv'
  BY <1>0, Facts DEF KeptInv, Rec, Running, Fresh
<1>6. ValueInv'
  BY <1>0, Facts DEF ValueInv, Agrees, Running
<1> QED BY <1>1, <1>2, <1>3, <1>4, <1>5, <1>6 DEF IInv

\* OpenScreen: an empty form.
LEMMA OpenScreenKeeps ==
    ASSUME IInv, OpenScreen
    PROVE  IInv'
<1> DEFINE s == [NoScreen EXCEPT !.open = TRUE]
<1>1. s \in Screen /\ s.open /\ s.key = None /\ s.panel = None
  BY Nulls DEF Screen
<1>2. app' = [app EXCEPT !.screen = s] /\ app \in App
  BY Facts DEF OpenScreen, SessionInv, App, screen
<1> HIDE DEF s
<1>3. app' \in App /\ app'.send = app.send /\ app'.check = app.check /\ screen' = s
  BY <1>1, <1>2, ScreenSet DEF screen
<1>4. TypeOK'
  BY <1>3, Facts DEF OpenScreen, TypeOK, App, store, server, rights, hist
<1>5. FormInv'
  BY <1>1, <1>3 DEF FormInv
<1>6. OneConversation'
  BY <1>3, Facts DEF OneConversation, Running, OpenScreen, hist
<1> QED BY <1>1, <1>3, <1>4, <1>5, <1>6, LookKeeps DEF OpenScreen

\* LeaveScreen: sends and questions go on.
LEMMA LeaveScreenKeeps ==
    ASSUME IInv, LeaveScreen
    PROVE  IInv'
<1>1. /\ app' \in App /\ app'.send = app.send /\ screen' = NoScreen
      /\ \A k \in Keys : app'.check[k].pc = app.check[k].pc
  BY Facts, LeftIs DEF LeaveScreen, screen
<1>2. TypeOK'
  BY <1>1, Facts DEF LeaveScreen, TypeOK, App, store, server, rights, hist
<1>3. FormInv'
  BY <1>1, Nulls DEF FormInv
<1>4. OneConversation'
  BY <1>1, Facts DEF OneConversation, Running, LeaveScreen, hist
<1> QED BY <1>1, <1>2, <1>3, <1>4, Nulls, LookKeeps DEF LeaveScreen

\* The author has a panel: it is of the one create in doubt.
LEMMA PanelIs ==
    ASSUME IInv, NEW k \in Keys, Panel(k)
    PROVE  /\ screen.open /\ ~screen.saving /\ user = Author /\ memory = disk
           /\ Rec(k) \/ Running(k)
           /\ \A j \in Keys : Rec(j) \/ Running(j) => j = k
           /\ screen.key \in Keys /\ Running(screen.key) =>
                  screen.phase = "sending" /\ screen.panel = screen.key
BY Facts DEF Panel, SessionInv, MemoryInv, Pending, PendingIn, Rec, Running, KeptInv, FormInv

\* A question is never asked of the server while the create is out.
LEMMA AskKeeps ==
    ASSUME IInv, NEW k \in Keys, Panel(k), Ask(k), screen.panel = k => screen.phase # "sending"
    PROVE  IInv'
<1> DEFINE s == [screen EXCEPT !.panel = k, !.phase = "checking"]
           c == [pc |-> FirstAsk(k), here |-> TRUE, stale |-> FALSE]
<1>0. app \in App /\ screen \in Screen /\ FirstAsk(k) \in {"joining", "asking"}
  BY Facts, Parts DEF screen, FirstAsk
<1>1. /\ s \in Screen /\ s.open = screen.open /\ s.key = screen.key /\ s.saving = screen.saving
      /\ s.panel = k /\ s.phase = "checking"
  BY <1>0 DEF Screen
<1>2. c \in Checking /\ c.pc = FirstAsk(k)
  BY <1>0 DEF Checking
<1>3. app' = [[app EXCEPT !.check[k] = c] EXCEPT !.screen = s]
  BY <1>0 DEF Ask, screen, App
<1> HIDE DEF s, c
<1>4. /\ app' \in App /\ app'.send = app.send /\ screen' = s
      /\ app'.check = [app.check EXCEPT ![k] = c]
  <2> DEFINE y == [app EXCEPT !.check[k] = c]
  <2>1. y \in App /\ y.send = app.send /\ y.check = [app.check EXCEPT ![k] = c]
    BY <1>0, <1>2, CheckSet
  <2>2. app' = [y EXCEPT !.screen = s]
    BY <1>3
  <2> HIDE DEF y
  <2> QED BY <1>1, <2>1, <2>2, ScreenSet DEF screen
<1>5. /\ app'.check[k].pc = FirstAsk(k)
      /\ \A j \in Keys \ {k} : app'.check[j] = app.check[j]
  BY <1>0, <1>2, <1>4, Parts
<1>6. TypeOK'
  BY <1>4, Facts DEF Ask, TypeOK, App, store, server, rights, hist
<1>7. FormInv'
  <2>1. ASSUME NEW j \in Keys, screen'.key = j
        PROVE  /\ ~Running(j)'
               /\ Rec(j)' \/ givenUp' \/ known' # {} \/
                      (Fresh(j)' /\ app'.check[j].pc \notin {"joining", "asking"})
    <3>1. screen.key = j
      BY <1>1, <1>4, <2>1
    <3>2. ~Running(j)
      BY <3>1, PanelIs
    <3>3. Rec(j) \/ givenUp \/ known # {} \/
              (Fresh(j) /\ app.check[j].pc \notin {"joining", "asking"})
      BY <3>1, Facts DEF FormInv
    <3>4. j = k => Rec(j)
      BY <3>2, PanelIs
    <3>5. UNCHANGED <<disk, givenUp, known, req, task>>
      BY DEF Ask, store, server, hist
    <3> QED BY <1>4, <1>5, <3>2, <3>3, <3>4, <3>5 DEF Rec, Fresh, Running
  <2> QED BY <1>1, <1>4, <2>1 DEF FormInv
<1>8. OneConversation'
  <2>1. UNCHANGED givenUp
    BY DEF Ask, hist
  <2>2. FirstAsk(k) = "asking" => ~Running(k)
    BY DEF FirstAsk
  <2> QED BY <1>4, <1>5, <2>1, <2>2, Facts DEF OneConversation, Running
<1> QED BY <1>1, <1>4, <1>6, <1>7, <1>8, PanelIs, LookKeeps DEF Ask

\* PanelMounts asks.
LEMMA PanelMountsKeeps ==
    ASSUME IInv, NEW k \in Keys, PanelMounts(k)
    PROVE  IInv'
BY AskKeeps DEF PanelMounts

\* CheckAgain asks.
LEMMA CheckAgainKeeps ==
    ASSUME IInv, NEW k \in Keys, CheckAgain(k)
    PROVE  IInv'
BY AskKeeps DEF CheckAgain

\* "Not found" is said by a panel that no longer asks.
LEMMA ConcludesKeeps ==
    ASSUME IInv, NEW k \in Keys, NEW phase \in {"not_found", "unknown"}, Concludes(k, phase),
           UNCHANGED <<store, user, leaving, server, rights, hist, faults>>
    PROVE  IInv'
<1> DEFINE told == app.check[k].here /\ screen.panel = k /\ screen.phase = "checking"
           s == [screen EXCEPT !.phase = IF told THEN phase ELSE screen.phase]
<1>0. app \in App /\ screen \in Screen /\ screen.phase \in Phase /\ NoCheck \in Checking
  BY Facts, Parts, Nulls DEF screen
<1>1. /\ s \in Screen /\ s.open = screen.open /\ s.key = screen.key /\ s.saving = screen.saving
      /\ s.panel = screen.panel
      /\ s.phase = screen.phase \/ (screen.panel = k /\ screen.phase = "checking")
  BY <1>0 DEF Screen, Phase
<1>2. app' = [[app EXCEPT !.check[k] = NoCheck] EXCEPT !.screen = s]
  BY <1>0 DEF Concludes, screen, App
<1>3. ~screen.open => s = NoScreen
  <2>1. ASSUME NEW x \in Screen PROVE [x EXCEPT !.phase = x.phase] = x
    BY <2>1 DEF Screen
  <2>2. ~screen.open => ~told
    BY <1>0, ScreenWhole, Nulls
  <2>3. ~screen.open => s = screen
    BY <1>0, <2>1, <2>2
  <2> QED BY <2>3, ScreenWhole
<1> HIDE DEF s
<1>4. /\ app' \in App /\ app'.send = app.send /\ screen' = s
      /\ app'.check = [app.check EXCEPT ![k] = NoCheck]
  <2> DEFINE y == [app EXCEPT !.check[k] = NoCheck]
  <2>1. y \in App /\ y.send = app.send /\ y.check = [app.check EXCEPT ![k] = NoCheck]
    BY <1>0, CheckSet
  <2>2. app' = [y EXCEPT !.screen = s]
    BY <1>2
  <2> HIDE DEF y
  <2> QED BY <1>1, <2>1, <2>2, ScreenSet DEF screen
<1>5. /\ app'.check[k].pc = "idle"
      /\ \A j \in Keys \ {k} : app'.check[j] = app.check[j]
  BY <1>0, <1>4, Parts, Nulls
<1>6. TypeOK'
  BY <1>4, Facts DEF TypeOK, App, store, server, rights, hist
<1>7. UNCHANGED <<disk, givenUp, known, req, task>>
  BY DEF store, server, hist
<1>8. FormInv'
  <2>1. ASSUME NEW j \in Keys, screen'.key = j
        PROVE  /\ Running(j)' => screen'.saving \/ (screen'.phase = "sending" /\ screen'.panel = j)
               /\ Rec(j)' \/ givenUp' \/ known' # {} \/
                      (Fresh(j)' /\ app'.check[j].pc \notin {"joining", "asking"})
    <3>1. screen.key = j
      BY <1>1, <1>4, <2>1
    <3>2. /\ Running(j) => screen.saving \/ (screen.phase = "sending" /\ screen.panel = j)
          /\ Rec(j) \/ givenUp \/ known # {} \/
                (Fresh(j) /\ app.check[j].pc \notin {"joining", "asking"})
      BY <3>1, Facts DEF FormInv
    <3>3. screen'.phase = screen.phase \/ screen.phase = "checking"
      BY <1>1, <1>4
    <3> QED BY <1>1, <1>4, <1>5, <1>7, <3>2, <3>3 DEF Rec, Fresh, Running
  <2>2. ASSUME NEW j \in Keys, screen'.panel = j, screen'.phase \in {"not_found", "sending"}
        PROVE  app'.check[j].pc \notin {"joining", "asking"}
    BY <1>1, <1>4, <1>5, <2>2, Facts DEF FormInv
  <2> QED BY <2>1, <2>2 DEF FormInv
<1>9. OneConversation'
  BY <1>4, <1>5, <1>7, Facts DEF OneConversation, Running
<1> QED BY <1>1, <1>3, <1>4, <1>6, <1>8, <1>9, Facts, LookKeeps DEF SessionInv

\* LookupEmpty and LookupUnknown conclude.
LEMMA LookupsKeep ==
    ASSUME IInv, NEW k \in Keys, LookupEmpty(k) \/ LookupUnknown(k)
    PROVE  IInv'
BY ConcludesKeeps DEF LookupEmpty, LookupUnknown

\* A send begins: under a key nothing came of, or of a record that is there.
LEMMA BeginKeeps ==
    ASSUME IInv, NEW k \in Keys, NEW v \in Values, TypeOK',
           app'.check = app.check, app'.send[k] = New(v),
           \A j \in Keys \ {k} : app'.send[j] = app.send[j],
           queue' = Append(queue, Op("put", k, v, "send")),
           UNCHANGED <<disk, memory, hydrated, user, server, hist>>,
           ~Running(k), user = Author, screen'.open,
           \A j \in Keys : Rec(j) \/ Running(j) => j = k,
           \A j \in Keys : ~Fresh(j) => j = k \/ givenUp \/ overtaken,
           givenUp \/ (Rec(k) /\ disk[k] = v) \/ (~Rec(k) /\ Fresh(k)),
           givenUp \/ app.check[k].pc # "asking",
           FormInv'
    PROVE  IInv'
<1>0. /\ UNCHANGED <<disk, memory, hydrated, user, req, task, known, givenUp, overtaken>>
      /\ \A j \in Keys : Rec(j)' = Rec(j) /\ Fresh(j)' = Fresh(j)
      /\ \A j \in Keys \ {k} : Running(j)' = Running(j)
  BY DEF server, hist, Rec, Fresh, Running
<1>1. /\ app'.send[k].pc = "putting" /\ app'.send[k].val = v /\ app'.send[k].reply = "none"
      /\ ~app'.send[k].stale /\ Running(k)'
  BY NewIs DEF Running
<1>2. \A j \in Keys : app.send[j].pc = "idle"
  BY DEF Running
<1>3. QueueInv'
  <2> DEFINE o == Op("put", k, v, "send")
  <2>1. /\ o \in Operation /\ o.op = "put" /\ o.key = k /\ o.val = v /\ o.for = "send"
        /\ o.copy = None
    BY OpIs
  <2> HIDE DEF o
  <2>2. OpInv(o)'
    BY <1>1, <2>1 DEF OpInv
  <2>3. queue' = Append(queue, o)
    BY DEF o
  <2> QED BY <1>0, <1>2, <2>1, <2>2, <2>3, QueueGrows
<1>4. MemoryInv'
  BY <1>0, Facts DEF MemoryInv
<1>5. SessionInv'
  BY <1>0, <1>1, Facts DEF SessionInv, Running
<1>6. SendInv'
  <2>1. ASSUME NEW q \in req, q.awaited PROVE app'.send[q.key] = app.send[q.key]
    <3>1. app.send[q.key].pc = "posted" /\ q.key \in Keys
      BY <2>1, Facts DEF SendInv, Request
    <3> QED BY <1>2, <3>1
  <2>2. ASSUME NEW j \in Keys PROVE j = k \/ app'.send[j] = app.send[j]
    OBVIOUS
  <2> QED BY <1>0, <1>1, <2>1, <2>2, Facts, SMTT(20) DEF SendInv
<1>7. KeptInv'
  BY <1>0, <1>1, Facts DEF KeptInv
<1>8. ValueInv'
  <2>1. CASE givenUp
    BY <1>0, <2>1 DEF ValueInv
  <2>2. CASE ~givenUp
    <3>1. ASSUME NEW j \in Keys PROVE \E w \in Values : Agrees(j, w)'
      <4>1. PICK w \in Values : Agrees(j, w)
        BY <2>2, Facts DEF ValueInv
      <4>2. CASE j # k
        BY <1>0, <4>1, <4>2 DEF Agrees, Running
      <4>3. CASE j = k /\ Rec(k)
        <5>1. w = v
          BY <2>2, <4>1, <4>3 DEF Agrees, Rec
        <5> QED BY <1>0, <1>1, <4>1, <4>3, <5>1 DEF Agrees
      <4>4. CASE j = k /\ ~Rec(k) /\ Fresh(k)
        BY <1>0, <1>1, <4>4 DEF Agrees, Rec, Fresh
      <4> QED BY <2>2, <4>2, <4>3, <4>4
    <3> QED BY <3>1 DEF ValueInv
  <2> QED BY <2>1, <2>2
<1>9. OneConversation'
  BY <1>0, Facts DEF OneConversation
<1> QED BY <1>3, <1>4, <1>5, <1>6, <1>7, <1>8, <1>9 DEF IInv

\* Save: a new key, or one that nothing came of.
LEMMA SaveKeeps ==
    ASSUME IInv, NEW v \in Values, Save(v)
    PROVE  IInv'
<1>0. /\ app \in App /\ screen \in Screen /\ screen.open /\ ~screen.saving /\ user = Author
      /\ memory = disk /\ known = {}
      /\ \A j \in Keys : ~Rec(j) /\ ~Running(j)
  <2>1. app \in App /\ screen \in Screen
    BY Facts, ScreenParts DEF screen
  <2>2. screen.open /\ ~screen.saving /\ user = Author /\ memory = disk /\ known = {}
    BY Facts DEF Save, Form, SessionInv, MemoryInv
  <2>3. \A j \in Keys : ~Rec(j) /\ ~Running(j)
    BY <2>2 DEF Save, Form, Pending, PendingIn, Rec, Running
  <2> QED BY <2>1, <2>2, <2>3
<1>1. PICK k \in Keys :
          /\ k = screen.key \/ Unused(k)
          /\ app' = [Begin(app, k, v) EXCEPT !.screen.key = k, !.screen.saving = TRUE]
          /\ Queued(Op("put", k, v, "send"))
  <2>1. screen.key \in Keys \cup {None}
    BY <1>0, ScreenParts DEF screen
  <2> QED BY <2>1 DEF Save
<1>2. givenUp \/ (Fresh(k) /\ app.check[k].pc \notin {"joining", "asking"})
  <2>1. CASE k = screen.key
    BY <1>0, <2>1, Facts DEF FormInv
  <2>2. CASE Unused(k)
    BY <2>2 DEF Unused, Fresh
  <2> QED BY <1>1, <2>1, <2>2
<1> DEFINE s == [screen EXCEPT !.key = k, !.saving = TRUE]
           y == Begin(app, k, v)
<1>3. /\ s \in Screen /\ s.open /\ s.key = k /\ s.saving /\ s.panel = screen.panel
      /\ s.phase = screen.phase
  BY <1>0 DEF Screen
<1>4. /\ y \in App /\ y.check = app.check /\ y.screen = app.screen
      /\ y.send[k] = New(v) /\ \A j \in Keys \ {k} : y.send[j] = app.send[j]
  BY <1>0, BeginIs DEF SendChange
<1>5. app' = [y EXCEPT !.screen = s]
  <2> HIDE DEF y
  <2>1. app' = [y EXCEPT !.screen.key = k, !.screen.saving = TRUE]
    BY <1>1 DEF y
  <2> QED BY <1>4, <2>1 DEF App, screen
<1> HIDE DEF s, y
<1>6. /\ app' \in App /\ app'.send = y.send /\ app'.check = app.check /\ screen' = s
  BY <1>3, <1>4, <1>5, ScreenSet DEF screen
<1>7. /\ app'.send[k] = New(v)
      /\ \A j \in Keys \ {k} : app'.send[j] = app.send[j]
  BY <1>4, <1>6
<1>8. queue' = Append(queue, Op("put", k, v, "send")) /\ queue' \in Seq(Operation)
  BY <1>1, OpIs, Facts DEF Queued
<1>9. UNCHANGED <<disk, memory, hydrated, user, server, hist>>
  BY DEF Save
<1>10. TypeOK'
  BY <1>6, <1>8, <1>9, Facts DEF Save, TypeOK, App, server, rights, hist
<1>11. FormInv'
  <2>1. UNCHANGED <<disk, givenUp, known, req, task>>
    BY <1>9 DEF server, hist
  <2>2. ASSUME NEW j \in Keys, screen'.key = j
        PROVE  /\ screen'.saving
               /\ givenUp' \/ (Fresh(j)' /\ app'.check[j].pc \notin {"joining", "asking"})
    BY <1>2, <1>3, <1>6, <2>1, <2>2 DEF Fresh
  <2>3. ASSUME NEW j \in Keys, screen'.panel = j, screen'.phase \in {"not_found", "sending"}
        PROVE  app'.check[j].pc \notin {"joining", "asking"}
    BY <1>3, <1>6, <2>3, Facts DEF FormInv
  <2> QED BY <2>2, <2>3 DEF FormInv
<1>12. \A j \in Keys : ~Fresh(j) => j = k \/ givenUp \/ overtaken
  BY <1>0, Facts DEF KeptInv
<1> QED BY <1>0, <1>2, <1>3, <1>6, <1>7, <1>8, <1>9, <1>10, <1>11, <1>12, BeginKeeps

\* The panel's send is out already: it is waited for.
LEMMA JoinSendKeeps ==
    ASSUME IInv, NEW k \in Keys, SendAgain(k), Running(k)
    PROVE  IInv'
<1> DEFINE s == [screen EXCEPT !.phase = "sending"]
<1>0. app \in App /\ screen \in Screen /\ screen.open /\ user = Author /\ ~screen.saving
  BY Facts, Parts, PanelIs DEF screen, SendAgain
<1>1. /\ s \in Screen /\ s.open /\ s.key = screen.key /\ s.panel = k
      /\ s.phase = "sending" /\ screen.panel = k /\ screen.phase = "not_found"
  BY <1>0 DEF Screen, SendAgain
<1>2. app' = [app EXCEPT !.screen = s]
  BY <1>0 DEF SendAgain, screen, App
<1> HIDE DEF s
<1>3. app' \in App /\ app'.send = app.send /\ app'.check = app.check /\ screen' = s
  BY <1>0, <1>1, <1>2, ScreenSet DEF screen
<1>4. UNCHANGED <<disk, memory, hydrated, queue, user, leaving, server, rights, hist, faults>>
  BY DEF SendAgain
<1>5. TypeOK'
  BY <1>3, <1>4, Facts DEF TypeOK, App, server, rights, hist
<1>6. UNCHANGED <<disk, givenUp, known, req, task>>
  BY <1>4 DEF server, hist
<1>7. FormInv'
  <2>1. ASSUME NEW j \in Keys, screen'.key = j
        PROVE  /\ ~Running(j)'
               /\ Rec(j)' \/ givenUp' \/ known' # {} \/
                      (Fresh(j)' /\ app'.check[j].pc \notin {"joining", "asking"})
    <3>1. screen.key = j
      BY <1>1, <1>3, <2>1
    <3>2. /\ ~Running(j)
          /\ Rec(j) \/ givenUp \/ known # {} \/
                (Fresh(j) /\ app.check[j].pc \notin {"joining", "asking"})
      BY <1>0, <1>1, <3>1, Facts DEF FormInv
    <3> QED BY <1>3, <1>6, <3>2 DEF Rec, Fresh, Running
  <2>2. app.check[k].pc \notin {"joining", "asking"}
    BY <1>1, Facts DEF FormInv
  <2> QED BY <1>1, <1>3, <2>1, <2>2 DEF FormInv
<1>8. OneConversation'
  BY <1>3, <1>6, Facts DEF OneConversation, Running
<1> QED BY <1>0, <1>1, <1>3, <1>4, <1>5, <1>7, <1>8, LookKeeps DEF store

\* SendAgain: the record's own key and values.
LEMMA SendAgainKeeps ==
    ASSUME IInv, NEW k \in Keys, SendAgain(k), ~Running(k)
    PROVE  IInv'
<1> DEFINE v == memory[k]
           s == [screen EXCEPT !.phase = "sending"]
           y == Begin(app, k, v)
<1>0. /\ app \in App /\ screen \in Screen /\ screen.open /\ user = Author /\ ~screen.saving
      /\ memory = disk /\ Rec(k) /\ \A j \in Keys : Rec(j) \/ Running(j) => j = k
      /\ screen.panel = k /\ screen.phase = "not_found"
  BY Facts, Parts, PanelIs DEF screen, SendAgain
<1>1. v \in Values /\ disk[k] = v
  BY <1>0, Facts DEF Rec, Records
<1>2. /\ s \in Screen /\ s.open /\ s.key = screen.key /\ s.panel = k /\ s.phase = "sending"
  BY <1>0 DEF Screen
<1>3. /\ app' = [y EXCEPT !.screen.phase = "sending"]
      /\ queue' = Append(queue, Op("put", k, v, "send"))
      /\ UNCHANGED <<disk, memory, hydrated, user, leaving, server, rights, hist, faults>>
  BY DEF SendAgain, Queued
<1> HIDE DEF v
<1>4. /\ y \in App /\ y.check = app.check /\ y.screen = app.screen
      /\ y.send[k] = New(v) /\ \A j \in Keys \ {k} : y.send[j] = app.send[j]
  BY <1>0, <1>1, BeginIs DEF SendChange
<1> HIDE DEF y
<1>5. app' = [y EXCEPT !.screen = s]
  BY <1>3, <1>4 DEF App, screen
<1> HIDE DEF s
<1>6. /\ app' \in App /\ app'.send = y.send /\ app'.check = app.check /\ screen' = s
  BY <1>2, <1>4, <1>5, ScreenSet DEF screen
<1>7. /\ app'.send[k] = New(v)
      /\ \A j \in Keys \ {k} : app'.send[j] = app.send[j]
  BY <1>4, <1>6
<1>8. queue' \in Seq(Operation)
  BY <1>1, <1>3, OpIs, Facts
<1>9. UNCHANGED <<disk, memory, hydrated, user, server, hist>>
  BY <1>3
<1>10. TypeOK'
  BY <1>3, <1>6, <1>8, Facts DEF TypeOK, App, server, rights, hist
<1>11. app.check[k].pc \notin {"joining", "asking"}
  BY <1>0, Facts DEF FormInv
<1>12. FormInv'
  <2>1. UNCHANGED <<disk, givenUp, known, req, task>>
    BY <1>9 DEF server, hist
  <2>2. ASSUME NEW j \in Keys, screen'.key = j
        PROVE  /\ Running(j)' => screen'.phase = "sending" /\ screen'.panel = j
               /\ Rec(j)' \/ givenUp' \/ known' # {} \/
                      (Fresh(j)' /\ app'.check[j].pc \notin {"joining", "asking"})
    <3>1. screen.key = j
      BY <1>2, <1>6, <2>2
    <3>2. Rec(j) \/ givenUp \/ known # {} \/
              (Fresh(j) /\ app.check[j].pc \notin {"joining", "asking"})
      BY <3>1, Facts DEF FormInv
    <3>3. j # k => ~Running(j)'
      BY <1>0, <1>7 DEF Running
    <3> QED BY <1>2, <1>6, <2>1, <3>2, <3>3 DEF Rec, Fresh
  <2>3. ASSUME NEW j \in Keys, screen'.panel = j
        PROVE  app'.check[j].pc \notin {"joining", "asking"}
    BY <1>2, <1>6, <1>11, <2>3
  <2> QED BY <2>2, <2>3 DEF FormInv
<1>13. \A j \in Keys : ~Fresh(j) => j = k \/ givenUp \/ overtaken
  BY <1>0, Facts DEF KeptInv
<1> QED BY <1>0, <1>1, <1>2, <1>3, <1>6, <1>7, <1>9, <1>10, <1>11, <1>12, <1>13, BeginKeeps

-----------------------------------------------------------------------------
(* What only queues something, and what concerns neither the app nor the disk. *)

LEMMA AsideKeeps ==
    ASSUME IInv, TypeOK', QueueInv',
           UNCHANGED <<disk, memory, hydrated, app, user, server, hist>>
    PROVE  IInv'
<1>0. UNCHANGED <<req, task, known, givenUp, overtaken>>
  BY DEF server, hist
<1>1. MemoryInv'
  BY Facts DEF MemoryInv
<1>2. SessionInv'
  BY <1>0, Facts DEF SessionInv, Running, screen
<1>3. SendInv'
  BY <1>0, Facts DEF SendInv, Fresh
<1>4. KeptInv'
  BY <1>0, Facts DEF KeptInv, Rec, Running, Fresh
<1>5. ValueInv'
  BY <1>0, Facts DEF ValueInv, Agrees, Running
<1>6. FormInv'
  BY <1>0, Facts DEF FormInv, Running, screen, Rec, Fresh
<1>7. OneConversation'
  BY <1>0, Facts DEF OneConversation, Running
<1> QED BY <1>1, <1>2, <1>3, <1>4, <1>5, <1>6, <1>7 DEF IInv

\* Logout only sends.
LEMMA LogoutKeeps ==
    ASSUME IInv, Logout
    PROVE  IInv'
<1>1. TypeOK'
  BY Facts DEF TypeOK, Logout, Fault, store, server, rights, hist
<1>2. QueueInv'
  BY QueueStays DEF Logout, store, hist
<1> QED BY <1>1, <1>2, AsideKeeps DEF Logout, store

\* RightsChange concerns the server's later answers.
LEMMA RightsChangeKeeps ==
    ASSUME IInv, RightsChange
    PROVE  IInv'
<1>1. TypeOK'
  BY Facts DEF TypeOK, RightsChange, Fault, store, server, hist
<1>2. QueueInv'
  BY QueueStays DEF RightsChange, store, hist
<1> QED BY <1>1, <1>2, AsideKeeps DEF RightsChange, store

\* RetryHydrate only queues.
LEMMA RetryHydrateKeeps ==
    ASSUME IInv, RetryHydrate
    PROVE  IInv'
<1>1. /\ Hydrate \in Operation /\ Hydrate.op = "hydrate" /\ Hydrate.for = "none"
      /\ Hydrate.copy = None
  BY OpIs DEF Hydrate
<1>2. queue' = Append(queue, Hydrate) /\ queue' \in Seq(Operation)
  BY <1>1, Facts DEF RetryHydrate, Queued
<1>3. TypeOK'
  BY <1>2, Facts DEF TypeOK, RetryHydrate, server, rights, hist
<1>4. OpInv(Hydrate)'
  BY <1>1 DEF OpInv
<1>5. QueueInv'
  BY <1>1, <1>2, <1>4, QueueGrows DEF RetryHydrate, hist
<1> QED BY <1>3, <1>5, AsideKeeps DEF RetryHydrate

\* Discard only queues.
LEMMA DiscardKeeps ==
    ASSUME IInv, NEW k \in Keys, Discard(k)
    PROVE  IInv'
<1> DEFINE o == Op("remove", k, None, "discard")
<1>1. /\ o \in Operation /\ o.op = "remove" /\ o.key = k /\ o.for = "discard"
      /\ o.copy = None
  BY OpIs
<1> HIDE DEF o
<1>2. queue' = Append(queue, o) /\ queue' \in Seq(Operation)
  BY <1>1, Facts DEF Discard, Queued, o
<1>3. TypeOK'
  BY <1>2, Facts DEF TypeOK, Discard, server, rights, hist
<1>4. OpInv(o)'
  BY <1>1 DEF OpInv
<1>5. QueueInv'
  BY <1>1, <1>2, <1>4, QueueGrows DEF Discard, hist
<1> QED BY <1>3, <1>5, AsideKeeps DEF Discard

\* The copy an operation works on is what is then on the disk.
LEMMA DiskReadKeeps ==
    ASSUME IInv, DiskRead
    PROVE  IInv'
<1>0. QueueInv /\ queue \in Seq(Operation) /\ disk \in Records /\ queue # <<>>
  BY Facts DEF DiskRead
<1>1. /\ 1 \in 1 .. Len(queue) /\ queue[1] \in Operation /\ Len(queue) \in Nat
  BY <1>0
<1> DEFINE o == [queue[1] EXCEPT !.copy = disk]
<1>2. /\ o \in Operation /\ o.copy = disk /\ o.op = queue[1].op /\ o.key = queue[1].key
      /\ o.val = queue[1].val /\ o.for = queue[1].for
  BY <1>0, <1>1 DEF Operation
<1>3. queue' = [queue EXCEPT ![1] = o]
  BY DEF DiskRead, List
<1> HIDE DEF o
<1>4. /\ queue' \in Seq(Operation) /\ Len(queue') = Len(queue) /\ queue'[1] = o
      /\ \A i \in 2 .. Len(queue) : queue'[i] = queue[i]
  BY <1>0, <1>1, <1>2, <1>3
<1>5. TypeOK'
  BY <1>4, Facts DEF TypeOK, DiskRead, server, rights, hist
<1>6. UNCHANGED <<disk, app, known, givenUp>>
  BY DEF DiskRead, hist
<1>7. \A i \in 1 .. Len(queue) :
         /\ queue'[i].op = queue[i].op /\ queue'[i].for = queue[i].for
  BY <1>2, <1>4
<1>8. \A i \in 1 .. Len(queue) : ClearsNothing(i) => ClearsNothing(i)'
  BY <1>1, <1>6, <1>7 DEF ClearsNothing, Rec
<1>9. ASSUME NEW i \in 1 .. Len(queue)
      PROVE  OpInv(queue[i])' /\ (queue'[i].copy # None => i = 1)
  <2>1. CASE i = 1
    <3>1. OpInv(queue[1])
      BY <1>0, <1>1 DEF QueueInv
    <3>2. ASSUME NEW p, p = o PROVE OpInv(p)'
      BY <1>2, <1>6, <3>1, <3>2 DEF OpInv
    <3> QED BY <1>4, <2>1, <3>2
  <2>2. CASE i \in 2 .. Len(queue)
    <3>1. OpInv(queue[i]) /\ (queue[i].copy # None => i = 1) /\ queue'[i] = queue[i]
      BY <1>0, <1>4, <2>2 DEF QueueInv
    <3>2. ASSUME NEW p, p = queue[i] PROVE OpInv(p)'
      BY <1>6, <3>1, <3>2 DEF OpInv
    <3> QED BY <3>1, <3>2
  <2> QED BY <1>1, <2>1, <2>2
<1>10. QueueInv'
  BY <1>0, <1>4, <1>6, <1>7, <1>8, <1>9 DEF QueueInv
<1> QED BY <1>5, <1>10, AsideKeeps DEF DiskRead

-----------------------------------------------------------------------------
(* Answers. *)

LEMMA SendAnsweredKeeps ==
    ASSUME IInv, NEW k \in Keys, SendAnswered(k)
    PROVE  IInv'
<1> DEFINE s == [app.send[k] EXCEPT !.pc = "forgetting"]
           o == Op("remove", k, None, "send")
<1>0. /\ app \in App /\ app.send[k].pc = "posted" /\ app.send[k].reply # "none" /\ Running(k)
      /\ app.send[k] \in Sending /\ app.send[k].reply \in Reply
  BY Facts, Parts DEF SendAnswered, Running
<1>1. SendChange(app', app, k, s)
  BY <1>0, PcSet DEF SendAnswered, SendPc
<1>2. /\ s.pc = "forgetting" /\ s.val = app.send[k].val /\ s.reply = app.send[k].reply
      /\ s.stale = app.send[k].stale
  BY <1>0 DEF Sending
<1> HIDE DEF s
<1>3. /\ app' \in App /\ app'.check = app.check /\ screen' = screen /\ app'.send[k] = s
      /\ \A j \in Keys \ {k} : app'.send[j] = app.send[j]
  BY <1>1 DEF SendChange, screen
<1>4. /\ UNCHANGED <<disk, memory, hydrated, user, leaving, req, task, rights, givenUp, faults>>
      /\ known' = IF app.send[k].reply = "created" THEN known \cup {k} ELSE known
      /\ overtaken' = (overtaken \/ app.send[k].reply = "refused_ahead")
  BY DEF SendAnswered, server
<1>5. /\ o \in Operation /\ o.op = "remove" /\ o.key = k /\ o.for = "send" /\ o.copy = None
  BY OpIs
<1> HIDE DEF o
<1>6. queue' = Append(queue, o) /\ queue' \in Seq(Operation)
  BY <1>5, Facts DEF SendAnswered, Forget, Queued, o
<1>7. /\ \A j \in Keys : Running(j)' = Running(j) /\ Rec(j)' = Rec(j) /\ Fresh(j)' = Fresh(j)
      /\ known \subseteq known'
  BY <1>0, <1>2, <1>3, <1>4 DEF Running, Rec, Fresh
<1>8. \A j \in Keys : app.send[j].pc \notin {"putting", "forgetting"}
  BY <1>0, Facts DEF KeptInv, Running
<1>9. TypeOK'
  BY <1>3, <1>4, <1>6, Facts DEF TypeOK, App, rights
<1>10. QueueInv'
  <2>1. OpInv(o)'
    BY <1>2, <1>3, <1>5 DEF OpInv
  <2> QED BY <1>4, <1>5, <1>6, <1>7, <1>8, <2>1, QueueGrows
<1>11. MemoryInv'
  BY <1>4, Facts DEF MemoryInv
<1>12. SessionInv'
  <2>1. \A j \in Keys : Running(j)' /\ ~app'.send[j].stale => Running(j) /\ ~app.send[j].stale
    BY <1>2, <1>3, <1>7
  <2> QED BY <1>3, <1>4, <2>1, Facts DEF SessionInv
<1>13. SendInv'
  <2>1. ASSUME NEW q \in req, q.awaited
        PROVE  app'.send[q.key] = app.send[q.key]
    <3>1. q.key \in Keys /\ app.send[q.key].reply = "none"
      BY <2>1, Facts DEF SendInv, Request
    <3> QED BY <1>0, <1>3, <3>1
  <2>2. /\ s.val \in Values
        /\ CASE s.reply = "created" -> k \in known'
             [] s.reply = "refused_ahead" -> overtaken'
             [] s.reply = "refused" -> TRUE
             [] OTHER -> FALSE
        /\ s.reply = "refused" => Fresh(k)' \/ givenUp'
    BY <1>0, <1>2, <1>4, <1>7, Facts DEF SendInv, Reply
  <2>3. ASSUME NEW j \in Keys \ {k}
        PROVE  LET t == app'.send[j] IN
               /\ t.pc # "idle" => t.val \in Values
               /\ t.reply # "none" => t.pc \in {"posted", "forgetting"}
               /\ t.pc # "forgetting"
               /\ t.reply = "refused" => Fresh(j)' \/ givenUp'
    BY <1>3, <1>4, <1>7, <1>8, Facts DEF SendInv
  <2> QED BY <1>2, <1>3, <1>4, <2>1, <2>2, <2>3, Facts DEF SendInv
<1>14. KeptInv'
  BY <1>4, <1>7, Facts DEF KeptInv
<1>15. ValueInv'
  <2>1. \A j \in Keys : app'.send[j].val = app.send[j].val
    BY <1>2, <1>3
  <2> QED BY <1>4, <1>7, <2>1, Facts DEF ValueInv, Agrees
<1>16. FormInv'
  <2>1. known # {} => known' # {}
    BY <1>7
  <2> QED BY <1>3, <1>4, <1>7, <2>1, Facts DEF FormInv
<1>17. OneConversation'
  BY <1>3, <1>4, <1>7, Facts DEF OneConversation
<1> QED BY <1>9, <1>10, <1>11, <1>12, <1>13, <1>14, <1>15, <1>16, <1>17 DEF IInv

\* LookupFound: the phone knows of the task before the record goes.
LEMMA LookupFoundKeeps ==
    ASSUME IInv, NEW k \in Keys, LookupFound(k)
    PROVE  IInv'
<1> DEFINE c == [app.check[k] EXCEPT !.pc = "forgetting"]
           o == Op("remove", k, None, "check")
<1>0. app \in App /\ app.check[k] \in Checking
  BY Facts, Parts
<1>1. c \in Checking /\ c.pc = "forgetting"
  BY <1>0 DEF Checking
<1>2. app' = [app EXCEPT !.check[k] = c]
  BY DEF LookupFound
<1> HIDE DEF c
<1>3. /\ app' \in App /\ app'.send = app.send /\ screen' = screen
      /\ app'.check[k] = c /\ \A j \in Keys \ {k} : app'.check[j] = app.check[j]
  <2>1. app' \in App /\ app'.send = app.send /\ screen' = screen
        /\ app'.check = [app.check EXCEPT ![k] = c]
    BY <1>0, <1>1, <1>2, CheckSet DEF screen
  <2> QED BY <1>0, <2>1, Parts
<1>4. /\ UNCHANGED <<disk, memory, hydrated, user, leaving, req, task, rights, givenUp, overtaken, faults>>
      /\ known' = known \cup {k}
  BY DEF LookupFound, server
<1>5. /\ o \in Operation /\ o.op = "remove" /\ o.key = k /\ o.for = "check" /\ o.copy = None
  BY OpIs
<1> HIDE DEF o
<1>6. queue' = Append(queue, o) /\ queue' \in Seq(Operation)
  BY <1>5, Facts DEF LookupFound, Forget, Queued, o
<1>7. \A j \in Keys : Running(j)' = Running(j) /\ Rec(j)' = Rec(j) /\ Fresh(j)' = Fresh(j)
  BY <1>3, <1>4 DEF Running, Rec, Fresh
<1>8. TypeOK'
  BY <1>3, <1>4, <1>6, Facts DEF TypeOK, App, rights
<1>9. QueueInv'
  <2>1. OpInv(o)'
    BY <1>4, <1>5 DEF OpInv
  <2> QED BY <1>3, <1>4, <1>5, <1>6, <2>1, QueueGrows
<1>10. MemoryInv'
  BY <1>4, Facts DEF MemoryInv
<1>11. SessionInv'
  BY <1>3, <1>4, <1>7, Facts DEF SessionInv
<1>12. SendInv'
  BY <1>3, <1>4, <1>7, Facts DEF SendInv
<1>13. KeptInv'
  BY <1>4, <1>7, Facts DEF KeptInv
<1>14. ValueInv'
  BY <1>3, <1>4, <1>7, Facts DEF ValueInv, Agrees
<1>15. FormInv'
  <2>1. ASSUME NEW j \in Keys, screen.panel = j, screen.phase \in {"not_found", "sending"}
        PROVE  app'.check[j].pc \notin {"joining", "asking"}
    BY <1>1, <1>3, <2>1, Facts DEF FormInv
  <2> QED BY <1>3, <1>4, <1>7, <2>1, Facts DEF FormInv
<1>16. OneConversation'
  BY <1>1, <1>3, <1>4, <1>7, Facts DEF OneConversation
<1> QED BY <1>8, <1>9, <1>10, <1>11, <1>12, <1>13, <1>14, <1>15, <1>16 DEF IInv

-----------------------------------------------------------------------------
(* What most steps leave: no new record or send, and no new values. *)

LEMMA KeptStays ==
    ASSUME IInv, known \subseteq known', givenUp => givenUp', overtaken => overtaken',
           \A k \in Keys :
              /\ Rec(k)' \/ Running(k)' => Rec(k) \/ Running(k)
              /\ ~Fresh(k)' => ~Fresh(k) \/ Running(k)
              /\ k \notin known' /\ ~Fresh(k)' =>
                    \/ Rec(k)' \/ givenUp' \/ overtaken'
                    \/ ~Fresh(k) /\ (Rec(k) => Rec(k)')
    PROVE  KeptInv'
BY Facts DEF KeptInv

\* No new values under a key.
LEMMA ValueStays ==
    ASSUME IInv, givenUp => givenUp',
           \A r \in req' : \E q \in req : q.key = r.key /\ q.val = r.val,
           \A k \in Keys :
              /\ task'[k] = task[k] \/ \E q \in req : q.key = k /\ q.val = task'[k]
              /\ disk'[k] \in {None, disk[k]} \/ (Running(k) /\ disk'[k] = app.send[k].val)
              /\ Running(k)' => Running(k) /\ app'.send[k].val = app.send[k].val
    PROVE  ValueInv'
<1>1. CASE givenUp
  BY <1>1 DEF ValueInv
<1>2. CASE ~givenUp
  <2>1. ASSUME NEW k \in Keys PROVE \E v \in Values : Agrees(k, v)'
    <3>1. PICK v \in Values : Agrees(k, v)
      BY <1>2, Facts DEF ValueInv
    <3>2. Agrees(k, v)'
      <4>1. \A r \in req' : r.key = k => r.val = v
        BY <3>1 DEF Agrees
      <4>2. task'[k] \in {None, v} /\ disk'[k] \in {None, v}
        BY <3>1 DEF Agrees
      <4>3. Running(k)' => app'.send[k].val = v
        BY <3>1 DEF Agrees
      <4> QED BY <4>1, <4>2, <4>3 DEF Agrees
    <3> QED BY <3>2
  <2> QED BY <2>1 DEF ValueInv
<1> QED BY <1>1, <1>2

\* A request that nobody waits for any more is the same request.
LEMMA Silenced ==
    ASSUME NEW q \in Request
    PROVE  LET r == [q EXCEPT !.awaited = FALSE]
           IN  /\ r \in Request /\ r.key = q.key /\ r.val = q.val /\ r.by = q.by
               /\ ~r.awaited
BY DEF Request

\* The requests are the same but for who waits for them.
SameRequests ==
    /\ req' \subseteq Request
    /\ \A r \in req' : \E q \in req : q.key = r.key /\ q.val = r.val /\ q.by = r.by
    /\ \A q \in req : \E r \in req' : r.key = q.key

\* A key is as fresh as it was when the requests are the same.
LEMMA SameRequestsFresh ==
    ASSUME SameRequests, task' = task, NEW k \in Keys
    PROVE  Fresh(k)' = Fresh(k)
BY DEF SameRequests, Fresh

-----------------------------------------------------------------------------
(* Sessions and the app. *)

LEMMA NewSessionIs ==
    ASSUME IInv, NEW u, NewSession(u)
    PROVE  /\ app' \in App /\ screen' = NoScreen /\ user' = u
           /\ \A k \in Keys :
                 /\ app'.send[k].pc = app.send[k].pc /\ app'.send[k].val = app.send[k].val
                 /\ app'.send[k].reply = app.send[k].reply /\ app'.send[k].stale = Running(k)
                 /\ app'.check[k].pc = app.check[k].pc
<1> DEFINE a == Left(app)
           s == [k \in Keys |-> [a.send[k] EXCEPT !.stale = Running(k)]]
           c == [k \in Keys |-> [a.check[k] EXCEPT !.stale = a.check[k].pc # "idle"]]
<1>1. /\ a \in App /\ a.send = app.send /\ a.screen = NoScreen
      /\ \A k \in Keys : a.check[k].pc = app.check[k].pc
  BY Facts, LeftIs
<1>2. app' = [a EXCEPT !.send = s, !.check = c] /\ user' = u
  BY DEF NewSession
<1> HIDE DEF a
<1>3. \A k \in Keys : a.send[k] \in Sending /\ a.check[k] \in Checking /\ Running(k) \in BOOLEAN
  BY <1>1 DEF App, Running
<1>4. s \in [Keys -> Sending] /\ c \in [Keys -> Checking]
  BY <1>3 DEF Sending, Checking
<1>5. \A k \in Keys :
         /\ s[k].pc = a.send[k].pc /\ s[k].val = a.send[k].val
         /\ s[k].reply = a.send[k].reply /\ s[k].stale = Running(k)
         /\ c[k].pc = a.check[k].pc
  BY <1>3 DEF Sending, Checking
<1> HIDE DEF s, c
<1>6. app' \in App /\ app'.send = s /\ app'.check = c /\ app'.screen = NoScreen
  BY <1>1, <1>2, <1>4 DEF App
<1> QED BY <1>1, <1>2, <1>5, <1>6 DEF screen

\* A new session makes stale what was begun before it.
LEMMA SessionKeeps ==
    ASSUME IInv, TypeOK', NEW u, NewSession(u), QueueInv',
           UNCHANGED <<disk, memory, hydrated, server, known, overtaken>>,
           givenUp => givenUp'
    PROVE  IInv'
<1>0. UNCHANGED <<req, task>>
  BY DEF server
<1>1. /\ screen' = NoScreen
      /\ \A k \in Keys :
            /\ app'.send[k].pc = app.send[k].pc /\ app'.send[k].val = app.send[k].val
            /\ app'.send[k].reply = app.send[k].reply /\ app'.send[k].stale = Running(k)
            /\ app'.check[k].pc = app.check[k].pc
  BY NewSessionIs
<1>2. \A k \in Keys : Running(k)' = Running(k) /\ Rec(k)' = Rec(k) /\ Fresh(k)' = Fresh(k)
  BY <1>0, <1>1 DEF Running, Rec, Fresh
<1>3. MemoryInv'
  BY Facts DEF MemoryInv
<1>4. SessionInv'
  BY <1>0, <1>1, <1>2, Nulls, Facts DEF SessionInv
<1>5. SendInv'
  <2>1. \A q \in req : q.key \in Keys
    BY Facts DEF Request
  <2> QED BY <1>0, <1>1, <1>2, <2>1, Facts DEF SendInv
<1>6. KeptInv'
  BY <1>2, KeptStays
<1>7. ValueInv'
  BY <1>0, <1>1, <1>2, ValueStays
<1>8. FormInv'
  BY <1>1, Nulls DEF FormInv
<1>9. OneConversation'
  BY <1>1, <1>2, Facts DEF OneConversation
<1> QED BY <1>3, <1>4, <1>5, <1>6, <1>7, <1>8, <1>9 DEF IInv

\* SessionEnds, with everything under way.
LEMMA SessionEndsKeeps ==
    ASSUME IInv, SessionEnds
    PROVE  IInv'
<1>1. /\ app' \in App /\ user' = None
      /\ \A k \in Keys :
            /\ app'.send[k].pc = app.send[k].pc /\ app'.send[k].val = app.send[k].val
  BY NewSessionIs DEF SessionEnds
<1>2. TypeOK'
  BY <1>1, Facts DEF SessionEnds, Fault, TypeOK, App, store, server, rights, hist
<1>3. QueueInv'
  BY <1>1, QueueStays DEF SessionEnds, store, hist
<1> QED BY <1>2, <1>3, SessionKeeps DEF SessionEnds, store, hist

\* SignIn, with everything under way.
LEMMA SignInKeeps ==
    ASSUME IInv, NEW u \in {Author, Other}, SignIn(u)
    PROVE  IInv'
<1>1. /\ app' \in App /\ user' = u
      /\ \A k \in Keys :
            /\ app'.send[k].pc = app.send[k].pc /\ app'.send[k].val = app.send[k].val
  BY NewSessionIs DEF SignIn
<1>2. TypeOK'
  BY <1>1, Facts DEF SignIn, TypeOK, App, store, server, rights, hist
<1>3. QueueInv'
  BY <1>1, QueueStays DEF SignIn, store, hist
<1> QED BY <1>2, <1>3, SessionKeeps DEF SignIn, store, hist

\* LogoutPosted: what it will clear was given up, or there is nothing to clear.
LEMMA LogoutPostedKeeps ==
    ASSUME IInv, LogoutPosted
    PROVE  IInv'
<1> DEFINE o == Op("clear", None, None, "none")
<1>1. /\ o \in Operation /\ o.op = "clear" /\ o.for = "none" /\ o.copy = None
  BY OpIs
<1> HIDE DEF o
<1>2. queue' = Append(queue, o) /\ queue' \in Seq(Operation)
  BY <1>1, Facts DEF LogoutPosted, Queued, o
<1>3. /\ app' \in App /\ user' = None
      /\ \A k \in Keys :
            /\ app'.send[k].pc = app.send[k].pc /\ app'.send[k].val = app.send[k].val
  BY NewSessionIs DEF LogoutPosted
<1>4. TypeOK'
  BY <1>2, <1>3, Facts DEF LogoutPosted, TypeOK, App, server, rights
<1>5. givenUp' \/ ClearsNothing(Len(queue) + 1)
  <2>1. CASE \E k \in Keys : disk[k] # None \/ Running(k)
    BY <2>1 DEF LogoutPosted
  <2>2. CASE \A k \in Keys : disk[k] = None /\ ~Running(k)
    <3>1. ASSUME NEW i \in 1 .. Len(queue) PROVE queue[i].op # "put"
      BY <2>2, Facts DEF QueueInv, OpInv, Running
    <3>2. Len(queue) \in Nat
      BY Facts
    <3> QED BY <2>2, <3>1, <3>2 DEF ClearsNothing, Rec
  <2> QED BY <2>1, <2>2
<1>6. QueueInv'
  <2>1. OpInv(o)'
    BY <1>1 DEF OpInv
  <2> QED BY <1>1, <1>2, <1>3, <1>5, <2>1, QueueGrows DEF LogoutPosted
<1> QED BY <1>4, <1>6, SessionKeeps DEF LogoutPosted

\* AppDies: the disk and the requests remain.
LEMMA AppDiesKeeps ==
    ASSUME IInv, AppDies
    PROVE  IInv'
<1>0. /\ app' = Started /\ UNCHANGED <<disk, user, task, known, givenUp, overtaken>>
      /\ hydrated' = FALSE /\ queue' = <<Hydrate>>
      /\ memory' = [k \in DOMAIN memory |-> None] /\ memory \in Records
      /\ req' = {[q EXCEPT !.awaited = FALSE] : q \in req}
  BY Facts DEF AppDies, hist
<1>1. /\ Started \in App /\ Started.screen = NoScreen
      /\ \A k \in Keys : Started.send[k] = NoSend /\ Started.check[k] = NoCheck
  BY Nulls DEF Started
<1>2. SameRequests /\ \A r \in req' : ~r.awaited
  <2>1. \A r \in req' : \E q \in req : r = [q EXCEPT !.awaited = FALSE]
    BY <1>0, Zenon
  <2>2. \A q \in req : [q EXCEPT !.awaited = FALSE] \in req'
    BY <1>0, Zenon
  <2>3. \A q \in req : q \in Request
    BY Facts
  <2>4. ASSUME NEW r \in req'
        PROVE  /\ r \in Request /\ ~r.awaited
               /\ \E q \in req : q.key = r.key /\ q.val = r.val /\ q.by = r.by
    <3>1. PICK q \in req : r = [q EXCEPT !.awaited = FALSE]
      BY <2>1, Zenon
    <3>2. q \in Request
      BY <2>3
    <3> QED BY <3>1, <3>2, Silenced
  <2>5. ASSUME NEW q \in req PROVE \E r \in req' : r.key = q.key
    BY <2>2, <2>3, Silenced
  <2> QED BY <2>4, <2>5 DEF SameRequests
<1>3. \A k \in Keys : Rec(k)' = Rec(k) /\ Fresh(k)' = Fresh(k) /\ ~Running(k)'
  BY <1>0, <1>1, <1>2, SameRequestsFresh, Nulls DEF Rec, Running
<1>4. /\ Hydrate \in Operation /\ Hydrate.op = "hydrate" /\ Hydrate.for = "none"
      /\ Hydrate.copy = None
  BY OpIs DEF Hydrate
<1>5. queue' \in Seq(Operation) /\ Len(queue') = 1 /\ queue'[1] = Hydrate
  BY <1>0, <1>4
<1>6. memory' \in Records /\ \A k \in Keys : memory'[k] = None
  BY <1>0 DEF Records
<1>7. TypeOK'
  <2>1. faults' \in 0 .. MaxFaults /\ leaving' \in BOOLEAN /\ UNCHANGED <<accepts, mayAssign>>
    <3>1. Fault /\ leaving' = FALSE /\ UNCHANGED rights
      BY Zenon DEF AppDies
    <3>2. faults \in 0 .. MaxFaults
      BY Facts DEF TypeOK
    <3>3. faults' \in 0 .. MaxFaults
      BY <3>1, <3>2 DEF Fault
    <3>4. UNCHANGED <<accepts, mayAssign>>
      BY <3>1 DEF rights
    <3> QED BY <3>1, <3>3, <3>4
  <2>2. req' \subseteq Request
    BY <1>2 DEF SameRequests
  <2>3. app' \in App
    BY <1>0, <1>1
  <2>4. UNCHANGED <<disk, user, task, known, givenUp, overtaken>> /\ hydrated' = FALSE
    BY <1>0
  <2> QED BY <2>1, <2>2, <2>3, <2>4, <1>5, <1>6, Facts DEF TypeOK, App
<1>8. QueueInv'
  <2>1. OpInv(Hydrate)'
    BY <1>4 DEF OpInv
  <2>2. \A i \in 1 .. Len(queue') : i = 1
    BY <1>5
  <2> QED BY <1>4, <1>5, <2>1, <2>2 DEF QueueInv
<1>9. MemoryInv'
  BY <1>0, <1>6, Facts DEF MemoryInv
<1>10. SessionInv'
  BY <1>0, <1>1, <1>2, <1>3, Nulls, Facts DEF SessionInv, SameRequests, screen
<1>11. SendInv'
  BY <1>0, <1>1, <1>2, Nulls DEF SendInv
<1>12. KeptInv'
  BY <1>0, <1>3, KeptStays
<1>13. ValueInv'
  BY <1>0, <1>2, <1>3, ValueStays DEF SameRequests
<1>14. FormInv'
  BY <1>0, <1>1, Nulls DEF FormInv, screen
<1>15. OneConversation'
  BY <1>3 DEF OneConversation
<1> QED BY <1>7, <1>8, <1>9, <1>10, <1>11, <1>12, <1>13, <1>14, <1>15 DEF IInv

-----------------------------------------------------------------------------
(* The server. *)

\* A request goes on: it is as before to everyone but the server.
LEMMA BecomesKeeps ==
    ASSUME IInv, NEW q \in req, NEW r \in Request, r.key = q.key, r.val = q.val, r.by = q.by,
           r.awaited = q.awaited, Becomes(q, r),
           UNCHANGED <<store, app, user, leaving, task, rights, hist, faults>>
    PROVE  IInv'
<1>0. /\ UNCHANGED <<disk, memory, hydrated, queue, known, givenUp, overtaken, accepts, mayAssign>>
      /\ req' = (req \ {q}) \cup {r}
  BY DEF store, rights, hist, Becomes
<1>1. SameRequests
  BY <1>0, Facts DEF SameRequests
<1>2. \A k \in Keys : Rec(k)' = Rec(k) /\ Fresh(k)' = Fresh(k) /\ Running(k)' = Running(k)
  BY <1>0, <1>1, SameRequestsFresh DEF Rec, Running
<1>3. TypeOK'
  BY <1>0, <1>1, Facts DEF TypeOK, SameRequests
<1>4. QueueInv'
  BY <1>0, QueueStays
<1>5. MemoryInv'
  BY <1>0, Facts DEF MemoryInv
<1>6. SessionInv'
  BY <1>0, <1>2, Facts DEF SessionInv, screen
<1>7. SendInv'
  <2>1. ASSUME NEW x \in req', x.awaited
        PROVE  /\ app.send[x.key].pc = "posted" /\ app.send[x.key].reply = "none"
               /\ x = r => q.awaited
    BY <1>0, <2>1, Facts DEF SendInv
  <2>2. ASSUME NEW x \in req', NEW y \in req', x.awaited, y.awaited, x.key = y.key
        PROVE  x = y
    <3>1. (x \in req \ {q} \/ x = r) /\ (y \in req \ {q} \/ y = r)
      BY <1>0
    <3>2. \A a, b \in req : a.awaited /\ b.awaited /\ a.key = b.key => a = b
      BY Facts DEF SendInv
    <3> QED BY <2>2, <3>1, <3>2
  <2> QED BY <1>0, <1>2, <2>1, <2>2, Facts DEF SendInv
<1>8. KeptInv'
  BY <1>0, <1>2, KeptStays
<1>9. ValueInv'
  BY <1>0, <1>1, <1>2, ValueStays DEF SameRequests
<1>10. FormInv'
  BY <1>0, <1>2, Facts DEF FormInv, screen
<1>11. OneConversation'
  BY <1>0, <1>2, Facts DEF OneConversation
<1> QED BY <1>3, <1>4, <1>5, <1>6, <1>7, <1>8, <1>9, <1>10, <1>11 DEF IInv

\* Authenticate: the request goes on.
LEMMA AuthenticateKeeps ==
    ASSUME IInv, NEW q \in req, Authenticate(q)
    PROVE  IInv'
<1> DEFINE r == [q EXCEPT !.pc = "authenticated", !.mayAssign = mayAssign]
<1>1. q \in Request /\ mayAssign \in BOOLEAN
  BY Facts DEF TypeOK
<1>2. /\ r \in Request /\ r.key = q.key /\ r.val = q.val /\ r.by = q.by
      /\ r.awaited = q.awaited
  BY <1>1 DEF Request
<1> QED BY <1>2, BecomesKeeps DEF Authenticate

\* Insert: the request goes on.
LEMMA InsertKeeps ==
    ASSUME IInv, NEW q \in req, Insert(q)
    PROVE  IInv'
<1> DEFINE r == [q EXCEPT !.pc = "inserted"]
<1>1. q \in Request
  BY Facts
<1>2. /\ r \in Request /\ r.key = q.key /\ r.val = q.val /\ r.by = q.by
      /\ r.awaited = q.awaited
  BY <1>1 DEF Request
<1> QED BY <1>2, BecomesKeeps DEF Insert

\* A request is over: its task is its own, and no refusal hides one.
LEMMA OverKeeps ==
    ASSUME IInv, NEW q \in req, req' = req \ {q}, TypeOK',
           app'.check = app.check, screen' = screen,
           \A k \in Keys :
              /\ app'.send[k].pc = app.send[k].pc /\ app'.send[k].val = app.send[k].val
              /\ app'.send[k].stale = app.send[k].stale
              /\ \/ app'.send[k].reply = app.send[k].reply
                 \/ /\ q.awaited /\ k = q.key
                    /\ app'.send[k].reply = "refused" => Fresh(k)' \/ givenUp
              /\ task'[k] = task[k] \/ (k = q.key /\ task'[k] = q.val),
           UNCHANGED <<store, user, hist>>
    PROVE  IInv'
<1>0. /\ UNCHANGED <<disk, memory, hydrated, queue, known, givenUp, overtaken>>
      /\ q \in Request
  BY Facts DEF store, hist
<1>1. \A k \in Keys :
         /\ Rec(k)' = Rec(k) /\ Running(k)' = Running(k)
         /\ Fresh(k) => Fresh(k)'
  BY <1>0 DEF Rec, Running, Fresh
<1>2. \A k \in Keys : ~Fresh(k)' => ~Fresh(k)
  <2>1. ASSUME NEW k \in Keys, Fresh(k) PROVE Fresh(k)'
    BY <1>1, <2>1
  <2> QED BY <2>1
<1>3. QueueInv'
  BY <1>0, QueueStays
<1>4. MemoryInv'
  BY <1>0, Facts DEF MemoryInv
<1>5. SessionInv'
  BY <1>0, <1>1, Facts DEF SessionInv
<1>6. SendInv'
  <2>1. q.awaited => app.send[q.key].pc = "posted"
    BY Facts DEF SendInv
  <2>2. ASSUME NEW r \in req', r.awaited
        PROVE  app'.send[r.key].pc = "posted" /\ app'.send[r.key].reply = "none"
    <3>1. r \in req /\ r # q /\ r.key \in Keys
      BY <2>2, Facts DEF Request
    <3>2. ~(q.awaited /\ r.key = q.key)
      BY <2>2, <3>1, Facts DEF SendInv
    <3>3. app.send[r.key].pc = "posted" /\ app.send[r.key].reply = "none"
      BY <2>2, <3>1, Facts DEF SendInv
    <3> QED BY <3>1, <3>2, <3>3
  <2>3. ASSUME NEW k \in Keys
        PROVE  LET s == app'.send[k] IN
               /\ s.pc # "idle" => s.val \in Values
               /\ s.reply # "none" => s.pc \in {"posted", "forgetting"}
               /\ s.pc = "forgetting" =>
                     CASE s.reply = "created" -> k \in known'
                       [] s.reply = "refused_ahead" -> overtaken'
                       [] s.reply = "refused" -> TRUE
                       [] OTHER -> FALSE
               /\ s.reply = "refused" => Fresh(k)' \/ givenUp'
    <3>1. LET s == app.send[k] IN
          /\ s.pc # "idle" => s.val \in Values
          /\ s.reply # "none" => s.pc \in {"posted", "forgetting"}
          /\ s.pc = "forgetting" =>
                CASE s.reply = "created" -> k \in known
                  [] s.reply = "refused_ahead" -> overtaken
                  [] s.reply = "refused" -> TRUE
                  [] OTHER -> FALSE
          /\ s.reply = "refused" => Fresh(k) \/ givenUp
      BY Facts DEF SendInv
    <3>2. CASE app'.send[k].reply = app.send[k].reply
      BY <1>0, <1>1, <3>1, <3>2
    <3>3. CASE app'.send[k].reply # app.send[k].reply
      BY <1>0, <2>1, <3>1, <3>3
    <3> QED BY <3>2, <3>3
  <2> QED BY <2>2, <2>3, Facts DEF SendInv
<1>7. KeptInv'
  BY <1>0, <1>1, <1>2, KeptStays
<1>8. ValueInv'
  BY <1>0, <1>1, ValueStays
<1>9. FormInv'
  BY <1>0, <1>1, Facts DEF FormInv
<1>10. OneConversation'
  BY <1>0, <1>1, Facts DEF OneConversation
<1> QED BY <1>3, <1>4, <1>5, <1>6, <1>7, <1>8, <1>9, <1>10 DEF IInv

\* Drop: the request is over and nobody hears of it.
LEMMA DropKeeps ==
    ASSUME IInv, NEW q \in req, Drop(q)
    PROVE  IInv'
<1>1. TypeOK'
  BY Facts DEF Drop, TypeOK, store, rights, hist
<1> QED BY <1>1, OverKeeps DEF Drop, screen

\* An answer: "refused" is said only when nothing was or will be created.
LEMMA AnswerKeeps ==
    ASSUME IInv, NEW q \in req, NEW reply \in {"created", "refused", "refused_ahead"},
           Answer(q, reply), reply = "refused" => Fresh(q.key)' \/ givenUp,
           task' \in {task, [task EXCEPT ![q.key] = q.val]},
           UNCHANGED <<store, user, leaving, rights, hist, faults>>
    PROVE  IInv'
<1>0. app \in App /\ q \in Request /\ q.key \in Keys /\ q.val \in Values
  BY Facts DEF Request
<1> DEFINE s == [app.send[q.key] EXCEPT !.reply = reply]
<1>1. /\ s.pc = app.send[q.key].pc /\ s.val = app.send[q.key].val
      /\ s.stale = app.send[q.key].stale /\ s.reply = reply
  BY <1>0, Parts DEF Sending
<1>2. app' = app \/ (q.awaited /\ SendChange(app', app, q.key, s))
  <2>1. reply \in Reply
    BY DEF Reply
  <2>2. app' = IF q.awaited THEN [app EXCEPT !.send[q.key].reply = reply] ELSE app
    BY DEF Answer
  <2>3. SendChange([app EXCEPT !.send[q.key].reply = reply], app, q.key, s)
    BY <1>0, <2>1, ReplySet
  <2> QED BY <2>2, <2>3
<1> HIDE DEF s
<1>3. /\ app' \in App /\ app'.check = app.check /\ screen' = screen
      /\ \A k \in Keys : \/ app'.send[k] = app.send[k]
                         \/ q.awaited /\ k = q.key /\ app'.send[k] = s
  BY <1>0, <1>2 DEF SendChange, screen
<1>4. \A k \in Keys : task'[k] = task[k] \/ (k = q.key /\ task'[k] = q.val)
  BY <1>0, Facts
<1>5. task' \in [Keys -> Values \cup {None}] /\ req' = req \ {q}
  BY <1>0, Facts DEF Answer
<1>6. TypeOK'
  BY <1>3, <1>5, Facts DEF TypeOK, App, store, rights, hist
<1> QED BY <1>1, <1>3, <1>4, <1>5, <1>6, OverKeeps

\* Replay: a mismatch needs a record that was given up.
LEMMA ReplayKeeps ==
    ASSUME IInv, NEW q \in req, Replay(q)
    PROVE  IInv'
<1> DEFINE reply == IF task[q.key] = q.val THEN "created" ELSE "refused"
<1>1. q.key \in Keys
  BY Facts DEF Request
<1>2. reply = "refused" => givenUp
  <2>1. task[q.key] # None
    BY DEF Replay
  <2> QED BY <1>1, <2>1, Facts DEF ValueInv, Agrees
<1>3. /\ Answer(q, reply) /\ reply \in {"created", "refused", "refused_ahead"}
      /\ UNCHANGED <<store, user, leaving, task, rights, hist, faults>>
  BY DEF Replay
<1> QED BY <1>2, <1>3, AnswerKeeps

\* Refuse: the last request under its key, or one with another on its way.
LEMMA RefuseKeeps ==
    ASSUME IInv, NEW q \in req, Refuse(q)
    PROVE  IInv'
<1> DEFINE reply == IF \E r \in Rivals(q) : r.pc # "inserted" THEN "refused_ahead" ELSE "refused"
<1>1. q.key \in Keys /\ q.by = Author
  BY Facts DEF Request, SessionInv
<1>2. /\ Answer(q, reply) /\ reply \in {"created", "refused", "refused_ahead"} /\ MyTurn(q)
      /\ task[q.key] = None /\ UNCHANGED <<store, user, leaving, task, rights, hist, faults>>
  BY <1>1 DEF Refuse
<1>3. reply = "refused" => Fresh(q.key)'
  <2>1. reply = "refused" => Rivals(q) = {}
    BY <1>2 DEF MyTurn
  <2>2. \A r \in req : r.by = q.by
    BY <1>1, Facts DEF SessionInv
  <2>3. req' = req \ {q} /\ task'[q.key] = None
    BY <1>2 DEF Answer
  <2> QED BY <2>1, <2>2, <2>3 DEF Rivals, Fresh
<1> QED BY <1>2, <1>3, AnswerKeeps

\* Commit: the task has the values of its key.
LEMMA CommitKeeps ==
    ASSUME IInv, NEW q \in req, Commit(q)
    PROVE  IInv'
BY AnswerKeeps DEF Commit

\* The phone gives up on an answer: its request goes on without it.
LEMMA AbandonedIs ==
    ASSUME req \subseteq Request, NEW k \in Keys, req' = Abandoned(k)
    PROVE  /\ SameRequests
           /\ \A r \in req' : r.awaited => r \in req /\ r.key # k
<1> DEFINE off(q) == IF q.key = k THEN [q EXCEPT !.awaited = FALSE] ELSE q
<1>1. /\ \A r \in req' : \E q \in req : r = off(q)
      /\ \A q \in req : off(q) \in req'
  BY Zenon DEF Abandoned
<1>2. ASSUME NEW q \in req
      PROVE  /\ off(q) \in Request /\ off(q).key = q.key /\ off(q).val = q.val
             /\ off(q).by = q.by /\ (off(q).awaited => off(q) = q /\ q.key # k)
  BY Silenced
<1> HIDE DEF off
<1>3. ASSUME NEW r \in req'
      PROVE  /\ r \in Request /\ (r.awaited => r \in req /\ r.key # k)
             /\ \E q \in req : q.key = r.key /\ q.val = r.val /\ q.by = r.by
  <2>1. PICK q \in req : r = off(q)
    BY <1>1
  <2> QED BY <1>2, <2>1
<1>4. ASSUME NEW q \in req PROVE \E r \in req' : r.key = q.key
  <2>1. off(q) \in req' /\ off(q).key = q.key
    BY <1>1, <1>2
  <2> QED BY <2>1
<1> QED BY <1>3, <1>4 DEF SameRequests

-----------------------------------------------------------------------------
(* A send ends, a question ends, a record goes. *)

\* Whatever it ended with, nobody has a create out any more; its record is gone
\* only when there is nothing to ask about.
LEMMA SendEndKeeps ==
    ASSUME IInv, TypeOK', QueueInv', MemoryInv', NEW k \in Keys, NEW outcome \in Ending, NEW list,
           Running(k), app' = EndSend(app, k, outcome, list),
           SameRequests, \A r \in req' : r.awaited => r \in req /\ r.key # k,
           UNCHANGED <<user, task, known, overtaken>>, givenUp => givenUp',
           \A j \in Keys \ {k} : disk'[j] = disk[j],
           disk'[k] \in {None, disk[k], app.send[k].val},
           Rec(k) /\ ~Rec(k)' =>
               /\ outcome \in {"created", "refused"}
               /\ k \in known \/ Fresh(k) \/ givenUp' \/ overtaken
    PROVE  IInv'
<1>0. app \in App /\ (screen.open \/ screen = NoScreen)
  BY ScreenWhole, Facts
<1>1. /\ app' \in App /\ app'.send = [app.send EXCEPT ![k] = NoSend]
      /\ app'.check = [app.check EXCEPT ![k] = AfterJoin(app.check[k], outcome)]
      /\ Settles(screen', screen)
      /\ outcome \in {"created", "refused"} /\ screen.open /\ Watching(app, k) =>
             screen'.key = None
  BY <1>0, EndSendIs DEF screen
<1>2. /\ app'.send[k] = NoSend /\ \A j \in Keys \ {k} : app'.send[j] = app.send[j]
      /\ \A j \in Keys \ {k} : app'.check[j] = app.check[j]
      /\ app'.check[k].pc # "joining"
      /\ app.check[k].pc # "joining" => app'.check[k] = app.check[k]
  BY <1>0, <1>1, Parts, AfterJoinIs
<1>3. \A j \in Keys \ {k} : ~Running(j) /\ ~Rec(j) /\ ~Rec(j)'
  BY Facts DEF KeptInv, Rec
<1>4. \A j \in Keys : ~Running(j)' /\ Fresh(j)' = Fresh(j)
  <2>1. ~Running(k)'
    BY <1>2, Nulls DEF Running
  <2>2. \A j \in Keys \ {k} : ~Running(j)'
    BY <1>2, <1>3 DEF Running
  <2> QED BY <2>1, <2>2, SameRequestsFresh
<1>5. SessionInv'
  <2>1. screen'.open => screen.open
    BY <1>1, Nulls DEF Settles
  <2>2. ~screen'.open => screen' = NoScreen
    BY <1>1 DEF Settles
  <2>3. \A q \in req' : q.by = Author
    BY Facts DEF SessionInv, SameRequests
  <2> QED BY <1>4, <2>1, <2>2, <2>3, Facts DEF SessionInv
<1>6. SendInv'
  <2>1. ASSUME NEW r \in req', r.awaited
        PROVE  app'.send[r.key].pc = "posted" /\ app'.send[r.key].reply = "none"
    <3>1. r \in req /\ r.key \in Keys \ {k}
      BY <2>1, Facts DEF Request
    <3> QED BY <1>2, <2>1, <3>1, Facts DEF SendInv
  <2>2. \A q, r \in req' : q.awaited /\ r.awaited /\ q.key = r.key => q = r
    BY Facts DEF SendInv
  <2>3. ASSUME NEW j \in Keys
        PROVE  LET s == app'.send[j] IN
               /\ s.pc = "idle"
               /\ s.reply # "none" => s.pc \in {"posted", "forgetting"}
               /\ s.reply = "refused" => Fresh(j)' \/ givenUp'
    BY <1>2, <1>4, Nulls, Facts DEF SendInv, Running
  <2> QED BY <2>1, <2>2, <2>3 DEF SendInv
<1>7. KeptInv'
  BY <1>3, <1>4, KeptStays
<1>8. ValueInv'
  <2>1. \A j \in Keys : disk'[j] \in {None, disk[j]} \/ (Running(j) /\ disk'[j] = app.send[j].val)
    BY <1>3
  <2> QED BY <1>4, <2>1, ValueStays DEF SameRequests
<1>9. FormInv'
  <2>1. ASSUME NEW j \in Keys, screen'.key = j
        PROVE  Rec(j)' \/ givenUp' \/ known' # {} \/
                  (Fresh(j)' /\ app'.check[j].pc \notin {"joining", "asking"})
    <3>1. screen.key = j /\ screen.open
      BY <1>1, <2>1, Nulls DEF Settles
    <3>2. /\ Running(j) => screen.saving \/ (screen.phase = "sending" /\ screen.panel = j)
          /\ Rec(j) \/ givenUp \/ known # {} \/
                (Fresh(j) /\ app.check[j].pc \notin {"joining", "asking"})
      BY <3>1, Facts DEF FormInv
    <3>3. CASE Rec(j) /\ ~Rec(j)'
      <4>1. j = k
        BY <1>3, <3>3
      <4>2. Watching(app, k)
        BY <3>1, <3>2, <4>1 DEF Watching, screen
      <4> QED BY <1>1, <2>1, <3>1, <3>3, <4>1, <4>2
    <3>4. CASE Fresh(j) /\ app.check[j].pc \notin {"joining", "asking"}
      BY <1>2, <1>4, <3>4
    <3> QED BY <3>2, <3>3, <3>4
  <2>2. ASSUME NEW j \in Keys, screen'.panel = j, screen'.phase \in {"not_found", "sending"}
        PROVE  app'.check[j].pc \notin {"joining", "asking"}
    <3>1. screen.panel = j /\ screen.phase \in {"not_found", "sending"}
      BY <1>1, <2>2, Nulls DEF Settles
    <3>2. app.check[j].pc \notin {"joining", "asking"}
      BY <3>1, Facts DEF FormInv
    <3> QED BY <1>2, <3>2
  <2> QED BY <1>4, <2>1, <2>2 DEF FormInv
<1>10. OneConversation'
  BY <1>4 DEF OneConversation
<1> QED BY <1>5, <1>6, <1>7, <1>8, <1>9, <1>10 DEF IInv

\* SendUnknown: the record stays.
LEMMA SendUnknownKeeps ==
    ASSUME IInv, NEW k \in Keys, SendUnknown(k)
    PROVE  IInv'
<1>1. /\ app' = EndSend(app, k, "unknown", memory) /\ req' = Abandoned(k)
      /\ UNCHANGED <<disk, memory, hydrated, queue, user, leaving, task, accepts, mayAssign,
                     known, givenUp, overtaken>>
      /\ Fault /\ app.send[k].pc = "posted"
  BY Zenon DEF SendUnknown, store, rights, hist
<1>2. SameRequests /\ \A r \in req' : r.awaited => r \in req /\ r.key # k
  BY <1>1, Facts, AbandonedIs
<1>3. app' \in App /\ \A j \in Keys \ {k} : app'.send[j] = app.send[j]
  <2>1. screen.open \/ screen = NoScreen
    BY ScreenWhole
  <2>2. app' \in App /\ app'.send = [app.send EXCEPT ![k] = NoSend]
    BY <1>1, <2>1, Facts, EndSendIs, ZenonT(30) DEF Ending, screen
  <2> QED BY <2>2, Facts, Parts
<1>4. TypeOK'
  BY <1>1, <1>2, <1>3, Facts DEF Fault, TypeOK, App, SameRequests
<1>5. QueueInv'
  BY <1>1, <1>3, QueueStays
<1>6. MemoryInv'
  BY <1>1, Facts DEF MemoryInv
<1> QED BY <1>1, <1>2, <1>4, <1>5, <1>6, SendEndKeeps DEF Ending, Running, Rec

\* A question is answered or a record is gone: it was given up, or its task is known.
LEMMA ForgotKeeps ==
    ASSUME IInv, TypeOK', QueueInv', MemoryInv', NEW list,
           app'.send = app.send,
           \A j \in Keys : app'.check[j].pc \in {app.check[j].pc, "idle"},
           screen' = NoScreen \/ Shows(screen', app, list),
           UNCHANGED <<user, req, task, known, overtaken>>, givenUp => givenUp',
           \A j \in Keys : disk'[j] \in {None, disk[j]},
           \A j \in Keys : Rec(j) /\ ~Rec(j)' => givenUp' \/ j \in known
    PROVE  IInv'
<1>0. app \in App /\ (screen.open \/ screen = NoScreen) /\ screen \in Screen
  BY ScreenWhole, Facts, ScreenParts DEF screen
<1>1. \/ screen' = NoScreen
      \/ screen' = screen
      \/ screen' = Closed(screen) /\ screen.panel \notin PendingIn(app, list)
  BY DEF Shows, screen
<1>2. \A j \in Keys : Running(j)' = Running(j) /\ Fresh(j)' = Fresh(j) /\ (Rec(j)' => Rec(j))
  BY DEF Running, Fresh, Rec
<1>3. SessionInv'
  <2>1. screen'.open => screen.open
    BY <1>0, <1>1, ClosedIs, Nulls
  <2>2. ~screen'.open => screen' = NoScreen
    BY <1>0, <1>1, ClosedIs, Nulls
  <2> QED BY <1>2, <2>1, <2>2, Facts DEF SessionInv
<1>4. SendInv'
  BY <1>2, Facts DEF SendInv
<1>5. KeptInv'
  BY <1>2, KeptStays
<1>6. ValueInv'
  BY <1>2, ValueStays
<1>7. FormInv'
  <2>1. ASSUME NEW j \in Keys, screen'.key = j
        PROVE  /\ Running(j)' => screen'.saving \/ (screen'.phase = "sending" /\ screen'.panel = j)
               /\ Rec(j)' \/ givenUp' \/ known' # {} \/
                     (Fresh(j)' /\ app'.check[j].pc \notin {"joining", "asking"})
    <3>1. screen.key = j /\ screen' # NoScreen
      BY <1>0, <1>1, <2>1, ClosedIs, Nulls
    <3>2. /\ Running(j) => screen.saving \/ (screen.phase = "sending" /\ screen.panel = j)
          /\ Rec(j) \/ givenUp \/ known # {} \/
                (Fresh(j) /\ app.check[j].pc \notin {"joining", "asking"})
      BY <3>1, Facts DEF FormInv
    <3>3. Running(j)' => screen'.saving \/ (screen'.phase = "sending" /\ screen'.panel = j)
      <4>1. Running(j) => j \in PendingIn(app, list)
        BY DEF Running, PendingIn
      <4> QED BY <1>0, <1>1, <1>2, <3>1, <3>2, <4>1, ClosedIs
    <3>4. app'.check[j].pc \in {app.check[j].pc, "idle"}
      OBVIOUS
    <3>5. Rec(j) /\ ~Rec(j)' => givenUp' \/ known' # {}
      OBVIOUS
    <3> QED BY <1>2, <3>2, <3>3, <3>4, <3>5
  <2>2. ASSUME NEW j \in Keys, screen'.panel = j, screen'.phase \in {"not_found", "sending"}
        PROVE  app'.check[j].pc \notin {"joining", "asking"}
    <3>1. screen.panel = j /\ screen.phase \in {"not_found", "sending"}
      BY <1>0, <1>1, <2>2, ClosedIs, Nulls
    <3>2. app.check[j].pc \notin {"joining", "asking"}
      BY <3>1, Facts DEF FormInv
    <3>3. app'.check[j].pc \in {app.check[j].pc, "idle"}
      OBVIOUS
    <3> QED BY <3>2, <3>3
  <2> QED BY <2>1, <2>2 DEF FormInv
<1>8. OneConversation'
  <2>1. \A j \in Keys : app'.check[j].pc = "asking" => app.check[j].pc = "asking"
    OBVIOUS
  <2> QED BY <1>2, <2>1, Facts DEF OneConversation
<1> QED BY <1>3, <1>4, <1>5, <1>6, <1>7, <1>8 DEF IInv

-----------------------------------------------------------------------------
(* The disk. *)

\* The operation whose turn it is.
LEMMA HeadIs ==
    ASSUME IInv, queue # <<>>, NEW o, o = Head(queue)
    PROVE  /\ o \in Operation /\ OpInv(o) /\ (o.op = "clear" => givenUp \/ \A k \in Keys : ~Rec(k))
           /\ o.op \in {"put", "remove", "clear", "hydrate"}
           /\ o.for \in {"send", "check", "discard", "none"}
           /\ queue \in Seq(Operation) /\ Tail(queue) \in Seq(Operation)
<1>1. /\ queue \in Seq(Operation) /\ 1 \in 1 .. Len(queue) /\ queue[1] = Head(queue)
      /\ Tail(queue) \in Seq(Operation)
  BY Facts
<1>2. OpInv(queue[1]) /\ (queue[1].op = "clear" => givenUp \/ ClearsNothing(1))
  BY <1>1, Facts DEF QueueInv
<1> QED BY <1>1, <1>2, QueueTyped DEF ClearsNothing

\* What an operation makes of the records: another account's is left alone.
LEMMA AppliedIs ==
    ASSUME IInv, NEW o \in Operation, OpInv(o)
    PROVE  LET list == Applied(o, disk)
           IN  /\ list \in Records /\ list[Foreign] = disk[Foreign]
               /\ o.op = "put" =>
                     /\ o.key \in Keys /\ Running(o.key) /\ o.val = app.send[o.key].val
                     /\ o.val \in Values /\ list[o.key] = o.val
                     /\ \A j \in Keys \ {o.key} : list[j] = disk[j]
               /\ o.op = "remove" =>
                     /\ o.key \in Keys /\ list[o.key] = None
                     /\ \A j \in Keys \ {o.key} : list[j] = disk[j]
               /\ o.op = "clear" => \A j \in Keys : list[j] = None
               /\ o.op = "hydrate" => list = disk
<1>0. disk \in Records /\ Foreign \notin Keys /\ DOMAIN disk = Keys \cup {Foreign}
  BY Facts DEF Records
<1>1. CASE o.op = "put"
  <2>1. /\ o.key \in Keys /\ Running(o.key) /\ o.val = app.send[o.key].val /\ o.val \in Values
    BY <1>1, Facts DEF OpInv, Running, SendInv
  <2>2. Applied(o, disk) = [disk EXCEPT ![o.key] = o.val]
    BY <1>1 DEF Applied
  <2> QED BY <1>0, <1>1, <2>1, <2>2 DEF Records
<1>2. CASE o.op = "remove"
  <2>1. o.key \in Keys
    BY <1>2 DEF OpInv
  <2>2. Applied(o, disk) = [disk EXCEPT ![o.key] = None]
    BY <1>2 DEF Applied
  <2> QED BY <1>0, <1>2, <2>1, <2>2 DEF Records
<1>3. CASE o.op = "clear"
  <2>1. Applied(o, disk) = [k \in Keys \cup {Foreign} |-> IF Owner(k) = Author THEN None ELSE disk[k]]
    BY <1>0, <1>3 DEF Applied
  <2>2. Owner(Foreign) # Author /\ \A k \in Keys : Owner(k) = Author
    BY <1>0 DEF Owner
  <2> QED BY <1>0, <1>3, <2>1, <2>2 DEF Records
<1>4. CASE o.op = "hydrate"
  BY <1>0, <1>4 DEF Applied
<1> QED BY <1>1, <1>2, <1>3, <1>4 DEF Operation

\* Written: the phone's memory is what is on its disk.
LEMMA WriteIs ==
    ASSUME IInv, DiskWrite, NEW o, o = Head(queue), NEW list, list = Applied(o, disk)
    PROVE  /\ queue # <<>> /\ disk' = list /\ memory' = list /\ hydrated' = TRUE
           /\ queue' = Tail(queue) /\ MemoryInv'
           /\ givenUp' = (givenUp \/ o.for = "discard")
           /\ UNCHANGED <<user, leaving, task, accepts, mayAssign, known, overtaken, faults>>
           /\ IF o.op = "put" THEN PutWritten(o.key, list) ELSE RemoveSettled(o, list)
<1>0. queue # <<>> /\ o.copy = disk
  BY HeadIs DEF DiskWrite, OpInv
<1>1. o.op = "hydrate" => list = disk
  BY DEF Applied
<1>2. /\ disk' = list /\ memory' = list /\ hydrated' = TRUE
      /\ queue' = Tail(queue)
      /\ givenUp' = (givenUp \/ o.for = "discard")
      /\ UNCHANGED <<user, leaving, task, accepts, mayAssign, known, overtaken, faults>>
      /\ IF o.op = "put" THEN PutWritten(o.key, list) ELSE RemoveSettled(o, list)
  BY <1>0, <1>1 DEF DiskWrite, rights
<1>3. list[Foreign] = disk[Foreign]
  BY <1>0, HeadIs, AppliedIs
<1>4. MemoryInv'
  BY <1>2, <1>3, Facts DEF MemoryInv
<1> QED BY <1>0, <1>2, <1>4

\* The record is on the disk and its request leaves.
LEMMA PutSentKeeps ==
    ASSUME IInv, DiskWrite, Head(queue).op = "put", SameSession(Head(queue).key)
    PROVE  IInv'
<1>0. PICK o : o = Head(queue)
  OBVIOUS
<1>1. PICK list : list = Applied(o, disk)
  OBVIOUS
<1>2. PICK k : k = o.key
  OBVIOUS
<1>3. queue # <<>> /\ o \in Operation /\ OpInv(o) /\ Tail(queue) \in Seq(Operation)
  BY <1>0, HeadIs DEF DiskWrite
<1>4. /\ k \in Keys /\ Running(k) /\ list[k] = app.send[k].val /\ app.send[k].val \in Values
      /\ \A j \in Keys \ {k} : list[j] = disk[j]
      /\ list \in Records /\ app.send[k].pc = "putting" /\ o.for = "send"
  BY <1>0, <1>1, <1>2, <1>3, AppliedIs DEF OpInv
<1>5. /\ disk' = list /\ memory' = list /\ hydrated' = TRUE /\ queue' = Tail(queue) /\ MemoryInv'
      /\ givenUp' = givenUp
      /\ UNCHANGED <<user, leaving, task, accepts, mayAssign, known, overtaken, faults>>
      /\ PutWritten(k, list)
  <2>1. /\ disk' = list /\ memory' = list /\ hydrated' = TRUE /\ queue' = Tail(queue)
        /\ MemoryInv' /\ givenUp' = (givenUp \/ o.for = "discard")
        /\ UNCHANGED <<user, leaving, task, accepts, mayAssign, known, overtaken, faults>>
        /\ IF o.op = "put" THEN PutWritten(o.key, list) ELSE RemoveSettled(o, list)
    BY <1>0, <1>1, WriteIs
  <2>2. givenUp \in BOOLEAN
    BY Facts DEF TypeOK
  <2> QED BY <1>0, <1>2, <1>4, <2>1, <2>2
<1> DEFINE s == [app.send[k] EXCEPT !.pc = "posted"]
           c == Created(k)
<1>6. app \in App /\ app.send[k] \in Sending /\ ~app.send[k].stale /\ user = Author
  BY <1>0, <1>2, <1>4, Facts, Parts DEF SameSession, SessionInv
<1>7. /\ s.pc = "posted" /\ s.val = app.send[k].val /\ s.reply = "none"
      /\ s.stale = app.send[k].stale
  BY <1>4, <1>6, Facts DEF Sending, SendInv
<1>8. /\ c \in Request /\ c.key = k /\ c.val = app.send[k].val /\ c.by = Author
  BY <1>4, <1>6 DEF Created, Request
<1>9. SendChange(app', app, k, s) /\ req' = req \cup {c}
  <2>1. app' = [app EXCEPT !.send[k].pc = "posted"] /\ req' = req \cup {Created(k)}
    BY <1>5, <1>6 DEF PutWritten, SameSession
  <2>2. SendChange([app EXCEPT !.send[k].pc = "posted"], app, k, s)
    BY <1>4, <1>6, PcSet DEF SendPc
  <2> QED BY <2>1, <2>2
<1> HIDE DEF s, c
<1>10. /\ app' \in App /\ app'.check = app.check /\ screen' = screen /\ app'.send[k] = s
       /\ \A j \in Keys \ {k} : app'.send[j] = app.send[j]
  BY <1>9 DEF SendChange, screen
<1>11. /\ \A j \in Keys \ {k} : ~Running(j) /\ ~Rec(j) /\ Rec(j)' = Rec(j) /\ Fresh(j)' = Fresh(j)
       /\ \A j \in Keys : Running(j)' = Running(j) /\ (Rec(j) => Rec(j)')
       /\ Rec(k)' /\ Running(k)
  <2>1. \A j \in Keys \ {k} : ~Running(j) /\ ~Rec(j)
    BY <1>4, Facts DEF KeptInv
  <2>2. \A j \in Keys \ {k} : Rec(j)' = Rec(j) /\ Fresh(j)' = Fresh(j)
    BY <1>4, <1>5, <1>8, <1>9 DEF Rec, Fresh
  <2>3. \A j \in Keys : Running(j)' = Running(j)
    BY <1>4, <1>7, <1>10 DEF Running
  <2>4. Rec(k)'
    BY <1>4, <1>5 DEF Rec
  <2> QED BY <1>4, <2>1, <2>2, <2>3, <2>4
<1>12. TypeOK'
  BY <1>3, <1>4, <1>5, <1>8, <1>9, <1>10, Facts DEF TypeOK, App
<1>13. QueueInv'
  BY <1>0, <1>3, <1>4, <1>5, QueueShrinks, Facts DEF OpInv
<1>14. SessionInv'
  <2>1. \A q \in req' : q.by = Author
    BY <1>8, <1>9, Facts DEF SessionInv
  <2> QED BY <1>5, <1>6, <1>10, <2>1, Facts DEF SessionInv
<1>15. SendInv'
  <2>1. \A q \in req : q.awaited => q.key \in Keys \ {k}
    BY <1>4, Facts DEF SendInv, Request
  <2>2. ASSUME NEW q \in req', q.awaited
        PROVE  app'.send[q.key].pc = "posted" /\ app'.send[q.key].reply = "none"
    <3>1. CASE q \in req
      <4>1. q.key \in Keys \ {k} /\ app.send[q.key].pc = "posted" /\ app.send[q.key].reply = "none"
        BY <2>1, <2>2, <3>1, Facts DEF SendInv
      <4> QED BY <1>10, <4>1
    <3>2. CASE q = c
      BY <1>7, <1>8, <1>10, <3>2
    <3> QED BY <1>9, <3>1, <3>2
  <2>3. ASSUME NEW q \in req', NEW r \in req', q.awaited, r.awaited, q.key = r.key PROVE q = r
    BY <1>8, <1>9, <2>1, <2>3, Facts DEF SendInv
  <2>4. ASSUME NEW j \in Keys \ {k}
        PROVE  app'.send[j].pc = "idle" /\ app'.send[j].reply = "none"
    BY <1>10, <1>11, Facts DEF SendInv, Running
  <2> QED BY <1>4, <1>7, <1>10, <2>2, <2>3, <2>4 DEF SendInv
<1>16. KeptInv'
  <2>1. \A j \in Keys : /\ Rec(j)' \/ Running(j)' => Rec(j) \/ Running(j)
                        /\ ~Fresh(j)' => ~Fresh(j) \/ Running(j)
                        /\ ~Fresh(j)' => Rec(j)' \/ (~Fresh(j) /\ (Rec(j) => Rec(j)'))
    BY <1>11
  <2> QED BY <1>5, <2>1, KeptStays
<1>17. ValueInv'
  <2>1. CASE givenUp
    BY <1>5, <2>1 DEF ValueInv
  <2>2. CASE ~givenUp
    <3>1. ASSUME NEW j \in Keys PROVE \E v \in Values : Agrees(j, v)'
      <4>1. PICK v \in Values : Agrees(j, v)
        BY <2>2, Facts DEF ValueInv
      <4>2. CASE j = k
        <5>1. v = app.send[k].val
          BY <1>4, <4>1, <4>2 DEF Agrees
        <5> QED BY <1>4, <1>5, <1>7, <1>8, <1>9, <1>10, <4>1, <4>2, <5>1 DEF Agrees
      <4>3. CASE j # k
        BY <1>4, <1>5, <1>8, <1>9, <1>10, <1>11, <4>1, <4>3 DEF Agrees
      <4> QED BY <4>2, <4>3
    <3> QED BY <3>1 DEF ValueInv
  <2> QED BY <2>1, <2>2
<1>18. FormInv'
  <2>1. ASSUME NEW j \in Keys, screen.key = j
        PROVE  /\ Running(j)' => screen.saving \/ (screen.phase = "sending" /\ screen.panel = j)
               /\ Rec(j)' \/ givenUp \/ known # {} \/
                     (Fresh(j)' /\ app.check[j].pc \notin {"joining", "asking"})
    BY <1>11, <2>1, Facts DEF FormInv
  <2>2. \A j \in Keys : screen.panel = j /\ screen.phase \in {"not_found", "sending"} =>
              app.check[j].pc \notin {"joining", "asking"}
    BY Facts DEF FormInv
  <2> QED BY <1>5, <1>10, <2>1, <2>2 DEF FormInv
<1>19. OneConversation'
  BY <1>5, <1>10, <1>11, Facts DEF OneConversation
<1> QED BY <1>5, <1>12, <1>13, <1>14, <1>15, <1>16, <1>17, <1>18, <1>19 DEF IInv

\* Requests that nothing happened to.
LEMMA SameIsSame ==
    ASSUME IInv, req' = req, NEW k \in Keys, app.send[k].pc # "posted"
    PROVE  SameRequests /\ \A r \in req' : r.awaited => r \in req /\ r.key # k
BY Facts DEF SameRequests, SendInv

\* The record of a create whose session is over, or which could not be written:
\* nothing is sent.
LEMMA PutEndsKeeps ==
    ASSUME IInv, queue # <<>>, NEW o, o = Head(queue), o.op = "put", NEW list,
           NEW outcome \in {"unknown", "not_saved"}, app' = EndSend(app, o.key, outcome, list),
           queue' = Tail(queue), disk' \in Records, memory' \in Records, hydrated' \in BOOLEAN,
           MemoryInv', faults' \in 0 .. MaxFaults,
           UNCHANGED <<req, user, leaving, task, accepts, mayAssign, known, givenUp, overtaken>>,
           \A j \in Keys \ {o.key} : disk'[j] = disk[j],
           disk'[o.key] \in {disk[o.key], o.val}
    PROVE  IInv'
<1>0. PICK k : k = o.key
  OBVIOUS
<1>1. /\ o \in Operation /\ OpInv(o) /\ Tail(queue) \in Seq(Operation) /\ o.for = "send"
      /\ k \in Keys /\ Running(k) /\ o.val = app.send[k].val /\ o.val \in Values
      /\ app.send[k].pc = "putting"
  BY <1>0, HeadIs, AppliedIs DEF OpInv
<1>2. app' \in App
  BY <1>0, <1>1, ScreenWhole, Facts, EndSendIs DEF Ending, screen
<1>3. TypeOK'
  BY <1>1, <1>2, Facts DEF TypeOK, App
<1>4. QueueInv'
  BY <1>1, QueueShrinks
<1>5. SameRequests /\ \A r \in req' : r.awaited => r \in req /\ r.key # k
  BY <1>1, SameIsSame
<1>6. /\ ~(Rec(k) /\ ~Rec(k)') /\ disk'[k] \in {None, disk[k], app.send[k].val}
      /\ \A j \in Keys \ {k} : disk'[j] = disk[j]
  BY <1>0, <1>1 DEF Rec
<1> QED BY <1>0, <1>1, <1>3, <1>4, <1>5, <1>6, SendEndKeeps DEF Ending

\* What awaited a removal goes on, whether or not it was written.
LEMMA SettledKeeps ==
    ASSUME IInv, queue # <<>>, NEW o, o = Head(queue), o.op # "put", NEW list,
           RemoveSettled(o, list),
           queue' = Tail(queue), disk' \in Records, memory' \in Records, hydrated' \in BOOLEAN,
           MemoryInv', faults' \in 0 .. MaxFaults, givenUp => givenUp', givenUp' \in BOOLEAN,
           UNCHANGED <<user, leaving, task, accepts, mayAssign, known, overtaken>>,
           \A j \in Keys : disk'[j] \in {None, disk[j]},
           \A j \in Keys : Rec(j) /\ ~Rec(j)' =>
               givenUp' \/ (o.op = "remove" /\ o.key = j /\ o.for # "discard")
    PROVE  IInv'
<1>0. /\ o \in Operation /\ OpInv(o) /\ Tail(queue) \in Seq(Operation)
      /\ o.op \in {"put", "remove", "clear", "hydrate"}
      /\ o.for \in {"send", "check", "discard", "none"}
      /\ app \in App /\ (screen.open \/ screen = NoScreen)
  BY HeadIs, ScreenWhole, Facts
<1>1. /\ req' = req
      /\ o.for = "send" =>
             app' = EndSend(app, o.key, Outcome(app.send[o.key].reply), list)
      /\ o.for = "check" => app' = EndCheck(app, o.key, list)
      /\ o.for \notin {"send", "check"} => app' = Shown(app, list)
  BY DEF RemoveSettled
<1>2. \A j \in Keys : ~Rec(j) => ~Rec(j)'
  BY DEF Rec
<1>3. ASSUME app' \in App PROVE TypeOK'
  BY <1>0, <1>1, <1>3, Facts DEF TypeOK, App
<1>4. CASE o.for = "send"
  <2>1. PICK k : k = o.key
    OBVIOUS
  <2>2. o.op = "remove" /\ k \in Keys /\ app.send[k].pc = "forgetting" /\ Running(k)
    BY <1>0, <1>4, <2>1 DEF OpInv, Running
  <2>3. PICK outcome : outcome = Outcome(app.send[k].reply)
    OBVIOUS
  <2>4. /\ outcome \in {"created", "refused"} /\ outcome \in Ending
        /\ app' = EndSend(app, k, outcome, list)
    BY <1>1, <1>4, <2>1, <2>3 DEF Outcome, Ending
  <2>5. app' \in App
    BY <1>0, <2>2, <2>4, EndSendIs DEF screen
  <2>6. QueueInv'
    BY <1>2, <1>4, QueueShrinks
  <2>7. SameRequests /\ \A r \in req' : r.awaited => r \in req /\ r.key # k
    BY <1>1, <2>2, SameIsSame
  <2>8. \A j \in Keys \ {k} : disk'[j] = disk[j]
    <3>1. \A j \in Keys \ {k} : ~Rec(j)
      BY <2>2, Facts DEF KeptInv
    <3> QED BY <3>1 DEF Rec
  <2>9. k \in known \/ Fresh(k) \/ givenUp' \/ overtaken
    BY <2>2, Facts DEF SendInv
  <2>10. disk'[k] \in {None, disk[k], app.send[k].val}
    BY <2>2
  <2> QED BY <1>3, <2>2, <2>4, <2>5, <2>6, <2>7, <2>8, <2>9, <2>10, SendEndKeeps
<1>5. CASE o.for = "check"
  <2>1. PICK k : k = o.key
    OBVIOUS
  <2>2. o.op = "remove" /\ k \in Keys /\ k \in known
    BY <1>0, <1>5, <2>1 DEF OpInv
  <2>3. /\ app' \in App /\ app'.send = app.send /\ app'.check = [app.check EXCEPT ![k] = NoCheck]
        /\ screen' = NoScreen \/ Shows(screen', app, list)
    <3>1. app.screen.open \/ app.screen = NoScreen
      BY <1>0 DEF screen
    <3>2. app' = EndCheck(app, k, list)
      BY <1>1, <1>5, <2>1
    <3>3. screen' = app'.screen
      BY DEF screen
    <3>4. PICK x : x = EndCheck(app, k, list)
      OBVIOUS
    <3>5. /\ x \in App /\ x.send = app.send /\ x.check = [app.check EXCEPT ![k] = NoCheck]
          /\ x.screen = NoScreen \/ Shows(x.screen, app, list)
      BY <1>0, <2>2, <3>1, <3>4, EndCheckIs, ZenonT(30)
    <3> QED BY <3>2, <3>3, <3>4, <3>5
  <2>4. \A j \in Keys : app'.check[j].pc \in {app.check[j].pc, "idle"}
    BY <1>0, <2>3, Parts, Nulls
  <2>5. QueueInv'
    BY <1>2, <1>5, <2>3, QueueShrinks
  <2>6. \A j \in Keys : Rec(j) /\ ~Rec(j)' => givenUp' \/ j \in known
    BY <2>1, <2>2
  <2> QED BY <1>1, <1>3, <2>3, <2>4, <2>5, <2>6, ForgotKeeps
<1>6. CASE o.for \notin {"send", "check"}
  <2>1. /\ app' \in App /\ app'.send = app.send /\ app'.check = app.check
        /\ Shows(screen', app, list)
    <3>1. app' = Shown(app, list) /\ screen' = app'.screen
      BY <1>1, <1>6 DEF screen
    <3>2. ASSUME NEW x, x = Shown(app, list)
          PROVE  /\ x \in App /\ x.send = app.send /\ x.check = app.check
                 /\ Shows(x.screen, app, list)
      BY <1>0, <3>2, ShownIs DEF Shows, Closed
    <3> QED BY <3>1, <3>2
  <2>2. QueueInv'
    BY <1>2, <1>6, <2>1, QueueShrinks
  <2>3. \A j \in Keys : Rec(j) /\ ~Rec(j)' => givenUp' \/ j \in known
    BY <1>0, <1>6 DEF OpInv
  <2> QED BY <1>1, <1>3, <2>1, <2>2, <2>3, ForgotKeeps
<1> QED BY <1>4, <1>5, <1>6

\* DiskWrite, operation by operation.
LEMMA DiskWriteKeeps ==
    ASSUME IInv, DiskWrite
    PROVE  IInv'
<1>0. PICK o : o = Head(queue)
  OBVIOUS
<1>1. PICK list : list = Applied(o, disk)
  OBVIOUS
<1>2. /\ queue # <<>> /\ disk' = list /\ memory' = list /\ hydrated' = TRUE
      /\ queue' = Tail(queue) /\ MemoryInv'
      /\ givenUp' = (givenUp \/ o.for = "discard")
      /\ UNCHANGED <<user, leaving, task, accepts, mayAssign, known, overtaken, faults>>
      /\ IF o.op = "put" THEN PutWritten(o.key, list) ELSE RemoveSettled(o, list)
  BY <1>0, <1>1, WriteIs
<1>3. /\ o \in Operation /\ OpInv(o) /\ (o.op = "clear" => givenUp \/ \A k \in Keys : ~Rec(k))
      /\ o.op \in {"put", "remove", "clear", "hydrate"}
  BY <1>0, <1>2, HeadIs
<1>4. /\ list \in Records /\ faults \in 0 .. MaxFaults /\ givenUp \in BOOLEAN
  BY <1>1, <1>3, AppliedIs, Facts DEF TypeOK
<1>5. CASE o.op = "put" /\ SameSession(o.key)
  BY <1>0, <1>5, PutSentKeeps
<1>6. CASE o.op = "put" /\ ~SameSession(o.key)
  <2>1. /\ o.for = "send" /\ list[o.key] = o.val
        /\ \A j \in Keys \ {o.key} : list[j] = disk[j]
    BY <1>1, <1>3, <1>6, AppliedIs DEF OpInv
  <2>2. app' = EndSend(app, o.key, "unknown", list) /\ req' = req
    BY <1>2, <1>6 DEF PutWritten
  <2>3. UNCHANGED givenUp
    BY <1>2, <1>4, <2>1
  <2> QED BY <1>0, <1>2, <1>4, <1>6, <2>1, <2>2, <2>3, PutEndsKeeps
<1>7. CASE o.op # "put"
  <2>1. \A j \in Keys : disk'[j] \in {None, disk[j]}
    BY <1>1, <1>2, <1>3, <1>7, AppliedIs
  <2>2. ASSUME NEW j \in Keys, Rec(j), ~Rec(j)'
        PROVE  givenUp' \/ (o.op = "remove" /\ o.key = j /\ o.for # "discard")
    BY <1>1, <1>2, <1>3, <1>7, <2>2, AppliedIs DEF Rec
  <2>3. RemoveSettled(o, list) /\ (givenUp => givenUp') /\ givenUp' \in BOOLEAN
    BY <1>2, <1>7
  <2> QED BY <1>0, <1>2, <1>4, <1>7, <2>1, <2>2, <2>3, SettledKeeps
<1> QED BY <1>5, <1>6, <1>7

\* DiskFails, operation by operation.
LEMMA DiskFailsKeeps ==
    ASSUME IInv, DiskFails
    PROVE  IInv'
<1>0. PICK o : o = Head(queue)
  OBVIOUS
<1>1. /\ queue # <<>> /\ queue' = Tail(queue) /\ Fault
      /\ IF o.op = "put" THEN PutFailed(o.key) ELSE RemoveSettled(o, memory)
      /\ UNCHANGED <<disk, memory, hydrated, user, leaving, task, accepts, mayAssign, known,
                     givenUp, overtaken>>
  BY <1>0 DEF DiskFails, rights, hist
<1>2. /\ disk' \in Records /\ memory' \in Records /\ hydrated' \in BOOLEAN
      /\ faults' \in 0 .. MaxFaults /\ givenUp' \in BOOLEAN
  BY <1>1, Facts DEF TypeOK, Fault
<1>3. MemoryInv'
  BY <1>1, Facts DEF MemoryInv
<1>4. CASE o.op = "put"
  <2>1. app' = EndSend(app, o.key, "not_saved", memory) /\ req' = req
    BY <1>1, <1>4 DEF PutFailed
  <2> QED BY <1>0, <1>1, <1>2, <1>3, <1>4, <2>1, PutEndsKeeps
<1>5. CASE o.op # "put"
  <2>1. RemoveSettled(o, memory)
    BY <1>1, <1>5
  <2>2. \A j \in Keys : Rec(j)' = Rec(j)
    BY <1>1 DEF Rec
  <2> QED BY <1>0, <1>1, <1>2, <1>3, <1>5, <2>1, <2>2, SettledKeeps
<1> QED BY <1>4, <1>5

-----------------------------------------------------------------------------
(* The theorems. *)

LEMMA InitHolds == Init => IInv
<1> SUFFICES ASSUME Init PROVE IInv
  OBVIOUS
<1>0. PICK w \in Values : disk = [k \in Keys \cup {Foreign} |-> IF k = Foreign THEN w ELSE None]
  BY DEF Init
<1>1. /\ disk \in Records /\ disk[Foreign] # None /\ \A k \in Keys : disk[k] = None
  BY <1>0 DEF Records
<1>2. memory \in Records /\ \A k \in Keys : memory[k] = None
  BY DEF Init, Records
<1>3. /\ app \in App /\ screen = NoScreen
      /\ \A k \in Keys : app.send[k] = NoSend /\ app.check[k] = NoCheck
  BY Nulls DEF Init, Started, screen
<1>4. /\ Hydrate \in Operation /\ Hydrate.op = "hydrate" /\ Hydrate.for = "none"
      /\ Hydrate.copy = None
  BY OpIs DEF Hydrate
<1>5. queue \in Seq(Operation) /\ Len(queue) = 1 /\ queue[1] = Hydrate
  BY <1>4 DEF Init
<1>6. \A k \in Keys : ~Rec(k) /\ Fresh(k) /\ ~Running(k)
  BY <1>1, <1>3, Nulls DEF Init, Rec, Fresh, Running
<1>7. TypeOK
  <2>1. /\ hydrated = FALSE /\ user = Author /\ leaving = FALSE /\ req = {}
        /\ task = [k \in Keys |-> None] /\ accepts = Values /\ mayAssign = TRUE
        /\ known = {} /\ givenUp = FALSE /\ overtaken = FALSE /\ faults = 0
    BY DEF Init
  <2>2. task \in [Keys -> Values \cup {None}] /\ faults \in 0 .. MaxFaults
    BY <2>1
  <2>3. app \in [send : [Keys -> Sending], check : [Keys -> Checking], screen : Screen]
    BY <1>3 DEF App
  <2> QED BY <1>1, <1>2, <1>5, <2>1, <2>2, <2>3 DEF TypeOK
<1>8. QueueInv
  <2>1. OpInv(Hydrate)
    BY <1>4 DEF OpInv
  <2> QED BY <1>4, <1>5, <2>1 DEF QueueInv
<1>9. MemoryInv
  BY <1>1, <1>2 DEF Init, MemoryInv
<1>10. SessionInv
  BY <1>3, <1>6, Nulls DEF Init, SessionInv
<1>11. SendInv
  BY <1>3, Nulls DEF Init, SendInv
<1>12. KeptInv
  BY <1>6 DEF KeptInv
<1>13. ValueInv
  BY <1>1, <1>6 DEF Init, ValueInv, Agrees, Fresh
<1>14. FormInv
  BY <1>3, Nulls DEF FormInv
<1>15. OneConversation
  BY <1>6 DEF OneConversation
<1> QED BY <1>7, <1>8, <1>9, <1>10, <1>11, <1>12, <1>13, <1>14, <1>15 DEF IInv

\* A step that changes nothing.
LEMMA StutterHolds ==
    ASSUME IInv, UNCHANGED vars
    PROVE  IInv'
<1>1. UNCHANGED <<store, app, user, leaving, server, rights, hist, faults>>
  BY DEF vars
<1>2. TypeOK'
  BY <1>1, Facts DEF TypeOK, store, server, rights, hist
<1>3. QueueInv'
  BY <1>1, QueueStays DEF store, hist
<1> QED BY <1>1, <1>2, <1>3, AsideKeeps DEF store

\* Every step of the phone and of the server.
LEMMA NextHolds ==
    ASSUME IInv, Next
    PROVE  IInv'
<1>1. CASE DiskRead \/ DiskWrite \/ DiskFails
  BY <1>1, DiskReadKeeps, DiskWriteKeeps, DiskFailsKeeps
<1>2. CASE OpenScreen \/ RetryHydrate \/ LeaveScreen
  BY <1>2, OpenScreenKeeps, RetryHydrateKeeps, LeaveScreenKeeps
<1>3. ASSUME NEW v \in Values, Save(v) PROVE IInv'
  BY <1>3, SaveKeeps
<1>4. ASSUME NEW k \in Keys,
             PanelMounts(k) \/ CheckAgain(k) \/ SendAgain(k) \/ Discard(k)
      PROVE  IInv'
  BY <1>4, PanelMountsKeeps, CheckAgainKeeps, JoinSendKeeps, SendAgainKeeps, DiscardKeeps
<1>5. ASSUME NEW k \in Keys,
             \/ SendAnswered(k) \/ SendUnknown(k)
             \/ LookupFound(k) \/ LookupEmpty(k) \/ LookupUnknown(k)
      PROVE  IInv'
  BY <1>5, SendAnsweredKeeps, SendUnknownKeeps, LookupFoundKeeps, LookupsKeep
<1>6. CASE SessionEnds \/ Logout \/ LogoutPosted \/ AppDies
  BY <1>6, SessionEndsKeeps, LogoutKeeps, LogoutPostedKeeps, AppDiesKeeps
<1>7. ASSUME NEW u \in {Author, Other}, SignIn(u) PROVE IInv'
  BY <1>7, SignInKeeps
<1>8. ASSUME NEW q \in req,
             \/ Authenticate(q) \/ Replay(q) \/ Refuse(q) \/ Insert(q)
             \/ Commit(q) \/ Drop(q)
      PROVE  IInv'
  BY <1>8, AuthenticateKeeps, ReplayKeeps, RefuseKeeps, InsertKeeps, CommitKeeps, DropKeeps
<1>9. CASE RightsChange
  BY <1>9, RightsChangeKeeps
<1> QED BY <1>1, <1>2, <1>3, <1>4, <1>5, <1>6, <1>7, <1>8, <1>9 DEF Next

\* The inductive invariant.
THEOREM Invariance == Spec => []IInv
<1>1. Init => IInv
  BY InitHolds
<1>2. IInv /\ [Next]_vars => IInv'
  BY NextHolds, StutterHolds
<1> QED BY <1>1, <1>2, PTL DEF Spec

\* What the screen, the phone and the server may hold, for any keys, values and
\* faults (createFlow.ts:54-69, taskPendingCreates.ts:52-57).
THEOREM TypeCorrect == Spec => []TypeOK
<1>1. IInv => TypeOK
  BY Facts
<1> QED BY <1>1, Invariance, PTL

\* tasks/create.py:114-124, taskPendingCreates.ts:9-14: one wish makes one task,
\* through any number of lost answers, app deaths, sign-outs and failed writes, and
\* however many requests under its key the server has at once.
THEOREM OneTask == Spec => []NoTwins
<1>1. ASSUME IInv PROVE NoTwins
  <2> DEFINE made == {k \in Keys : task[k] # None}
  <2>1. CASE givenUp \/ overtaken
    BY <2>1 DEF NoTwins
  <2>2. CASE ~givenUp /\ ~overtaken
    <3>1. \A j, k \in made : j = k
      BY <1>1, <2>2, Facts DEF KeptInv, Fresh
    <3>2. CASE made = {}
      BY <3>2, FS_EmptySet DEF NoTwins
    <3>3. CASE made # {}
      <4>1. PICK k : made = {k}
        BY <3>1, <3>3
      <4>2. Cardinality(made) = 1
        BY <4>1, FS_Singleton
      <4> QED BY <4>2 DEF NoTwins
    <3> QED BY <3>2, <3>3
  <2> QED BY <2>1, <2>2
<1> QED BY <1>1, Invariance, PTL

\* createFlow.ts:121-125: whatever dies at whatever moment, a key that may have a
\* task the user was not told of is on the phone's disk.
THEOREM RecordIsKept == Spec => []KeyIsKept
<1>1. ASSUME IInv PROVE KeyIsKept
  BY <1>1, Facts DEF KeyIsKept, KeptInv, Fresh, Rec
<1> QED BY <1>1, Invariance, PTL

\* taskPendingCreates.ts:22-28: another account's record outlives every write, clear
\* and failed read of this one's.
THEOREM OthersKept == Spec => []OthersRecordKept
<1>1. IInv => OthersRecordKept
  BY Facts DEF OthersRecordKept, MemoryInv
<1> QED BY <1>1, Invariance, PTL

\* createFlow.ts:22-27 and 191: every request is sent for the account that tapped and
\* with the values of its record, however often it is sent again.
THEOREM RequestIsItsRecords == Spec => []SentAsRecorded
<1>1. ASSUME IInv PROVE SentAsRecorded
  <2>1. \A q \in req : q.key \in Keys
    BY <1>1, Facts DEF Request
  <2> QED BY <1>1, <2>1, Facts DEF SentAsRecorded, SessionInv, ValueInv, Agrees
<1> QED BY <1>1, Invariance, PTL

\* createFlow.ts:54-62: nobody asks the server about a create that is out.
THEOREM OneAsksAtATime == Spec => []OneConversation
<1>1. IInv => OneConversation
  BY Facts
<1> QED BY <1>1, Invariance, PTL

-----------------------------------------------------------------------------
(* TaskCreate implements TaskSet.  A task is made by a request that has      *)
(* inserted it; the advisory lock leaves one such request under a key, and   *)
(* none where there is a task.                                               *)

InsertInv ==
    /\ \A q \in req : q.pc = "inserted" => task[q.key] = None
    /\ \A q, r \in req : q.pc = "inserted" /\ r.pc = "inserted" /\ q.key = r.key => q = r

\* What the phone was told of, or is being told of, was made.
ToldInv ==
    /\ \A k \in known : task[k] # None
    /\ \A k \in Keys : app.send[k].reply = "created" => task[k] # None

SetInv == IInv /\ InsertInv /\ ToldInv

\* No send hears of a task that it had not heard of.
NoNews == \A k \in Keys : app'.send[k].reply = "created" => app.send[k].reply = "created"

\* The phone is told no more than was made.
LEMMA NoNewsKeeps ==
    ASSUME SetInv, NoNews, task' = task, \A k \in known' \ known : task[k] # None
    PROVE  ToldInv'
BY DEF SetInv, NoNews, ToldInv

\* The sends are as they were.
LEMMA SendsStay == ASSUME app'.send = app.send PROVE NoNews
BY DEF NoNews

\* One send is changed, and hears of nothing.
LEMMA OneChanges ==
    ASSUME NEW k \in Keys, NEW s, SendChange(app', app, k, s),
           s.reply \in {app.send[k].reply, "none"}
    PROVE  NoNews
BY DEF NoNews, SendChange

\* A send that ends has heard what it had to hear.
LEMMA EndIsNoNews ==
    ASSUME IInv, NEW k \in Keys, NEW outcome \in Ending, NEW list,
           app' = EndSend(app, k, outcome, list)
    PROVE  NoNews
<1>1. app \in App /\ (app.screen.open \/ app.screen = NoScreen)
  BY ScreenWhole, Facts DEF screen
<1>2. /\ app' \in App /\ app'.send = [app.send EXCEPT ![k] = NoSend]
      /\ app'.check = [app.check EXCEPT ![k] = AfterJoin(app.check[k], outcome)]
  BY <1>1, EndSendIs
<1>3. \A j \in Keys : app'.send[j] \in {app.send[j], NoSend}
  BY <1>1, <1>2, Parts
<1> QED BY <1>3, Nulls DEF NoNews

\* No request is added to those that have inserted their task.
LEMMA FewerInserts ==
    ASSUME InsertInv, task' = task, \A x \in req' : x.pc = "inserted" => x \in req
    PROVE  InsertInv'
BY DEF InsertInv

\* Requests that change, but not in their key or how far they are.
LEMMA SameInserts ==
    ASSUME InsertInv, task' = task, NEW F,
           \A x \in req' : \E q \in req : x = F[q],
           \A q \in req : F[q].pc = q.pc /\ F[q].key = q.key
    PROVE  InsertInv'
<1>1. ASSUME NEW x \in req', NEW y \in req', x.pc = "inserted", y.pc = "inserted", x.key = y.key
      PROVE  x = y
  <2>1. PICK q \in req : x = F[q] /\ q.pc = "inserted" /\ q.key = x.key
    BY <1>1
  <2>2. PICK r \in req : y = F[r] /\ r.pc = "inserted" /\ r.key = y.key
    BY <1>1
  <2>3. q = r
    BY <1>1, <2>1, <2>2 DEF InsertInv
  <2> QED BY <2>1, <2>2, <2>3
<1>2. ASSUME NEW x \in req', x.pc = "inserted" PROVE task'[x.key] = None
  <2>1. PICK q \in req : x = F[q] /\ q.pc = "inserted" /\ q.key = x.key
    BY <1>2
  <2> QED BY <2>1 DEF InsertInv
<1> QED BY <1>1, <1>2 DEF InsertInv

Unawaited(q, r) == r.pc = q.pc /\ r.key = q.key

\* A request that its sender has given up on is where it was.
LEMMA UnawaitedIs ==
    ASSUME NEW q \in Request
    PROVE  Unawaited(q, [q EXCEPT !.awaited = FALSE]) /\ Unawaited(q, q)
BY DEF Request, Unawaited

-----------------------------------------------------------------------------
(* Steps of the phone. *)

\* The screen comes and goes; nothing is sent or heard.
LEMMA ScreenTells ==
    ASSUME SetInv, IInv', OpenScreen \/ LeaveScreen
    PROVE  SetInv' /\ UNCHANGED task
<1>1. app \in App /\ UNCHANGED <<task, known, req>>
  BY Facts DEF SetInv, OpenScreen, LeaveScreen, server, hist
<1>2. app'.send = app.send
  <2>1. CASE OpenScreen
    BY <1>1, <2>1 DEF OpenScreen, App
  <2>2. CASE LeaveScreen
    BY <1>1, <2>2, LeftIs DEF LeaveScreen
  <2> QED BY <2>1, <2>2
<1> QED BY <1>1, <1>2, SendsStay, FewerInserts, NoNewsKeeps DEF SetInv

\* Its questions send nothing, and tell of nothing when nothing was found.
LEMMA QuestionTells ==
    ASSUME SetInv, IInv', NEW k \in Keys,
           PanelMounts(k) \/ CheckAgain(k) \/ LookupEmpty(k) \/ LookupUnknown(k)
    PROVE  SetInv' /\ UNCHANGED task
<1>1. app \in App /\ UNCHANGED <<task, known, req>>
  BY Facts DEF SetInv, PanelMounts, CheckAgain, Ask, LookupEmpty, LookupUnknown, server, hist
<1>2. app'.send = app.send
  <2>1. CASE PanelMounts(k) \/ CheckAgain(k)
    BY <1>1, <2>1 DEF PanelMounts, CheckAgain, Ask, App
  <2>2. CASE LookupEmpty(k) \/ LookupUnknown(k)
    BY <1>1, <2>2 DEF LookupEmpty, LookupUnknown, Concludes, App
  <2> QED BY <2>1, <2>2
<1> QED BY <1>1, <1>2, SendsStay, FewerInserts, NoNewsKeeps DEF SetInv

\* Steps that leave the app, its requests and the tasks alone.
LEMMA IdleTells ==
    ASSUME SetInv, IInv',
           \/ DiskRead \/ RetryHydrate \/ Logout \/ RightsChange \/ UNCHANGED vars
           \/ \E k \in Keys : Discard(k)
    PROVE  SetInv' /\ UNCHANGED task
<1>1. UNCHANGED <<app, task, known, req>>
  BY DEF DiskRead, RetryHydrate, Discard, Logout, RightsChange, vars, server, hist
<1> QED BY <1>1, FewerInserts, SendsStay, NoNewsKeeps DEF SetInv

\* A send that begins has heard of nothing.
LEMMA BeginTells ==
    ASSUME SetInv, IInv', NEW k \in Keys, NEW v \in Values, NEW s \in Screen,
           app' = [Begin(app, k, v) EXCEPT !.screen = s],
           UNCHANGED <<task, known, req>>
    PROVE  SetInv' /\ UNCHANGED task
<1> DEFINE y == Begin(app, k, v)
<1>1. SendChange(y, app, k, New(v)) /\ New(v).reply = "none"
  BY Facts, BeginIs, NewIs DEF SetInv
<1> HIDE DEF y
<1>2. app'.send = y.send
  BY <1>1, ScreenSet DEF y, SendChange
<1>3. NoNews
  BY <1>1, <1>2 DEF NoNews, SendChange
<1> QED BY <1>3, FewerInserts, NoNewsKeeps DEF SetInv

\* Save begins a send.
LEMMA SaveTells ==
    ASSUME SetInv, IInv', NEW v \in Values, Save(v)
    PROVE  SetInv' /\ UNCHANGED task
<1>1. app \in App /\ app.screen \in Screen /\ screen.key \in Keys \cup {None}
  BY Facts, ScreenParts DEF SetInv, screen
<1>2. PICK k \in Keys :
          app' = [Begin(app, k, v) EXCEPT !.screen.key = k, !.screen.saving = TRUE]
  <2>1. PICK k \in IF screen.key = None THEN {u \in Keys : Unused(u)} ELSE {screen.key} :
           app' = [Begin(app, k, v) EXCEPT !.screen.key = k, !.screen.saving = TRUE]
    BY Zenon DEF Save
  <2>2. k \in Keys
    BY <1>1, <2>1
  <2> QED BY <2>1, <2>2, Zenon
<1>3. Begin(app, k, v).screen = app.screen /\ Begin(app, k, v) \in App
  BY <1>1, BeginIs DEF SendChange
<1> DEFINE s == [app.screen EXCEPT !.key = k, !.saving = TRUE]
<1>4. app' = [Begin(app, k, v) EXCEPT !.screen = s] /\ s \in Screen
  <2>1. s \in Screen
    BY <1>1 DEF Screen
  <2>2. PICK y : y = Begin(app, k, v)
    OBVIOUS
  <2>3. app' = [y EXCEPT !.screen = s]
    BY <1>2, <1>3, <2>2 DEF App
  <2> QED BY <2>1, <2>2, <2>3
<1>5. UNCHANGED <<task, known, req>>
  BY DEF Save, server, hist
<1> HIDE DEF s
<1> QED BY <1>4, <1>5, BeginTells

\* SendAgain begins a send, or watches the one that is out.
LEMMA SendAgainTells ==
    ASSUME SetInv, IInv', NEW k \in Keys, SendAgain(k)
    PROVE  SetInv' /\ UNCHANGED task
<1>1. app \in App /\ app.screen \in Screen /\ Panel(k) /\ IInv
  BY Facts, ScreenParts DEF SetInv, SendAgain
<1>2. UNCHANGED <<task, known, req>>
  BY DEF SendAgain, server, hist
<1>3. CASE Running(k)
  <2>1. app'.send = app.send
    BY <1>1, <1>3 DEF SendAgain, App
  <2> QED BY <1>2, <2>1, SendsStay, FewerInserts, NoNewsKeeps DEF SetInv
<1>4. CASE ~Running(k)
  <2> DEFINE s == [app.screen EXCEPT !.phase = "sending"]
  <2>1. memory[k] \in Values
    <3>1. memory = disk /\ Rec(k)
      BY <1>1, <1>4, PanelIs
    <3> QED BY <1>1, <3>1, Facts DEF Rec, Records
  <2>2. Begin(app, k, memory[k]).screen = app.screen /\ Begin(app, k, memory[k]) \in App
    BY <1>1, <2>1, BeginIs DEF SendChange
  <2>3. app' = [Begin(app, k, memory[k]) EXCEPT !.screen.phase = "sending"]
    BY <1>4 DEF SendAgain
  <2>4. s \in Screen
    BY <1>1 DEF Screen
  <2>5. app' = [Begin(app, k, memory[k]) EXCEPT !.screen = s]
    <3>1. PICK y : y = Begin(app, k, memory[k])
      OBVIOUS
    <3>2. app' = [y EXCEPT !.screen = s]
      BY <2>2, <2>3, <3>1 DEF App
    <3> QED BY <3>1, <3>2
  <2> HIDE DEF s
  <2> QED BY <1>2, <2>1, <2>4, <2>5, BeginTells
<1> QED BY <1>3, <1>4

\* The phone is told of a task that was made.
LEMMA AnsweredTells ==
    ASSUME SetInv, IInv', NEW k \in Keys, SendAnswered(k)
    PROVE  SetInv' /\ UNCHANGED task /\ (known' = known \/ TaskRegister!Tell(k))
<1>1. app \in App /\ app.send[k] \in Sending /\ overtaken \in BOOLEAN
  BY Facts, Parts DEF SetInv, TypeOK
<1>2. SendChange(app', app, k, [app.send[k] EXCEPT !.pc = "forgetting"])
  BY <1>1, PcSet DEF SendAnswered, SendPc
<1>3. [app.send[k] EXCEPT !.pc = "forgetting"].reply = app.send[k].reply
  BY <1>1 DEF Sending
<1>4. NoNews
  BY <1>2, <1>3, OneChanges
<1>5. /\ UNCHANGED <<req, task, givenUp>>
      /\ known' = IF app.send[k].reply = "created" THEN known \cup {k} ELSE known
      /\ overtaken' = (overtaken \/ app.send[k].reply = "refused_ahead")
  BY DEF SendAnswered, server
<1>6. app.send[k].reply = "created" => task[k] # None
  BY DEF SetInv, ToldInv
<1>7. InsertInv' /\ ToldInv'
  BY <1>4, <1>5, <1>6, FewerInserts, NoNewsKeeps DEF SetInv
<1>8. app.send[k].reply = "created" => TaskRegister!Tell(k)
  BY <1>1, <1>5, <1>6 DEF TaskRegister!Tell
<1> QED BY <1>5, <1>7, <1>8 DEF SetInv

\* So is a panel that asked.
LEMMA FoundTells ==
    ASSUME SetInv, IInv', NEW k \in Keys, LookupFound(k)
    PROVE  SetInv' /\ TaskRegister!Tell(k)
<1>1. app \in App /\ task[k] # None /\ known' = known \cup {k}
      /\ UNCHANGED <<req, task, givenUp, overtaken>>
  BY Facts DEF SetInv, LookupFound, server
<1>2. app'.send = app.send
  BY <1>1 DEF LookupFound, App
<1>3. InsertInv' /\ ToldInv'
  BY <1>1, <1>2, SendsStay, FewerInserts, NoNewsKeeps DEF SetInv
<1> QED BY <1>1, <1>3 DEF SetInv, TaskRegister!Tell

\* A send without an answer ends.
LEMMA UnknownTells ==
    ASSUME SetInv, IInv', NEW k \in Keys, SendUnknown(k)
    PROVE  SetInv' /\ UNCHANGED task
<1>1. /\ app' = EndSend(app, k, "unknown", memory) /\ req' = Abandoned(k)
      /\ UNCHANGED <<task, known>>
  BY DEF SendUnknown, hist
<1>2. NoNews
  BY <1>1, EndIsNoNews DEF SetInv, Ending
<1> DEFINE F == [q \in req |-> IF q.key = k THEN [q EXCEPT !.awaited = FALSE] ELSE q]
<1>3. \A x \in req' : \E q \in req : x = F[q]
  BY <1>1 DEF Abandoned
<1>4. ASSUME NEW q \in req PROVE F[q].pc = q.pc /\ F[q].key = q.key
  <2>1. q \in Request
    BY Facts DEF SetInv
  <2> QED BY <2>1, UnawaitedIs DEF Unawaited
<1>5. InsertInv'
  <2> HIDE DEF F
  <2> QED BY <1>1, <1>3, <1>4, SameInserts DEF SetInv
<1> QED BY <1>1, <1>2, <1>5, NoNewsKeeps DEF SetInv

\* Nor is a new session, or a new start of the app, told of anything.
LEMMA SessionTells ==
    ASSUME SetInv, IInv', SessionEnds \/ LogoutPosted \/ \E u \in {Author, Other} : SignIn(u)
    PROVE  SetInv' /\ UNCHANGED task
<1>1. PICK u : NewSession(u)
  BY DEF SessionEnds, LogoutPosted, SignIn
<1>2. UNCHANGED <<task, known, req>>
  BY DEF SessionEnds, LogoutPosted, SignIn, server, hist
<1>3. NoNews
  BY <1>1, NewSessionIs DEF NoNews, SetInv
<1> QED BY <1>2, <1>3, FewerInserts, NoNewsKeeps DEF SetInv

\* The app that starts again has no send to be told of.
LEMMA DeathTells ==
    ASSUME SetInv, IInv', AppDies
    PROVE  SetInv' /\ UNCHANGED task
<1>1. /\ app' = Started /\ req' = {[q EXCEPT !.awaited = FALSE] : q \in req}
      /\ UNCHANGED <<task, known>>
  BY DEF AppDies, hist
<1>2. \A k \in Keys : app'.send[k].reply = "none"
  BY <1>1, Nulls DEF Started
<1>3. NoNews
  BY <1>2 DEF NoNews
<1> DEFINE F == [q \in req |-> [q EXCEPT !.awaited = FALSE]]
<1>4. \A x \in req' : \E q \in req : x = F[q]
  BY <1>1
<1>5. ASSUME NEW q \in req PROVE F[q].pc = q.pc /\ F[q].key = q.key
  <2>1. q \in Request
    BY Facts DEF SetInv
  <2> QED BY <2>1, UnawaitedIs DEF Unawaited
<1>6. InsertInv'
  <2> HIDE DEF F
  <2> QED BY <1>1, <1>4, <1>5, SameInserts DEF SetInv
<1> QED BY <1>1, <1>3, <1>6, NoNewsKeeps DEF SetInv
-----------------------------------------------------------------------------
(* Steps of the disk. *)

\* What awaited a removal has heard what it had to hear.
LEMMA SettledTells ==
    ASSUME IInv, NEW o \in Operation, OpInv(o), o.op # "put", NEW list, RemoveSettled(o, list)
    PROVE  NoNews /\ UNCHANGED req
<1>0. app \in App /\ (app.screen.open \/ app.screen = NoScreen) /\ UNCHANGED req
  BY ScreenWhole, Facts DEF screen, RemoveSettled
<1>1. CASE o.for = "send"
  <2>1. o.key \in Keys /\ app.send[o.key].pc = "forgetting"
    BY <1>1 DEF OpInv, Operation
  <2>2. Outcome(app.send[o.key].reply) \in Ending
    BY DEF Outcome, Ending
  <2>3. app' = EndSend(app, o.key, Outcome(app.send[o.key].reply), list)
    BY <1>1 DEF RemoveSettled
  <2> QED BY <1>0, <2>1, <2>2, <2>3, EndIsNoNews
<1>2. CASE o.for = "check"
  <2>1. o.key \in Keys
    BY <1>2 DEF OpInv, Operation
  <2>2. app' = EndCheck(app, o.key, list)
    BY <1>2 DEF RemoveSettled
  <2>3. app'.send = app.send
    BY <1>0, <2>1, <2>2, EndCheckIs
  <2> QED BY <1>0, <2>3, SendsStay
<1>3. CASE o.for \notin {"send", "check"}
  <2>1. app' = Shown(app, list)
    BY <1>3 DEF RemoveSettled
  <2>2. Shown(app, list).send = app.send
    BY <1>0, ShownIs, Zenon
  <2> QED BY <1>0, <2>1, <2>2, SendsStay
<1> QED BY <1>1, <1>2, <1>3

\* A request that leaves has inserted nothing.
LEMMA PutTells ==
    ASSUME IInv, InsertInv, task' = task, NEW k \in Keys, NEW list, PutWritten(k, list)
    PROVE  NoNews /\ InsertInv'
<1>0. app \in App /\ app.send[k] \in Sending
  BY Facts, Parts
<1>1. CASE SameSession(k)
  <2>1. app' = [app EXCEPT !.send[k].pc = "posted"] /\ req' = req \cup {Created(k)}
    BY <1>1 DEF PutWritten
  <2>2. SendChange(app', app, k, [app.send[k] EXCEPT !.pc = "posted"])
    BY <1>0, <2>1, PcSet DEF SendPc
  <2>3. [app.send[k] EXCEPT !.pc = "posted"].reply = app.send[k].reply
    BY <1>0 DEF Sending
  <2>4. Created(k).pc = "out"
    BY DEF Created
  <2> QED BY <2>1, <2>2, <2>3, <2>4, OneChanges, FewerInserts
<1>2. CASE ~SameSession(k)
  <2>1. app' = EndSend(app, k, "unknown", list) /\ req' = req
    BY <1>2 DEF PutWritten
  <2> QED BY <2>1, EndIsNoNews, FewerInserts DEF Ending
<1> QED BY <1>1, <1>2

\* Both steps of the disk that end an operation.
LEMMA DiskTells ==
    ASSUME SetInv, IInv', DiskWrite \/ DiskFails
    PROVE  SetInv' /\ UNCHANGED task
<1>0. PICK o : o = Head(queue)
  OBVIOUS
<1>1. /\ queue # <<>> /\ UNCHANGED <<task, known>>
      /\ \/ \E list : IF o.op = "put" THEN PutWritten(o.key, list) ELSE RemoveSettled(o, list)
         \/ IF o.op = "put" THEN PutFailed(o.key) ELSE RemoveSettled(o, memory)
  BY <1>0 DEF DiskWrite, DiskFails, hist
<1>2. o \in Operation /\ OpInv(o) /\ (o.op = "put" => o.key \in Keys)
  BY <1>0, <1>1, HeadIs DEF SetInv, OpInv
<1>3. CASE o.op = "put"
  <2>1. CASE \E list : PutWritten(o.key, list)
    BY <1>1, <1>2, <1>3, <2>1, PutTells, NoNewsKeeps DEF SetInv
  <2>2. CASE PutFailed(o.key)
    <3>1. app' = EndSend(app, o.key, "not_saved", memory) /\ req' = req
      BY <2>2 DEF PutFailed
    <3> QED BY <1>1, <1>2, <1>3, <3>1, EndIsNoNews, FewerInserts, NoNewsKeeps DEF Ending, SetInv
  <2> QED BY <1>1, <1>3, <2>1, <2>2
<1>4. CASE o.op # "put"
  <2>1. PICK list : RemoveSettled(o, list)
    BY <1>1, <1>4
  <2> QED BY <1>1, <1>2, <1>4, <2>1, SettledTells, FewerInserts, NoNewsKeeps DEF SetInv
<1> QED BY <1>3, <1>4

-----------------------------------------------------------------------------
(* Steps of the server. *)

\* A request goes on; when it inserts, it is the only one and there is no task.
LEMMA BecomesTells ==
    ASSUME SetInv, IInv', NEW q \in req, Authenticate(q) \/ Insert(q)
    PROVE  SetInv' /\ UNCHANGED task
<1>1. UNCHANGED <<app, task, known>> /\ q \in Request /\ q.by = Author
  BY Facts DEF SetInv, SessionInv, Authenticate, Insert, hist
<1>2. CASE Authenticate(q)
  <2> DEFINE r == [q EXCEPT !.pc = "authenticated", !.mayAssign = mayAssign]
  <2>1. req' = (req \ {q}) \cup {r} /\ r.pc = "authenticated"
    BY <1>1, <1>2 DEF Authenticate, Becomes, Request
  <2> HIDE DEF r
  <2> QED BY <1>1, <2>1, FewerInserts, SendsStay, NoNewsKeeps DEF SetInv
<1>3. CASE Insert(q)
  <2> DEFINE r == [q EXCEPT !.pc = "inserted"]
  <2>1. req' = (req \ {q}) \cup {r} /\ r.key = q.key
    BY <1>1, <1>3 DEF Insert, Becomes, Request
  <2>2. task[q.key] = None /\ \A x \in req \ {q} : x.key = q.key => x.pc # "inserted"
    <3>1. \A x \in req : x.by = Author
      BY Facts DEF SetInv, SessionInv
    <3> QED BY <1>1, <1>3, <3>1 DEF Insert, MyTurn, Rivals
  <2> HIDE DEF r
  <2>3. InsertInv'
    BY <1>1, <2>1, <2>2 DEF SetInv, InsertInv
  <2> QED BY <1>1, <2>3, SendsStay, NoNewsKeeps DEF SetInv
<1> QED BY <1>2, <1>3

\* A request that is over tells its sender of a task that is there.
LEMMA AnswerTells ==
    ASSUME SetInv, IInv', NEW q \in req, NEW reply \in Reply, Answer(q, reply),
           known' = known,
           reply = "created" => task'[q.key] # None,
           \A k \in Keys : task[k] # None => task'[k] # None
    PROVE  ToldInv'
<1>0. app \in App /\ q \in Request /\ q.key \in Keys
  BY Facts DEF SetInv, Request
<1>1. \A k \in Keys : app'.send[k].reply \in {app.send[k].reply} \cup (IF k = q.key THEN {reply} ELSE {})
  <2>1. CASE ~q.awaited
    BY <2>1 DEF Answer
  <2>2. CASE q.awaited
    <3>1. app' = [app EXCEPT !.send[q.key].reply = reply]
      BY <2>2 DEF Answer
    <3>2. SendChange(app', app, q.key, [app.send[q.key] EXCEPT !.reply = reply])
      BY <1>0, <3>1, ReplySet
    <3>3. [app.send[q.key] EXCEPT !.reply = reply].reply = reply
      BY <1>0, Parts DEF Sending
    <3> QED BY <3>2, <3>3 DEF SendChange
  <2> QED BY <2>1, <2>2
<1>2. known \subseteq Keys
  BY Facts DEF SetInv, TypeOK
<1> QED BY <1>1, <1>2 DEF SetInv, ToldInv

\* Refused, rolled back, or answered with the task that is there.
LEMMA OverTells ==
    ASSUME SetInv, IInv', NEW q \in req, Replay(q) \/ Refuse(q) \/ Drop(q)
    PROVE  SetInv' /\ UNCHANGED task
<1>1. UNCHANGED <<task, known>> /\ req' = req \ {q}
  BY DEF Replay, Refuse, Drop, Answer, hist
<1>2. InsertInv'
  BY <1>1, FewerInserts DEF SetInv
<1>3. CASE Replay(q)
  <2>1. PICK reply \in {"created", "refused"} : Answer(q, reply)
    BY <1>3 DEF Replay
  <2>2. task[q.key] # None
    BY <1>3 DEF Replay
  <2> QED BY <1>1, <1>2, <2>1, <2>2, AnswerTells DEF SetInv, Reply
<1>4. CASE Refuse(q)
  <2>1. PICK reply \in {"refused_ahead", "refused"} : Answer(q, reply)
    BY <1>4 DEF Refuse
  <2> QED BY <1>1, <1>2, <2>1, AnswerTells DEF SetInv, Reply
<1>5. CASE Drop(q)
  <2>1. app' = app
    BY <1>5 DEF Drop
  <2> QED BY <1>1, <1>2, <2>1, SendsStay, NoNewsKeeps DEF SetInv
<1> QED BY <1>3, <1>4, <1>5

\* A task is made: under a key that had none, and while no other key has one
\* unless the record was dropped or overtaken.
LEMMA CommitMakes ==
    ASSUME SetInv, IInv', NEW q \in req, Commit(q)
    PROVE  SetInv' /\ TaskRegister!Make(q.key, q.val) /\ q.key \in Keys /\ q.val \in Values
<1>1. /\ q \in Request /\ q.by = Author /\ q.key \in Keys /\ q.val \in Values
      /\ q.pc = "inserted" /\ task \in [Keys -> Values \cup {None}]
  BY Facts DEF SetInv, SessionInv, Request, Commit
<1>2. /\ task' = [task EXCEPT ![q.key] = q.val] /\ UNCHANGED <<known, givenUp, overtaken>>
      /\ Answer(q, "created") /\ req' = req \ {q}
  BY <1>1 DEF Commit, Answer, hist
<1>3. task[q.key] = None /\ \A r \in req \ {q} : r.pc = "inserted" => r.key # q.key
  BY <1>1 DEF SetInv, InsertInv
<1>4. InsertInv'
  <2>1. \A r \in req \ {q} : r.pc = "inserted" => task'[r.key] = None
    <3>1. \A r \in req : r.key \in Keys
      BY Facts DEF SetInv, Request
    <3> QED BY <1>1, <1>2, <1>3, <3>1 DEF SetInv, InsertInv
  <2> QED BY <1>2, <2>1 DEF SetInv, InsertInv
<1>5. ToldInv'
  <2>1. task'[q.key] # None /\ \A k \in Keys : task[k] # None => task'[k] # None
    BY <1>1, <1>2
  <2> QED BY <1>2, <2>1, AnswerTells DEF Reply
<1>6. (givenUp \/ overtaken) \/ \A j \in Keys : task[j] = None
  <2>1. \A j, k \in Keys : ~Fresh(j) /\ ~Fresh(k) => j = k \/ givenUp \/ overtaken
    BY Facts DEF SetInv, KeptInv
  <2>2. ~Fresh(q.key)
    BY DEF Fresh
  <2> QED BY <1>1, <1>3, <2>1, <2>2 DEF Fresh
<1> QED BY <1>1, <1>2, <1>3, <1>4, <1>5, <1>6 DEF SetInv, TaskRegister!Make
-----------------------------------------------------------------------------
(* The refinement. *)

\* A step that makes no task and tells of none lets go, or is none of TaskSet's.
LEMMA QuietMaps ==
    ASSUME UNCHANGED <<task, known>>, givenUp \/ overtaken => givenUp' \/ overtaken'
    PROVE  TaskRegister!Next \/ UNCHANGED TaskRegister!vars
<1>1. CASE givenUp' \/ overtaken'
  BY <1>1 DEF TaskRegister!Next, TaskRegister!LetGo
<1>2. CASE ~(givenUp' \/ overtaken')
  BY <1>2 DEF TaskRegister!vars
<1> QED BY <1>1, <1>2

\* Each step makes one task, tells of one, lets go, or is none of TaskSet's.
LEMMA StepMaps ==
    ASSUME SetInv, IInv', Next
    PROVE  SetInv' /\ (TaskRegister!Next \/ UNCHANGED TaskRegister!vars)
<1>0. {givenUp, overtaken} \subseteq BOOLEAN
  BY Facts DEF SetInv, TypeOK
<1>1. CASE DiskRead \/ RetryHydrate \/ Logout \/ RightsChange
  <2>1. UNCHANGED hist
    BY <1>1 DEF DiskRead, RetryHydrate, Logout, RightsChange
  <2> QED BY <1>1, <2>1, IdleTells, QuietMaps DEF hist
<1>2. CASE DiskWrite \/ DiskFails
  <2>1. UNCHANGED <<known, overtaken>> /\ (givenUp => givenUp')
    BY <1>0, <1>2 DEF DiskWrite, DiskFails, hist
  <2> QED BY <1>2, <2>1, DiskTells, QuietMaps
<1>3. CASE OpenScreen \/ LeaveScreen
  <2>1. UNCHANGED hist
    BY <1>3 DEF OpenScreen, LeaveScreen
  <2> QED BY <1>3, <2>1, ScreenTells, QuietMaps DEF hist
<1>4. ASSUME NEW v \in Values, Save(v)
      PROVE  SetInv' /\ (TaskRegister!Next \/ UNCHANGED TaskRegister!vars)
  <2>1. UNCHANGED hist
    BY <1>4 DEF Save
  <2> QED BY <1>4, <2>1, SaveTells, QuietMaps DEF hist
<1>5. ASSUME NEW k \in Keys,
             PanelMounts(k) \/ CheckAgain(k) \/ LookupEmpty(k) \/ LookupUnknown(k)
      PROVE  SetInv' /\ (TaskRegister!Next \/ UNCHANGED TaskRegister!vars)
  <2>1. UNCHANGED hist
    BY <1>5 DEF PanelMounts, CheckAgain, Ask, LookupEmpty, LookupUnknown
  <2> QED BY <1>5, <2>1, QuestionTells, QuietMaps DEF hist
<1>6. ASSUME NEW k \in Keys, SendAgain(k) \/ Discard(k) \/ SendUnknown(k)
      PROVE  SetInv' /\ (TaskRegister!Next \/ UNCHANGED TaskRegister!vars)
  <2>1. UNCHANGED hist
    BY <1>6 DEF SendAgain, Discard, SendUnknown
  <2>2. SetInv' /\ UNCHANGED task
    BY <1>6, SendAgainTells, IdleTells, UnknownTells
  <2> QED BY <2>1, <2>2, QuietMaps DEF hist
<1>7. ASSUME NEW k \in Keys, SendAnswered(k)
      PROVE  SetInv' /\ (TaskRegister!Next \/ UNCHANGED TaskRegister!vars)
  <2>1. UNCHANGED givenUp /\ (overtaken => overtaken')
    BY <1>7 DEF SendAnswered
  <2>2. TaskRegister!Tell(k) => TaskRegister!Next
    BY DEF TaskRegister!Next
  <2> QED BY <1>7, <2>1, <2>2, AnsweredTells, QuietMaps
<1>8. ASSUME NEW k \in Keys, LookupFound(k)
      PROVE  SetInv' /\ (TaskRegister!Next \/ UNCHANGED TaskRegister!vars)
  BY <1>8, FoundTells DEF TaskRegister!Next
<1>9. CASE SessionEnds \/ LogoutPosted \/ \E u \in {Author, Other} : SignIn(u)
  <2>1. UNCHANGED <<known, overtaken>> /\ (givenUp => givenUp')
    BY <1>0, <1>9 DEF SessionEnds, LogoutPosted, SignIn, hist
  <2> QED BY <1>9, <2>1, SessionTells, QuietMaps
<1>10. CASE AppDies
  <2>1. UNCHANGED hist
    BY <1>10 DEF AppDies
  <2> QED BY <1>10, <2>1, DeathTells, QuietMaps DEF hist
<1>11. ASSUME NEW q \in req, Authenticate(q) \/ Insert(q) \/ Replay(q) \/ Refuse(q) \/ Drop(q)
       PROVE  SetInv' /\ (TaskRegister!Next \/ UNCHANGED TaskRegister!vars)
  <2>1. UNCHANGED hist
    BY <1>11 DEF Authenticate, Insert, Replay, Refuse, Drop
  <2>2. SetInv' /\ UNCHANGED task
    BY <1>11, BecomesTells, OverTells
  <2> QED BY <2>1, <2>2, QuietMaps DEF hist
<1>12. ASSUME NEW q \in req, Commit(q)
       PROVE  SetInv' /\ (TaskRegister!Next \/ UNCHANGED TaskRegister!vars)
  BY <1>12, CommitMakes DEF TaskRegister!Next
<1> QED BY <1>1, <1>2, <1>3, <1>4, <1>5, <1>6, <1>7, <1>8, <1>9, <1>10, <1>11, <1>12 DEF Next

\* The create of a task, with its lost and late answers, its resends, the disk and
\* the sessions (create.py:114-124, createFlow.ts:121-125), is a set of tasks keyed
\* by the client's id: a task is made once under its key and never changes, a second
\* one only when the record was dropped or overtaken, and the user is told only of
\* tasks that were made.
THEOREM ImplementsSet == Spec => ImplementsTaskSet
<1>1. Init => SetInv /\ TaskRegister!Init
  <2> SUFFICES ASSUME Init PROVE SetInv /\ TaskRegister!Init
    OBVIOUS
  <2>1. req = {} /\ known = {} /\ app = Started /\ task = [k \in Keys |-> None]
        /\ ~givenUp /\ ~overtaken
    BY DEF Init
  <2>2. \A k \in Keys : app.send[k].reply = "none"
    BY <2>1, Nulls DEF Started
  <2>3. IInv
    BY InitHolds
  <2>4. InsertInv /\ ToldInv
    BY <2>1, <2>2 DEF InsertInv, ToldInv
  <2> QED BY <2>1, <2>3, <2>4, Zenon DEF SetInv, TaskRegister!Init, Init
<1>2. SetInv /\ IInv' /\ [Next]_vars => SetInv' /\ [TaskRegister!Next]_(TaskRegister!vars)
  <2>1. ASSUME SetInv, IInv', UNCHANGED vars
        PROVE  SetInv' /\ UNCHANGED TaskRegister!vars
    <3>1. UNCHANGED <<task, known, givenUp, overtaken>>
      BY <2>1 DEF vars, server, hist
    <3> QED BY <2>1, <3>1, IdleTells DEF TaskRegister!vars
  <2> QED BY <2>1, StepMaps
<1> QED
  BY <1>1, <1>2, Invariance, PTL DEF Spec, ImplementsTaskSet, TaskRegister!Spec

=============================================================================
