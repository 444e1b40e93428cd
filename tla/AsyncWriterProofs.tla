-------------------------- MODULE AsyncWriterProofs --------------------------
(***************************************************************************)
(* Theorems about the asyncio file writers (AsyncWriter), for any number   *)
(* of messages, whichever of them are malformed or cannot be written, and  *)
(* for every moment at which a soft close, a hard one or a hard one in the *)
(* middle of a soft one is called.                                         *)
(***************************************************************************)
EXTENDS AsyncWriter, NumberLemmas, SequenceTheorems, TLAPS

(* The parts of the inductive invariant *)

Entry == [task : {"receive", "run", "put", "stop", "soft", "hard"}, item : Nat]

TypeOK ==
  /\ sent \in Nat
  /\ sock \in Seq(Nat)
  /\ ready \in Seq(Entry)
  /\ rpc \in {"start", "recv", "done"}
  /\ rcancel \in BOOLEAN
  /\ hand \in Nat
  /\ queue \in Seq(Nat)
  /\ wpc \in {"start", "get", "done", "raised"}
  /\ wcancel \in BOOLEAN
  /\ running \in BOOLEAN
  /\ stopping \in BOOLEAN
  /\ cpc \in [Closers -> {"no", "start", "sub", "writer", "closed", "raised"}]
  /\ closed \in BOOLEAN
  /\ loop \in {"running", "stopping", "stopped"}
  /\ received \in Seq(Nat)
  /\ due \in Seq(Nat)
  /\ written \in Seq(Nat)
  /\ failed \in Seq(Nat)

\* Puts and loop.stop apart, no task has two steps in the ready queue, and only a
\* put has an item.
ReadyOnce ==
  /\ \A i, j \in 1 .. Len(ready) :
       i < j /\ ready[i].task = ready[j].task => ready[i].task \in {"put", "stop"}
  /\ \A i \in 1 .. Len(ready) : ready[i].task # "put" => ready[i].item = None

\* Where the coroutines are, and which of them the ready queue has a step of: a close
\* waits for a task as long as that runs.
Scheduled ==
  /\ InReady("receive") => rpc # "done"
  /\ InReady("run") => wpc \in {"start", "get"}
  /\ \A c \in Closers :
       /\ cpc[c] = "start" => InReady(c)
       /\ InReady(c) => cpc[c] \in {"start", "sub", "writer"}
       /\ cpc[c] = "sub" => (InReady(c) <=> rpc = "done")
       /\ cpc[c] = "writer" =>
            rpc = "done" /\ (InReady(c) <=> wpc \notin {"start", "get"})

\* What is true once a close has come to its end.
Ending ==
  /\ InReady("stop") \/ loop # "running" =>
       rpc = "done" /\ wpc \notin {"start", "get"} /\ (closed \/ failed # << >>)
  /\ loop = "stopped" => ready = << >>
  /\ closed => wpc = "done"
  /\ \A c \in Closers : cpc[c] = "closed" => wpc = "done"

\* The file writer has raised at most once, and then run has ended.
Failing == wpc # "raised" <=> failed = << >>

\* A get that was not cancelled was woken by a put.
Woken == InReady("run") /\ wpc = "get" /\ ~ wcancel => queue # << >>

\* What has arrived and is not yet passed off wakes receive, until it is cancelled.
Arriving ==
  /\ rpc = "start" => InReady("receive")
  /\ hand # None \/ sock # << >> => InReady("receive")
  /\ rcancel => sock = << >> /\ stopping

\* Messages come in the order of their numbers.
Arrived == received \o <<hand>> \o sock

ArrivedInOrder ==
  /\ InOrder(Arrived)
  /\ \A m \in Messages(Arrived) : m <= sent

\* The flags as long as there is no hard close.
Flags ==
  cpc["hard"] \in {"no", "start"} =>
    /\ wpc # "start" => running
    /\ stopping => cpc["soft"] \notin {"no", "start"}
    /\ wpc = "done" => stopping

\* What a soft close finds written, or still to be written, step after step.
DueAhead ==
  \E i \in 1 .. Len(ready) :
    /\ ready[i].task = "soft"
    /\ Messages(due) \subseteq
         Messages(written) \cup Messages(failed) \cup Messages(queue)
         \cup {ready[j].item : j \in 1 .. i - 1}

DueKept ==
  cpc["hard"] = "no" =>
    /\ cpc["soft"] = "start" => DueAhead
    /\ cpc["soft"] \in {"sub", "writer"} =>
         Messages(due) \subseteq Messages(written) \cup Messages(failed) \cup Messages(queue)
    /\ cpc["soft"] \in {"sub", "writer", "closed"} /\ wpc = "done" =>
         Messages(due) \subseteq Messages(written)

Control == ReadyOnce /\ Scheduled /\ Ending /\ Failing /\ Woken

Data == Arriving /\ ArrivedInOrder /\ NothingLost

\* The inductive invariant
AInv == TypeOK /\ Control /\ Data /\ Flags /\ DueKept

-----------------------------------------------------------------------------
(* The ready queue *)

TaskNames == {"receive", "run", "soft", "hard"}

Tasks(s) == {s[i].task : i \in 1 .. Len(s)}

\* InReady, in terms of the positions of the queue and of its tasks
LEMMA InReadyMeans ==
  ASSUME ready \in Seq(Entry)
  PROVE  /\ \A t : InReady(t) <=> \E i \in 1 .. Len(ready) : ready[i].task = t
         /\ \A t : InReady(t) <=> t \in Tasks(ready)
BY LenProperties DEF InReady, Tasks

\* What a callback of task t may schedule: steps of tasks that have none but this.
Allowed(t, later) ==
  /\ later \in Seq(Entry)
  /\ \A i \in 1 .. Len(later) : later[i].task # "put" => later[i].item = None
  /\ \A i, j \in 1 .. Len(later) :
       i < j /\ later[i].task = later[j].task => later[i].task \in {"put", "stop"}
  /\ \A u \in Tasks(later) \ {"put", "stop", t} : ~ InReady(u)

\* A callback takes its own step off the queue and adds what it schedules.
LEMMA CallbackSteps ==
  ASSUME ready \in Seq(Entry), NEW t, NEW later \in Seq(Entry), Callback(t, later)
  PROVE  LET n     == Len(ready) - 1
             added == IF loop = "running" THEN later ELSE << >>
         IN  /\ n \in Nat /\ ready # << >> /\ loop # "stopped"
             /\ ready[1].task = t /\ Head(ready) = ready[1] /\ ready[1] \in Entry
             /\ added \in Seq(Entry) /\ Len(added) \in Nat
             /\ ready' \in Seq(Entry)
             /\ Len(ready') = n + Len(added)
             /\ \A i \in 1 .. n : ready'[i] = ready[i + 1]
             /\ \A i \in 1 .. Len(added) : ready'[n + i] = added[i]
             /\ \A i \in 1 .. Len(ready') :
                  \/ i \in 1 .. n /\ i + 1 \in 1 .. Len(ready)
                  \/ i - n \in 1 .. Len(added) /\ i = n + (i - n)
<1> DEFINE n     == Len(ready) - 1
           added == IF loop = "running" THEN later ELSE << >>
<1>1. /\ ready # << >> /\ loop # "stopped" /\ Head(ready).task = t
      /\ ready' = Tail(ready) \o added
  BY DEF Callback
<1>2. /\ Len(ready) \in Nat \ {0} /\ Head(ready) = ready[1] /\ Head(ready) \in Entry
      /\ Tail(ready) \in Seq(Entry) /\ Len(Tail(ready)) = n
      /\ \A i \in 1 .. n : Tail(ready)[i] = ready[i + 1]
  BY <1>1, EmptySeq, HeadTailProperties
<1>3. added \in Seq(Entry) /\ Len(added) \in Nat
  BY EmptySeq, LenProperties
<1> HIDE DEF added
<1>4. /\ ready' \in Seq(Entry)
      /\ Len(ready') = n + Len(added)
      /\ \A i \in 1 .. n + Len(added) :
           ready'[i] = IF i <= n THEN Tail(ready)[i] ELSE added[i - n]
  <2>1. /\ Tail(ready) \o added \in Seq(Entry)
        /\ Len(Tail(ready) \o added) = n + Len(added)
        /\ \A i \in 1 .. n + Len(added) :
             (Tail(ready) \o added)[i] = IF i <= n THEN Tail(ready)[i] ELSE added[i - n]
    BY <1>2, <1>3, ConcatProperties
  <2>2. QED
    BY <1>1, <2>1
<1>5. n \in Nat
  BY <1>2
<1>6. \A i \in 1 .. n : ready'[i] = ready[i + 1]
  BY <1>2, <1>3, <1>4, <1>5
<1>7. \A i \in 1 .. Len(added) : ready'[n + i] = added[i]
  <2> SUFFICES ASSUME NEW i \in 1 .. Len(added)
               PROVE  ready'[n + i] = added[i]
    OBVIOUS
  <2>1. n + i \in 1 .. n + Len(added) /\ ~ (n + i <= n) /\ (n + i) - n = i
    BY <1>3, <1>5
  <2>2. QED
    BY <1>4, <2>1
<1>8. \A i \in 1 .. Len(ready') :
        \/ i \in 1 .. n /\ i + 1 \in 1 .. Len(ready)
        \/ i - n \in 1 .. Len(added) /\ i = n + (i - n)
  BY <1>2, <1>3, <1>4, <1>5
<1>9. QED
  BY <1>1, <1>2, <1>3, <1>4, <1>5, <1>6, <1>7, <1>8 DEF added

\* What a callback makes of the queue: its own task has no step any more, unless it
\* schedules one, the other tasks keep theirs, and none gets a second one.
LEMMA CallbackReady ==
  ASSUME ready \in Seq(Entry), ReadyOnce,
         NEW t, NEW later, Allowed(t, later), Callback(t, later)
  PROVE  /\ InReady(t)
         /\ ready' \in Seq(Entry)
         /\ ReadyOnce'
         /\ \A u \in TaskNames :
              InReady(u)' <=> \/ u # t /\ InReady(u)
                              \/ loop = "running" /\ u \in Tasks(later)
         /\ InReady("stop")' => \/ InReady("stop")
                                \/ loop = "running" /\ "stop" \in Tasks(later)
<1> DEFINE n     == Len(ready) - 1
           added == IF loop = "running" THEN later ELSE << >>
<1>1. /\ n \in Nat /\ Len(ready) = n + 1
      /\ ready[1].task = t
      /\ added \in Seq(Entry) /\ Len(added) \in Nat
      /\ ready' \in Seq(Entry)
      /\ Len(ready') = n + Len(added)
      /\ \A i \in 1 .. n : ready'[i] = ready[i + 1]
      /\ \A i \in 1 .. Len(added) : ready'[n + i] = added[i]
      /\ \A i \in 1 .. Len(ready') :
           \/ i \in 1 .. n /\ i + 1 \in 1 .. Len(ready)
           \/ i - n \in 1 .. Len(added) /\ i = n + (i - n)
  BY CallbackSteps DEF Allowed
<1>2. /\ \A i \in 1 .. Len(added) : added[i].task # "put" => added[i].item = None
      /\ \A i, j \in 1 .. Len(added) :
           i < j /\ added[i].task = added[j].task => added[i].task \in {"put", "stop"}
      /\ \A i \in 1 .. Len(added) :
           added[i].task \in {"put", "stop", t} \/ ~ InReady(added[i].task)
      /\ \A u : (\E i \in 1 .. Len(added) : added[i].task = u)
                <=> loop = "running" /\ u \in Tasks(later)
  <2>1. CASE loop = "running"
    <3>1. added = later
      BY <2>1
    <3>2. QED
      BY <2>1, <3>1 DEF Allowed, Tasks
  <2>2. CASE loop # "running"
    <3>1. added = << >> /\ Len(<< >>) = 0
      BY <2>2
    <3>2. QED
      BY <2>2, <3>1
  <2>3. QED
    BY <2>1, <2>2
<1>3. \A u : InReady(u) <=> \E i \in 1 .. n + 1 : ready[i].task = u
  BY <1>1, InReadyMeans
<1> HIDE DEF added, n
<1>4. \A i \in 2 .. n + 1 : ready[i].task = t => t \in {"put", "stop"}
  <2> SUFFICES ASSUME NEW i \in 2 .. n + 1, ready[i].task = t
               PROVE  t \in {"put", "stop"}
    OBVIOUS
  <2>1. 1 \in 1 .. Len(ready) /\ i \in 1 .. Len(ready) /\ 1 < i
    BY <1>1
  <2>2. QED
    BY <1>1, <2>1 DEF ReadyOnce
<1>5. \A u : InReady(u)' <=> \/ \E i \in 2 .. n + 1 : ready[i].task = u
                             \/ loop = "running" /\ u \in Tasks(later)
  <2> SUFFICES ASSUME NEW u
               PROVE  InReady(u)' <=> \/ \E i \in 2 .. n + 1 : ready[i].task = u
                                      \/ loop = "running" /\ u \in Tasks(later)
    OBVIOUS
  <2>1. InReady(u)' <=> \E i \in 1 .. Len(ready') : ready'[i].task = u
    BY <1>1, LenProperties DEF InReady
  <2>2. ASSUME NEW i \in 1 .. Len(ready'), ready'[i].task = u
        PROVE  \/ \E k \in 2 .. n + 1 : ready[k].task = u
               \/ loop = "running" /\ u \in Tasks(later)
    <3>1. CASE i \in 1 .. n
      <4>1. i + 1 \in 2 .. n + 1 /\ ready[i + 1].task = u
        BY <1>1, <2>2, <3>1
      <4>2. QED
        BY <4>1
    <3>2. CASE i - n \in 1 .. Len(added) /\ i = n + (i - n)
      <4>1. added[i - n].task = u
        BY <1>1, <2>2, <3>2
      <4>2. QED
        BY <1>2, <3>2, <4>1
    <3>3. QED
      BY <1>1, <3>1, <3>2
  <2>3. ASSUME NEW i \in 2 .. n + 1, ready[i].task = u
        PROVE  \E k \in 1 .. Len(ready') : ready'[k].task = u
    <3>1. i - 1 \in 1 .. n /\ (i - 1) + 1 = i /\ i - 1 \in 1 .. Len(ready')
      BY <1>1
    <3>2. ready'[i - 1] = ready[i]
      BY <1>1, <3>1
    <3>3. QED
      BY <2>3, <3>1, <3>2
  <2>4. ASSUME loop = "running", u \in Tasks(later)
        PROVE  \E k \in 1 .. Len(ready') : ready'[k].task = u
    <3>1. PICK i \in 1 .. Len(added) : added[i].task = u
      BY <1>2, <2>4
    <3>2. n + i \in 1 .. Len(ready') /\ ready'[n + i] = added[i]
      BY <1>1
    <3>3. QED
      BY <3>1, <3>2
  <2>5. QED
    BY <2>1, <2>2, <2>3, <2>4
<1>6. InReady(t)
  <2>1. 1 \in 1 .. n + 1
    BY <1>1
  <2>2. QED
    BY <1>1, <1>3, <2>1
<1>7. \A u \in TaskNames :
        InReady(u)' <=> \/ u # t /\ InReady(u)
                        \/ loop = "running" /\ u \in Tasks(later)
  <2> SUFFICES ASSUME NEW u \in TaskNames
               PROVE  (\E i \in 2 .. n + 1 : ready[i].task = u) <=> u # t /\ InReady(u)
    BY <1>5
  <2>1. u \notin {"put", "stop"}
    BY DEF TaskNames
  <2>2. CASE u = t
    BY <1>4, <2>1, <2>2
  <2>3. CASE u # t
    <3>1. ASSUME NEW i \in 1 .. n + 1, ready[i].task = u
          PROVE  i \in 2 .. n + 1
      <4>1. i # 1
        BY <1>1, <2>3, <3>1
      <4>2. QED
        BY <1>1, <4>1
    <3>2. \A i \in 2 .. n + 1 : i \in 1 .. n + 1
      BY <1>1
    <3>3. QED
      BY <1>3, <2>3, <3>1, <3>2
  <2>4. QED
    BY <2>2, <2>3
<1>8. InReady("stop")' => \/ InReady("stop")
                          \/ loop = "running" /\ "stop" \in Tasks(later)
  <2>1. \A i \in 2 .. n + 1 : i \in 1 .. n + 1
    BY <1>1
  <2>2. QED
    BY <1>3, <1>5, <2>1
<1>9. ReadyOnce'
  <2>1. ASSUME NEW i \in 1 .. Len(ready'), ready'[i].task # "put"
        PROVE  ready'[i].item = None
    <3>1. CASE i \in 1 .. n /\ i + 1 \in 1 .. Len(ready)
      BY <1>1, <2>1, <3>1 DEF ReadyOnce
    <3>2. CASE i - n \in 1 .. Len(added) /\ i = n + (i - n)
      <4>1. ready'[i] = added[i - n]
        BY <1>1, <3>2
      <4>2. QED
        BY <1>2, <2>1, <3>2, <4>1
    <3>3. QED
      BY <1>1, <3>1, <3>2
  <2>2. ASSUME NEW i \in 1 .. Len(ready'), NEW j \in 1 .. Len(ready'), i < j,
               ready'[i].task = ready'[j].task, ready'[i].task \notin {"put", "stop"}
        PROVE  FALSE
    <3>1. CASE j \in 1 .. n
      <4>1. /\ i + 1 \in 1 .. Len(ready) /\ j + 1 \in 1 .. Len(ready) /\ i + 1 < j + 1
            /\ ready'[i] = ready[i + 1] /\ ready'[j] = ready[j + 1]
        BY <1>1, <2>2, <3>1
      <4>2. QED
        BY <2>2, <4>1 DEF ReadyOnce
    <3>2. CASE i \in 1 .. n /\ j - n \in 1 .. Len(added) /\ j = n + (j - n)
      <4>1. ready'[j] = added[j - n] /\ ready'[i] = ready[i + 1]
        BY <1>1, <3>2
      <4>2. i + 1 \in 2 .. n + 1 /\ i + 1 \in 1 .. n + 1
        BY <1>1, <3>2
      <4>3. InReady(ready'[i].task) /\ ready'[i].task # t
        BY <1>3, <1>4, <2>2, <4>1, <4>2
      <4>4. QED
        BY <1>2, <2>2, <3>2, <4>1, <4>3
    <3>3. CASE i - n \in 1 .. Len(added) /\ j - n \in 1 .. Len(added)
               /\ i = n + (i - n) /\ j = n + (j - n)
      <4>1. ready'[j] = added[j - n] /\ ready'[i] = added[i - n]
        BY <1>1, <3>3
      <4>2. i - n < j - n
        BY <1>1, <2>2
      <4>3. QED
        BY <1>2, <2>2, <3>3, <4>1, <4>2
    <3>4. i \notin 1 .. n => ~ (j \in 1 .. n)
      BY <1>1, <2>2
    <3>5. QED
      BY <1>1, <3>1, <3>2, <3>3, <3>4
  <2>3. QED
    BY <2>1, <2>2 DEF ReadyOnce
<1>10. QED
  BY <1>1, <1>6, <1>7, <1>8, <1>9

\* A step that is scheduled from outside of the loop.
LEMMA AppendReady ==
  ASSUME ready \in Seq(Entry), ReadyOnce,
         NEW t \in TaskNames, ~ InReady(t), ready' = Append(ready, Step(t))
  PROVE  /\ ready' \in Seq(Entry)
         /\ ReadyOnce'
         /\ \A u : InReady(u)' <=> InReady(u) \/ u = t
<1>1. Step(t) \in Entry /\ Step(t).task = t /\ Step(t).item = None
  BY DEF Step, Entry, TaskNames, None
<1>2. /\ ready' \in Seq(Entry) /\ Len(ready) \in Nat
      /\ Len(ready') = Len(ready) + 1
      /\ \A i \in 1 .. Len(ready) : ready'[i] = ready[i]
      /\ ready'[Len(ready) + 1] = Step(t)
  BY <1>1, AppendProperties, LenProperties
<1>3. \A i \in 1 .. Len(ready') : i \in 1 .. Len(ready) \/ i = Len(ready) + 1
  BY <1>2
<1>4. \A i \in 1 .. Len(ready) : ready[i].task # t
  BY InReadyMeans
<1>5. ReadyOnce'
  <2>1. ASSUME NEW i \in 1 .. Len(ready'), ready'[i].task # "put"
        PROVE  ready'[i].item = None
    BY <1>1, <1>2, <1>3, <2>1 DEF ReadyOnce
  <2>2. ASSUME NEW i \in 1 .. Len(ready'), NEW j \in 1 .. Len(ready'), i < j,
               ready'[i].task = ready'[j].task
        PROVE  ready'[i].task \in {"put", "stop"}
    <3>1. i \in 1 .. Len(ready) /\ ready'[i] = ready[i]
      BY <1>2, <1>3, <2>2
    <3>2. CASE j \in 1 .. Len(ready)
      BY <1>2, <2>2, <3>1, <3>2 DEF ReadyOnce
    <3>3. CASE j = Len(ready) + 1
      BY <1>1, <1>2, <1>4, <2>2, <3>1, <3>3
    <3>4. QED
      BY <1>3, <3>2, <3>3
  <2>3. QED
    BY <2>1, <2>2 DEF ReadyOnce
<1>6. ASSUME NEW u
      PROVE  InReady(u)' <=> InReady(u) \/ u = t
  <2>1. InReady(u)' <=> \E i \in 1 .. Len(ready') : ready'[i].task = u
    BY <1>2, LenProperties DEF InReady
  <2>2. InReady(u) <=> \E i \in 1 .. Len(ready) : ready[i].task = u
    BY InReadyMeans
  <2>3. \A i \in 1 .. Len(ready) : i \in 1 .. Len(ready')
    BY <1>2
  <2>4. Len(ready) + 1 \in 1 .. Len(ready')
    BY <1>2
  <2>5. QED
    BY <1>1, <1>2, <1>3, <2>1, <2>2, <2>3, <2>4
<1>7. QED
  BY <1>2, <1>5, <1>6

\* What the callbacks schedule: nothing, puts, a step of one task, the waiting
\* closes, or loop.stop.
LEMMA NothingLater == \A t : Allowed(t, << >>) /\ Tasks(<< >>) = {}
<1>1. << >> \in Seq(Entry) /\ Len(<< >>) = 0
  BY EmptySeq
<1>2. Tasks(<< >>) = {}
  BY <1>1 DEF Tasks
<1>3. QED
  BY <1>1, <1>2 DEF Allowed

\* A step of one task is allowed, if the task has none.
LEMMA OneLater ==
  ASSUME NEW t, NEW u \in TaskNames \cup {"stop"},
     u \in TaskNames => ~ InReady(u) \/ u = t
  PROVE  Allowed(t, <<Step(u)>>) /\ Tasks(<<Step(u)>>) = {u}
<1>1. Step(u) \in Entry /\ Step(u).task = u /\ Step(u).item = None
  BY DEF Step, Entry, TaskNames, None
<1> DEFINE s == <<Step(u)>>
<1>2. s \in Seq(Entry) /\ Len(s) = 1 /\ s[1] = Step(u)
  BY <1>1
<1> HIDE DEF s
<1>3. \A i \in 1 .. Len(s) : i = 1
  BY <1>2
<1>4. Tasks(s) = {u}
  BY <1>1, <1>2, <1>3 DEF Tasks
<1>5. \A i, j \in 1 .. Len(s) : ~ (i < j)
  BY <1>3
<1>6. Allowed(t, s)
  BY <1>1, <1>2, <1>3, <1>4, <1>5 DEF Allowed, TaskNames
<1>7. QED
  BY <1>4, <1>6 DEF s

\* So is what wakes a task.
LEMMA WakeLater ==
  ASSUME NEW t, NEW u \in TaskNames
  PROVE  Allowed(t, Wake(u)) /\ Tasks(Wake(u)) = IF InReady(u) THEN {} ELSE {u}
<1>1. CASE InReady(u)
  BY <1>1, NothingLater DEF Wake
<1>2. CASE ~ InReady(u)
  BY <1>2, OneLater DEF Wake
<1>3. QED
  BY <1>1, <1>2

\* And what wakes the closes that wait, if none of them has a step yet.
LEMMA ClosersLater ==
  ASSUME NEW t, NEW p, \A c \in Closers : cpc[c] = p => ~ InReady(c)
  PROVE  /\ Allowed(t, WakeClosers(p))
         /\ Tasks(WakeClosers(p)) = {c \in Closers : cpc[c] = p}
<1> DEFINE a == WakeCloser("soft", p)
           b == WakeCloser("hard", p)
<1>1. Closers = {"soft", "hard"} /\ Closers \subseteq TaskNames
  BY DEF Closers, TaskNames
<1>2. /\ a = IF cpc["soft"] = p THEN <<Step("soft")>> ELSE << >>
      /\ b = IF cpc["hard"] = p THEN <<Step("hard")>> ELSE << >>
      /\ WakeClosers(p) = a \o b
  BY DEF WakeCloser, WakeClosers
<1>3. /\ Step("soft") \in Entry /\ Step("soft").task = "soft" /\ Step("soft").item = None
      /\ Step("hard") \in Entry /\ Step("hard").task = "hard" /\ Step("hard").item = None
  BY DEF Step, Entry, None
<1> HIDE DEF a, b
<1>4. CASE cpc["soft"] = p /\ cpc["hard"] = p
  <2> DEFINE s == a \o b
  <2>1. WakeClosers(p) = s
    BY <1>2
  <2>2. /\ s \in Seq(Entry) /\ Len(s) = 2
        /\ s[1] = Step("soft") /\ s[2] = Step("hard")
    <3>1. a = <<Step("soft")>> /\ b = <<Step("hard")>>
      BY <1>2, <1>4
    <3>2. /\ a \in Seq(Entry) /\ Len(a) = 1 /\ a[1] = Step("soft")
          /\ b \in Seq(Entry) /\ Len(b) = 1 /\ b[1] = Step("hard")
      BY <1>3, <3>1
    <3>3. /\ a \o b \in Seq(Entry) /\ Len(a \o b) = 1 + 1
          /\ \A i \in 1 .. 1 + 1 : (a \o b)[i] = IF i <= 1 THEN a[i] ELSE b[i - 1]
      BY <3>2, ConcatProperties
    <3>4. QED
      BY <3>2, <3>3
  <2> HIDE DEF s
  <2>3. \A i \in 1 .. Len(s) : i = 1 \/ i = 2
    BY <2>2
  <2>4. Tasks(s) = {"soft", "hard"}
    BY <1>3, <2>2, <2>3 DEF Tasks
  <2>5. Allowed(t, s)
    <3>1. \A i, j \in 1 .. Len(s) : i < j => s[i].task # s[j].task
      BY <1>3, <2>2, <2>3
    <3>2. \A i \in 1 .. Len(s) : s[i].item = None
      BY <1>3, <2>2, <2>3
    <3>3. ~ InReady("soft") /\ ~ InReady("hard")
      BY <1>1, <1>4
    <3>4. QED
      BY <2>2, <2>4, <3>1, <3>2, <3>3 DEF Allowed
  <2>6. QED
    BY <1>1, <1>4, <2>1, <2>4, <2>5
<1>5. CASE cpc["soft"] = p /\ cpc["hard"] # p
  <2>1. WakeClosers(p) = <<Step("soft")>>
    BY <1>2, <1>3, <1>5
  <2>2. QED
    BY <1>1, <1>5, <2>1, OneLater
<1>6. CASE cpc["soft"] # p /\ cpc["hard"] = p
  <2>1. WakeClosers(p) = <<Step("hard")>>
    BY <1>2, <1>3, <1>6
  <2>2. QED
    BY <1>1, <1>6, <2>1, OneLater
<1>7. CASE cpc["soft"] # p /\ cpc["hard"] # p
  <2>1. WakeClosers(p) = << >>
    BY <1>2, <1>7
  <2>2. QED
    BY <1>1, <1>7, <2>1, NothingLater
<1>8. QED
  BY <1>4, <1>5, <1>6, <1>7

\* Puts are always allowed, and take the items along.
LEMMA PutsLater ==
  ASSUME NEW items \in Seq(Nat)
  PROVE  LET s == [i \in DOMAIN items |-> Put(items[i])]
         IN  /\ Allowed("receive", s)
             /\ Tasks(s) \subseteq {"put"}
             /\ Len(s) = Len(items)
             /\ \A i \in 1 .. Len(s) : s[i].item = items[i]
<1> DEFINE s == [i \in DOMAIN items |-> Put(items[i])]
<1>1. Len(items) \in Nat /\ DOMAIN items = 1 .. Len(items)
  BY LenProperties
<1>2. \A i \in 1 .. Len(items) :
        Put(items[i]) \in Entry /\ Put(items[i]).task = "put" /\ Put(items[i]).item = items[i]
  BY DEF Put, Entry
<1>3. s \in [1 .. Len(items) -> Entry]
  BY <1>1, <1>2
<1>4. s \in Seq(Entry) /\ Len(s) = Len(items)
  BY <1>1, <1>3
<1>5. \A i \in 1 .. Len(s) : s[i].task = "put" /\ s[i].item = items[i]
  BY <1>1, <1>2, <1>4
<1> HIDE DEF s
<1>6. Tasks(s) \subseteq {"put"}
  BY <1>5 DEF Tasks
<1>7. Allowed("receive", s)
  BY <1>4, <1>5, <1>6 DEF Allowed
<1>8. QED
  BY <1>4, <1>5, <1>6, <1>7 DEF s

-----------------------------------------------------------------------------
(* Types and control *)

\* How many items run takes: all it may, or up to one the file writer raises on.
LEMMA TakesProperties ==
  ASSUME queue \in Seq(Nat), NEW woken \in BOOLEAN, NEW run \in BOOLEAN,
         woken /\ ~ run => queue # << >>
  PROVE  LET k    == Takes(woken, run)
             most == IF run THEN Len(queue) ELSE IF woken THEN 1 ELSE 0
         IN  /\ k \in 0 .. Len(queue)
             /\ ~ (k > 0 /\ queue[k] \in Unwritable) => k = most
<1> DEFINE most == IF run THEN Len(queue) ELSE IF woken THEN 1 ELSE 0
           bad  == {i \in 1 .. most : queue[i] \in Unwritable}
<1>1. Len(queue) \in Nat /\ most \in 0 .. Len(queue)
  BY EmptySeq, LenProperties
<1> HIDE DEF most
<1>2. CASE bad = {}
  <2>1. Takes(woken, run) = most
    BY <1>2 DEF Takes, most
  <2>2. QED
    BY <1>1, <2>1 DEF most
<1>3. CASE bad # {}
  <2>1. bad \subseteq Nat
    BY <1>1
  <2>2. \E i \in bad : \A j \in bad : i <= j
    <3> HIDE DEF bad
    <3>1. QED
      BY <1>3, <2>1, LeastNumber, Zenon
  <2>3. Takes(woken, run) = CHOOSE l \in bad : \A j \in bad : l <= j
    BY <1>3 DEF Takes, most
  <2>4. Takes(woken, run) \in bad
    BY <2>2, <2>3
  <2>5. QED
    BY <1>1, <2>4
<1>4. QED
  BY <1>2, <1>3

\* What a step of run does with the buffer.
LEMMA RunEffect ==
  ASSUME TypeOK, Control, Run
  PROVE  /\ InReady("run") /\ wpc \in {"start", "get"} /\ loop = "running"
         /\ Callback("run", IF wpc' = "get" THEN << >> ELSE WakeClosers("writer"))
         /\ running' = (wpc = "start" \/ running) /\ wcancel' = FALSE
         /\ UNCHANGED <<sent, loop, recvVars, stopping, closeVars>>
         /\ \E k \in 0 .. Len(queue) :
              /\ queue' = SubSeq(queue, k + 1, Len(queue))
              /\ \/ /\ wpc' = "raised" /\ k >= 1
                    /\ failed' = <<queue[k]>>
                    /\ written' = written \o SubSeq(queue, 1, k - 1)
                 \/ /\ wpc' = (IF running' /\ ~ stopping THEN "get" ELSE "done")
                    /\ failed' = failed
                    /\ written' = written \o SubSeq(queue, 1, k)
                    /\ running' => k = Len(queue)
<1> DEFINE run   == wpc = "start" \/ running
           woken == wpc = "get" /\ ~ wcancel
           k     == Takes(woken, run)
           bad   == k > 0 /\ queue[k] \in Unwritable
           after == IF bad THEN "raised" ELSE IF ~ run \/ stopping THEN "done" ELSE "get"
<1>1. /\ Callback("run", IF after = "get" THEN << >> ELSE WakeClosers("writer"))
      /\ running' = run
      /\ queue' = SubSeq(queue, k + 1, Len(queue))
      /\ written' = written \o SubSeq(queue, 1, IF bad THEN k - 1 ELSE k)
      /\ failed' = IF bad THEN <<queue[k]>> ELSE failed
      /\ wpc' = after
      /\ wcancel' = FALSE
      /\ UNCHANGED <<sent, loop, recvVars, stopping, closeVars>>
  BY DEF Run
<1>2. InReady("run")
  <2>1. ready # << >> /\ Head(ready).task = "run" /\ Head(ready) = ready[1]
    BY <1>1 DEF Callback
  <2>2. 1 \in 1 .. Len(ready)
    BY <2>1, EmptySeq DEF TypeOK
  <2>3. QED
    BY <2>1, <2>2, InReadyMeans DEF TypeOK
<1>3. wpc \in {"start", "get"} /\ loop = "running"
  BY <1>2 DEF Control, Scheduled, Ending
<1>4. woken /\ ~ run => queue # << >>
  BY <1>2 DEF Control, Woken
<1>5. /\ k \in 0 .. Len(queue)
      /\ ~ bad => k = (IF run THEN Len(queue) ELSE IF woken THEN 1 ELSE 0)
  <2>1. queue \in Seq(Nat) /\ woken \in BOOLEAN /\ run \in BOOLEAN
    BY DEF TypeOK
  <2>2. QED
    BY <1>4, <2>1, TakesProperties
<1> HIDE DEF k, woken
<1>6. /\ queue' = SubSeq(queue, k + 1, Len(queue))
      /\ \/ /\ wpc' = "raised" /\ k >= 1
            /\ failed' = <<queue[k]>>
            /\ written' = written \o SubSeq(queue, 1, k - 1)
         \/ /\ wpc' = (IF running' /\ ~ stopping THEN "get" ELSE "done")
            /\ failed' = failed
            /\ written' = written \o SubSeq(queue, 1, k)
            /\ running' => k = Len(queue)
  <2>1. CASE bad
    BY <1>1, <1>5, <2>1
  <2>2. CASE ~ bad
    BY <1>1, <1>5, <2>2
  <2>3. QED
    BY <2>1, <2>2
<1>7. QED
  BY <1>1, <1>2, <1>3, <1>5, <1>6

\* The parts into which run divides the buffer.
LEMMA Parts ==
  ASSUME NEW q \in Seq(Nat), NEW k \in 0 .. Len(q)
  PROVE  /\ Len(q) \in Nat
         /\ SubSeq(q, k + 1, Len(q)) \in Seq(Nat)
         /\ Len(SubSeq(q, k + 1, Len(q))) = Len(q) - k
         /\ \A i \in 1 .. Len(q) - k : SubSeq(q, k + 1, Len(q))[i] = q[i + k]
         /\ SubSeq(q, 1, k) \in Seq(Nat)
         /\ Len(SubSeq(q, 1, k)) = k
         /\ \A i \in 1 .. k : SubSeq(q, 1, k)[i] = q[i]
<1>1. Len(q) \in Nat /\ \A i \in 1 .. Len(q) : q[i] \in Nat
  BY LenProperties, ElementOfSeq
<1>2. /\ SubSeq(q, k + 1, Len(q)) \in Seq(Nat)
      /\ Len(SubSeq(q, k + 1, Len(q))) = Len(q) - k
      /\ \A i \in 1 .. Len(q) - k : SubSeq(q, k + 1, Len(q))[i] = q[i + k]
  <2>1. \A i \in k + 1 .. Len(q) : q[i] \in Nat
    BY <1>1
  <2>2. /\ SubSeq(q, k + 1, Len(q)) \in Seq(Nat)
        /\ Len(SubSeq(q, k + 1, Len(q))) =
             IF k + 1 <= Len(q) THEN Len(q) - (k + 1) + 1 ELSE 0
        /\ \A i \in 1 .. Len(q) - (k + 1) + 1 :
             SubSeq(q, k + 1, Len(q))[i] = q[(k + 1) + i - 1]
    BY <1>1, <2>1, SubSeqProperties
  <2>3. /\ Len(q) - (k + 1) + 1 = Len(q) - k
        /\ \A i \in 1 .. Len(q) - k : (k + 1) + i - 1 = i + k
        /\ ~ (k + 1 <= Len(q)) => Len(q) - k = 0
    BY <1>1
  <2>4. QED
    BY <2>2, <2>3
<1>3. /\ SubSeq(q, 1, k) \in Seq(Nat)
      /\ Len(SubSeq(q, 1, k)) = k
      /\ \A i \in 1 .. k : SubSeq(q, 1, k)[i] = q[i]
  <2>1. \A i \in 1 .. k : q[i] \in Nat
    BY <1>1
  <2>2. /\ SubSeq(q, 1, k) \in Seq(Nat)
        /\ Len(SubSeq(q, 1, k)) = IF 1 <= k THEN k - 1 + 1 ELSE 0
        /\ \A i \in 1 .. k - 1 + 1 : SubSeq(q, 1, k)[i] = q[1 + i - 1]
    BY <1>1, <2>1, SubSeqProperties
  <2>3. /\ k - 1 + 1 = k /\ \A i \in 1 .. k : 1 + i - 1 = i
        /\ ~ (1 <= k) => k = 0
    BY <1>1
  <2>4. QED
    BY <2>2, <2>3
<1>4. QED
  BY <1>1, <1>2, <1>3

\* One lemma for each action: the types and the control part are kept.
LEMMA InitControl == Init => TypeOK /\ Control
<1> SUFFICES ASSUME Init
             PROVE  TypeOK /\ Control
  OBVIOUS
<1>1. /\ Step("receive") \in Entry /\ Step("receive").task = "receive"
      /\ Step("run") \in Entry /\ Step("run").task = "run"
      /\ Step("receive").item = None /\ Step("run").item = None
  BY DEF Step, Entry, None
<1>2. ready = <<Step("receive"), Step("run")>>
  BY DEF Init
<1>3. /\ ready \in Seq(Entry) /\ Len(ready) = 2
      /\ ready[1] = Step("receive") /\ ready[2] = Step("run")
  BY <1>1, <1>2
<1>4. \A i \in 1 .. Len(ready) : i = 1 \/ i = 2
  BY <1>3
<1>5. << >> \in Seq(Nat)
  BY EmptySeq
<1>6. cpc \in [Closers -> {"no", "start", "sub", "writer", "closed", "raised"}]
      /\ \A c \in Closers : cpc[c] = "no"
  BY DEF Init
<1>7. TypeOK
  BY <1>3, <1>5, <1>6 DEF Init, TypeOK, None
<1>8. \A t : InReady(t) <=> t \in {"receive", "run"}
  BY <1>1, <1>3, <1>4, InReadyMeans
<1>9. ReadyOnce
  BY <1>1, <1>3, <1>4 DEF ReadyOnce
<1>10. Scheduled
  BY <1>6, <1>8 DEF Init, Scheduled, Closers
<1>11. Ending /\ Failing /\ Woken
  BY <1>6, <1>8 DEF Init, Ending, Failing, Woken
<1>12. QED
  BY <1>7, <1>9, <1>10, <1>11 DEF Control

\* A message arrives: receive is woken if it has no step yet.
LEMMA ArriveControl ==
  ASSUME TypeOK, Control, Arrive
  PROVE  TypeOK' /\ Control'
<1>1. /\ UNCHANGED <<queue, loop, rpc, rcancel, received, wpc, wcancel, written, failed,
                      running, stopping, cpc, closed, due>>
      /\ sent' = sent + 1 /\ loop = "running"
  BY DEF Arrive, writeVars, flagVars, closeVars
<1>2. /\ ready' \in Seq(Entry) /\ ReadyOnce'
      /\ \A u : InReady(u)' => InReady(u) \/ (u = "receive" /\ rpc = "recv")
      /\ \A u : InReady(u) => InReady(u)'
      /\ hand' \in Nat /\ sock' \in Seq(Nat)
  <2>1. sent + 1 \in Nat
    BY DEF TypeOK
  <2>2. CASE /\ rpc = "recv" /\ ~ InReady("receive")
             /\ hand' = sent + 1
             /\ ready' = Append(ready, Step("receive"))
             /\ UNCHANGED sock
    <3>1. "receive" \in TaskNames
      BY DEF TaskNames
    <3>2. /\ ready' \in Seq(Entry) /\ ReadyOnce'
          /\ \A u : InReady(u)' <=> InReady(u) \/ u = "receive"
      BY <2>2, <3>1, AppendReady DEF TypeOK, Control
    <3>3. QED
      BY <2>1, <2>2, <3>2 DEF TypeOK
  <2>3. CASE sock' = Append(sock, sent + 1) /\ UNCHANGED <<hand, ready>>
    <3>1. sock' \in Seq(Nat)
      BY <2>1, <2>3, AppendProperties DEF TypeOK
    <3>2. QED
      BY <2>3, <3>1 DEF TypeOK, Control, ReadyOnce, InReady
  <2>4. QED
    BY <2>2, <2>3 DEF Arrive
<1>3. TypeOK'
  BY <1>1, <1>2 DEF TypeOK
<1>4. Closers = {"soft", "hard"}
  BY DEF Closers
<1>5. Scheduled'
  BY <1>1, <1>2, <1>4 DEF Control, Scheduled
<1>6. Ending' /\ Failing' /\ Woken'
  BY <1>1, <1>2 DEF Control, Ending, Failing, Woken
<1>7. QED
  BY <1>2, <1>3, <1>5, <1>6 DEF Control

\* receive goes back to its recv, with no step scheduled.
LEMMA ReceiveControl ==
  ASSUME TypeOK, Control, Receive
  PROVE  TypeOK' /\ Control'
<1> DEFINE taken == (IF hand = None THEN << >> ELSE <<hand>>) \o sock
           items == [i \in DOMAIN taken |-> Unpack(taken[i])]
           later == [i \in DOMAIN items |-> Put(items[i])]
<1>1. /\ Callback("receive", later)
      /\ sock' = << >> /\ hand' = None /\ rpc' = "recv"
      /\ received' = received \o items
      /\ UNCHANGED <<sent, queue, loop, rcancel, wpc, wcancel, written, failed,
                      running, stopping, cpc, closed, due>>
  BY DEF Receive, writeVars, flagVars, closeVars
<1>2. items \in Seq(Nat)
  <2>1. (IF hand = None THEN << >> ELSE <<hand>>) \in Seq(Nat)
    BY EmptySeq DEF TypeOK
  <2>2. taken \in Seq(Nat)
    BY <2>1, ConcatProperties DEF TypeOK
  <2> HIDE DEF taken
  <2>3. \A i \in 1 .. Len(taken) : Unpack(taken[i]) \in Nat
    BY <2>2 DEF Unpack, None
  <2>4. Len(taken) \in Nat /\ DOMAIN taken = 1 .. Len(taken)
    BY <2>2, LenProperties
  <2>5. items \in [1 .. Len(taken) -> Nat]
    BY <2>3, <2>4
  <2>6. QED
    BY <2>4, <2>5
<1> HIDE DEF items
<1>3. Allowed("receive", later) /\ Tasks(later) \subseteq {"put"}
  BY <1>2, PutsLater
<1> HIDE DEF later
<1>4. /\ InReady("receive") /\ ready' \in Seq(Entry) /\ ReadyOnce'
      /\ \A u \in TaskNames : InReady(u)' <=> u # "receive" /\ InReady(u)
      /\ InReady("stop")' => InReady("stop")
  <2>1. /\ InReady("receive") /\ ready' \in Seq(Entry) /\ ReadyOnce'
        /\ \A u \in TaskNames : InReady(u)' <=> \/ u # "receive" /\ InReady(u)
                                                \/ loop = "running" /\ u \in Tasks(later)
        /\ InReady("stop")' => \/ InReady("stop")
                               \/ loop = "running" /\ "stop" \in Tasks(later)
    BY <1>1, <1>3, CallbackReady DEF TypeOK, Control
  <2>2. QED
    BY <1>3, <2>1 DEF TaskNames
<1>5. rpc # "done" /\ loop = "running"
  BY <1>4 DEF Control, Scheduled, Ending, TypeOK
<1>6. TypeOK'
  BY <1>1, <1>2, <1>4, ConcatProperties, EmptySeq DEF TypeOK, None
<1>7. Scheduled'
  BY <1>1, <1>4, <1>5 DEF Control, Scheduled, Closers, TaskNames
<1>8. Ending' /\ Failing' /\ Woken'
  BY <1>1, <1>4, <1>5 DEF Control, Ending, Failing, Woken, TaskNames
<1>9. QED
  BY <1>4, <1>6, <1>7, <1>8 DEF Control

\* receive ends, and wakes the closes that wait for it.
LEMMA ReceiveCancelledControl ==
  ASSUME TypeOK, Control, ReceiveCancelled
  PROVE  TypeOK' /\ Control'
<1> DEFINE later == WakeClosers("sub")
<1>1. /\ Callback("receive", later)
      /\ rpc' = "done" /\ rcancel' = FALSE /\ hand' = None
      /\ UNCHANGED <<sent, sock, queue, loop, received, wpc, wcancel, written, failed,
                      running, stopping, cpc, closed, due>>
  BY DEF ReceiveCancelled, writeVars, flagVars, closeVars
<1>2. InReady("receive")
  <2>1. ready # << >> /\ Head(ready).task = "receive" /\ Head(ready) = ready[1]
    BY <1>1 DEF Callback
  <2>2. 1 \in 1 .. Len(ready)
    BY <2>1, EmptySeq DEF TypeOK
  <2>3. QED
    BY <2>1, <2>2, InReadyMeans DEF TypeOK
<1>3. rpc # "done" /\ loop = "running" /\ ~ InReady("stop")
  BY <1>2 DEF Control, Scheduled, Ending
<1>4. /\ Allowed("receive", later)
      /\ Tasks(later) = {c \in Closers : cpc[c] = "sub"}
  BY <1>3, ClosersLater DEF Control, Scheduled
<1> HIDE DEF later
<1>5. /\ ready' \in Seq(Entry) /\ ReadyOnce'
      /\ \A u \in TaskNames :
           InReady(u)' <=> \/ u # "receive" /\ InReady(u)
                           \/ u \in Closers /\ cpc[u] = "sub"
      /\ ~ InReady("stop")'
  <2>1. /\ ready' \in Seq(Entry) /\ ReadyOnce'
        /\ \A u \in TaskNames : InReady(u)' <=> \/ u # "receive" /\ InReady(u)
                                                \/ loop = "running" /\ u \in Tasks(later)
        /\ InReady("stop")' => \/ InReady("stop")
                               \/ loop = "running" /\ "stop" \in Tasks(later)
    BY <1>1, <1>4, CallbackReady DEF TypeOK, Control
  <2>2. QED
    BY <1>3, <1>4, <2>1 DEF Closers
<1>6. TypeOK'
  BY <1>1, <1>5 DEF TypeOK, None
<1>7. Scheduled'
  BY <1>1, <1>3, <1>5 DEF Control, Scheduled, Closers, TaskNames
<1>8. Ending' /\ Failing' /\ Woken'
  BY <1>1, <1>3, <1>5 DEF Control, Ending, Failing, Woken, TaskNames, Closers
<1>9. QED
  BY <1>5, <1>6, <1>7, <1>8 DEF Control

\* A put wakes a get that waits, and the buffer is not empty then.
LEMMA PutControl ==
  ASSUME TypeOK, Control, PutItem
  PROVE  TypeOK' /\ Control'
<1> DEFINE later == IF wpc = "get" THEN Wake("run") ELSE << >>
<1>1. /\ Callback("put", later)
      /\ queue' = Append(queue, Head(ready).item)
      /\ UNCHANGED <<sent, loop, sock, rpc, rcancel, hand, received, wpc, wcancel, written,
                      failed, running, stopping, cpc, closed, due>>
  BY DEF PutItem, recvVars, writeVars, flagVars, closeVars
<1>2. Allowed("put", later) /\ Tasks(later) \subseteq (IF wpc = "get" THEN {"run"} ELSE {})
  BY NothingLater, WakeLater DEF TaskNames
<1> HIDE DEF later
<1>3. /\ ready' \in Seq(Entry) /\ ReadyOnce'
      /\ \A u \in TaskNames : InReady(u)' => InReady(u) \/ (u = "run" /\ wpc = "get")
      /\ \A u \in TaskNames : InReady(u) => InReady(u)'
      /\ InReady("stop")' => InReady("stop")
  <2>1. /\ ready' \in Seq(Entry) /\ ReadyOnce'
        /\ \A u \in TaskNames : InReady(u)' <=> \/ u # "put" /\ InReady(u)
                                                \/ loop = "running" /\ u \in Tasks(later)
        /\ InReady("stop")' => \/ InReady("stop")
                               \/ loop = "running" /\ "stop" \in Tasks(later)
    BY <1>1, <1>2, CallbackReady DEF TypeOK, Control
  <2>2. QED
    BY <1>2, <2>1 DEF TaskNames
<1>4. queue' \in Seq(Nat) /\ queue' # << >>
  <2>1. Head(ready).item \in Nat
    <3>1. ready # << >>
      BY <1>1 DEF Callback
    <3>2. Head(ready) \in Entry
      BY <3>1, HeadTailProperties DEF TypeOK
    <3>3. QED
      BY <3>2 DEF Entry
  <2>2. queue \in Seq(Nat)
    BY DEF TypeOK
  <2> DEFINE x == Head(ready).item
  <2>3. queue' = Append(queue, x) /\ x \in Nat
    BY <1>1, <2>1
  <2> HIDE DEF x
  <2>4. /\ Append(queue, x) \in Seq(Nat) /\ Len(Append(queue, x)) = Len(queue) + 1
        /\ Len(queue) \in Nat
    BY <2>2, <2>3, AppendProperties, LenProperties
  <2>5. Append(queue, x) # << >>
    BY <2>4, EmptySeq
  <2>6. QED
    BY <2>3, <2>4, <2>5
<1>5. loop = "stopped" => ready' = << >>
  BY <1>1 DEF Callback
<1>6. TypeOK'
  BY <1>1, <1>3, <1>4 DEF TypeOK
<1>7. Scheduled'
  BY <1>1, <1>3 DEF Control, Scheduled, Closers, TaskNames
<1>8. Ending' /\ Failing' /\ Woken'
  BY <1>1, <1>3, <1>4, <1>5 DEF Control, Ending, Failing, Woken
<1>9. QED
  BY <1>3, <1>6, <1>7, <1>8 DEF Control

\* run waits, or ends and wakes the closes that wait for it.
LEMMA RunControl ==
  ASSUME TypeOK, Control, Run
  PROVE  TypeOK' /\ Control'
<1> DEFINE later == IF wpc' = "get" THEN << >> ELSE WakeClosers("writer")
<1>1. /\ InReady("run") /\ wpc \in {"start", "get"} /\ loop = "running"
      /\ Callback("run", later)
      /\ running' = (wpc = "start" \/ running) /\ wcancel' = FALSE
      /\ UNCHANGED <<sent, loop, sock, rpc, rcancel, hand, received, stopping, cpc, closed, due>>
  BY RunEffect DEF recvVars, closeVars
<1>2. /\ queue' \in Seq(Nat) /\ written' \in Seq(Nat) /\ failed' \in Seq(Nat)
      /\ wpc' \in {"get", "done", "raised"}
      /\ wpc' # "raised" <=> failed' = << >>
  <2>1. PICK k \in 0 .. Len(queue) :
          /\ queue' = SubSeq(queue, k + 1, Len(queue))
          /\ \/ /\ wpc' = "raised" /\ k >= 1
                /\ failed' = <<queue[k]>>
                /\ written' = written \o SubSeq(queue, 1, k - 1)
             \/ /\ wpc' = (IF running' /\ ~ stopping THEN "get" ELSE "done")
                /\ failed' = failed
                /\ written' = written \o SubSeq(queue, 1, k)
    BY RunEffect
  <2>2. queue \in Seq(Nat) /\ written \in Seq(Nat) /\ failed \in Seq(Nat)
    BY DEF TypeOK
  <2>3. queue' \in Seq(Nat) /\ SubSeq(queue, 1, k) \in Seq(Nat)
    BY <2>1, <2>2, Parts
  <2>4. CASE wpc' = "raised" /\ k >= 1 /\ failed' = <<queue[k]>>
             /\ written' = written \o SubSeq(queue, 1, k - 1)
    <3>1. k - 1 \in 0 .. Len(queue) /\ k \in 1 .. Len(queue)
      BY <2>2, <2>4, LenProperties
    <3>2. SubSeq(queue, 1, k - 1) \in Seq(Nat)
      BY <2>2, <3>1, Parts
    <3>3. queue[k] \in Nat /\ failed' # << >>
      BY <2>2, <2>4, <3>1
    <3>4. QED
      BY <2>2, <2>3, <2>4, <3>2, <3>3, ConcatProperties
  <2>5. CASE /\ wpc' = (IF running' /\ ~ stopping THEN "get" ELSE "done")
             /\ failed' = failed
             /\ written' = written \o SubSeq(queue, 1, k)
    <3>1. failed = << >>
      BY <1>1 DEF Control, Failing
    <3>2. QED
      BY <2>2, <2>3, <2>5, <3>1, ConcatProperties
  <2>6. QED
    BY <2>1, <2>4, <2>5
<1>3. ~ InReady("stop")
  BY <1>1 DEF Control, Ending
<1>4. /\ Allowed("run", later)
      /\ Tasks(later) = IF wpc' = "get" THEN {} ELSE {c \in Closers : cpc[c] = "writer"}
  BY <1>1, NothingLater, ClosersLater DEF Control, Scheduled
<1> HIDE DEF later
<1>5. /\ ready' \in Seq(Entry) /\ ReadyOnce'
      /\ \A u \in TaskNames :
           InReady(u)' <=> \/ u # "run" /\ InReady(u)
                           \/ wpc' # "get" /\ u \in Closers /\ cpc[u] = "writer"
      /\ ~ InReady("stop")'
  <2>1. /\ ready' \in Seq(Entry) /\ ReadyOnce'
        /\ \A u \in TaskNames : InReady(u)' <=> \/ u # "run" /\ InReady(u)
                                                \/ loop = "running" /\ u \in Tasks(later)
        /\ InReady("stop")' => \/ InReady("stop")
                               \/ loop = "running" /\ "stop" \in Tasks(later)
    BY <1>1, <1>4, CallbackReady DEF TypeOK, Control
  <2>2. QED
    BY <1>1, <1>3, <1>4, <2>1 DEF Closers
<1>6. running' \in BOOLEAN
  BY <1>1 DEF TypeOK
<1>7. TypeOK'
  BY <1>1, <1>2, <1>5, <1>6 DEF TypeOK
<1>8. Scheduled'
  BY <1>1, <1>2, <1>5 DEF Control, Scheduled, Closers, TaskNames
<1>9. Ending' /\ Failing' /\ Woken'
  BY <1>1, <1>2, <1>5 DEF Control, Ending, Failing, Woken, TaskNames, Closers
<1>10. QED
  BY <1>5, <1>7, <1>8, <1>9 DEF Control


\* A close is called: it has a step, and had none.
LEMMA CallCloseControl ==
  ASSUME TypeOK, Control, NEW c \in Closers, CallClose(c)
  PROVE  TypeOK' /\ Control'
<1>1. /\ loop = "running" /\ cpc[c] = "no"
      /\ cpc' = [cpc EXCEPT ![c] = "start"]
      /\ ready' = Append(ready, Step(c))
      /\ due' \in Seq(Nat)
      /\ UNCHANGED <<sent, queue, loop, sock, rpc, rcancel, hand, received, wpc, wcancel,
                      written, failed, running, stopping, closed>>
  <2>1. due \in Seq(Nat) /\ received \in Seq(Nat)
    BY DEF TypeOK
  <2>2. QED
    BY <2>1 DEF CallClose, recvVars, writeVars, flagVars
<1>2. Closers = {"soft", "hard"} /\ Closers \subseteq TaskNames
  BY DEF Closers, TaskNames
<1>3. c \in TaskNames /\ ~ InReady(c)
  BY <1>1, <1>2 DEF Control, Scheduled
<1>4. /\ ready' \in Seq(Entry) /\ ReadyOnce'
      /\ \A u : InReady(u)' <=> InReady(u) \/ u = c
  BY <1>1, <1>3, AppendReady DEF TypeOK, Control
<1>5. /\ cpc' \in [Closers -> {"no", "start", "sub", "writer", "closed", "raised"}]
      /\ cpc'[c] = "start" /\ \A d \in Closers : d # c => cpc'[d] = cpc[d]
  BY <1>1 DEF TypeOK
<1>6. TypeOK'
  BY <1>1, <1>4, <1>5 DEF TypeOK
<1>7. /\ InReady("receive")' <=> InReady("receive")
      /\ InReady("run")' <=> InReady("run")
      /\ InReady("stop")' <=> InReady("stop")
      /\ InReady(c)'
      /\ \A d \in Closers : d # c => (InReady(d)' <=> InReady(d))
  BY <1>2, <1>4
<1>8. Scheduled'
  BY <1>1, <1>5, <1>7 DEF Control, Scheduled
<1>9. Ending' /\ Failing' /\ Woken'
  BY <1>1, <1>5, <1>7 DEF Control, Ending, Failing, Woken
<1>10. QED
  BY <1>4, <1>6, <1>8, <1>9 DEF Control

\* A close waits for receive, which has a step now.
LEMMA CloseSubscriberControl ==
  ASSUME TypeOK, Control, NEW c \in Closers, CloseSubscriber(c)
  PROVE  TypeOK' /\ Control'
<1> DEFINE later == Wake("receive")
<1>1. /\ cpc[c] = "start" /\ rpc # "done"
      /\ Callback(c, later)
      /\ running' = (running /\ c = "soft") /\ stopping' = TRUE
      /\ sock' = << >> /\ rcancel' = TRUE
      /\ cpc' = [cpc EXCEPT ![c] = "sub"]
      /\ UNCHANGED <<sent, queue, loop, rpc, hand, received, wpc, wcancel,
                      written, failed, closed, due>>
  BY DEF CloseSubscriber, writeVars
<1>2. Closers = {"soft", "hard"} /\ Closers \subseteq TaskNames /\ "receive" \in TaskNames
  BY DEF Closers, TaskNames
<1>3. Allowed(c, later) /\ Tasks(later) \subseteq {"receive"}
  BY <1>2, WakeLater
<1> HIDE DEF later
<1>4. loop = "running" /\ ~ InReady("stop")
  BY <1>1 DEF Control, Ending
<1>5. /\ InReady(c) /\ ready' \in Seq(Entry) /\ ReadyOnce'
      /\ \A u \in TaskNames \ {"receive"} : InReady(u)' <=> u # c /\ InReady(u)
      /\ ~ InReady("stop")'
  <2>1. /\ InReady(c) /\ ready' \in Seq(Entry) /\ ReadyOnce'
        /\ \A u \in TaskNames : InReady(u)' <=> \/ u # c /\ InReady(u)
                                                \/ loop = "running" /\ u \in Tasks(later)
        /\ InReady("stop")' => \/ InReady("stop")
                               \/ loop = "running" /\ "stop" \in Tasks(later)
    BY <1>1, <1>3, CallbackReady DEF TypeOK, Control
  <2>2. QED
    BY <1>3, <1>4, <2>1
<1>6. /\ cpc' \in [Closers -> {"no", "start", "sub", "writer", "closed", "raised"}]
      /\ cpc'[c] = "sub" /\ \A d \in Closers : d # c => cpc'[d] = cpc[d]
  BY <1>1 DEF TypeOK
<1>7. TypeOK'
  <2>1. running' \in BOOLEAN /\ sock' \in Seq(Nat)
    BY <1>1, EmptySeq DEF TypeOK
  <2>2. QED
    BY <1>1, <1>5, <1>6, <2>1 DEF TypeOK
<1>8. Scheduled'
  <2>1. ~ InReady(c)' /\ (InReady("run")' <=> InReady("run"))
        /\ \A d \in Closers : d # c => (InReady(d)' <=> InReady(d))
    BY <1>2, <1>5 DEF TaskNames
  <2>2. QED
    BY <1>1, <1>6, <2>1 DEF Control, Scheduled
<1>9. Ending' /\ Failing' /\ Woken'
  <2>1. InReady("run")' <=> InReady("run")
    BY <1>2, <1>5 DEF TaskNames
  <2>2. QED
    BY <1>1, <1>4, <1>5, <1>6, <2>1 DEF Control, Ending, Failing, Woken
<1>10. QED
  BY <1>5, <1>7, <1>8, <1>9 DEF Control

\* A close waits for run.
LEMMA CloseWriterControl ==
  ASSUME TypeOK, Control, NEW c \in Closers, CloseWriter(c)
  PROVE  TypeOK' /\ Control'
<1> DEFINE later == IF queue = << >> THEN Wake("run") ELSE << >>
<1>1. /\ SubscriberClosed(c) /\ wpc \in {"start", "get"}
      /\ Callback(c, later)
      /\ running' \in BOOLEAN /\ stopping' = TRUE
      /\ wcancel' = (wcancel \/ queue = << >>)
      /\ cpc' = [cpc EXCEPT ![c] = "writer"]
      /\ UNCHANGED <<sent, queue, loop, sock, rpc, rcancel, hand, received, wpc,
                      written, failed, closed, due>>
  BY DEF CloseWriter, SetsFlags, recvVars, TypeOK
<1>2. Closers = {"soft", "hard"} /\ Closers \subseteq TaskNames /\ "run" \in TaskNames
  BY DEF Closers, TaskNames
<1>3. Allowed(c, later) /\ Tasks(later) \subseteq (IF queue = << >> THEN {"run"} ELSE {})
  BY <1>2, NothingLater, WakeLater
<1> HIDE DEF later
<1>4. loop = "running" /\ ~ InReady("stop")
  BY <1>1 DEF Control, Ending
<1>5. /\ InReady(c) /\ ready' \in Seq(Entry) /\ ReadyOnce'
      /\ \A u \in TaskNames \ {"run"} : InReady(u)' <=> u # c /\ InReady(u)
      /\ InReady("run")' => InReady("run") \/ queue = << >>
      /\ ~ InReady("stop")'
  <2>1. /\ InReady(c) /\ ready' \in Seq(Entry) /\ ReadyOnce'
        /\ \A u \in TaskNames : InReady(u)' <=> \/ u # c /\ InReady(u)
                                                \/ loop = "running" /\ u \in Tasks(later)
        /\ InReady("stop")' => \/ InReady("stop")
                               \/ loop = "running" /\ "stop" \in Tasks(later)
    BY <1>1, <1>3, CallbackReady DEF TypeOK, Control
  <2>2. QED
    BY <1>2, <1>3, <1>4, <2>1
<1>6. /\ cpc' \in [Closers -> {"no", "start", "sub", "writer", "closed", "raised"}]
      /\ cpc'[c] = "writer" /\ \A d \in Closers : d # c => cpc'[d] = cpc[d]
  BY <1>1 DEF TypeOK
<1>7. rpc = "done"
  BY <1>1, <1>5 DEF Control, Scheduled, SubscriberClosed
<1>8. TypeOK'
  <2>1. wcancel' \in BOOLEAN
    BY <1>1 DEF TypeOK
  <2>2. QED
    BY <1>1, <1>5, <1>6, <2>1 DEF TypeOK
<1>9. Scheduled'
  <2>1. ~ InReady(c)' /\ (InReady("receive")' <=> InReady("receive"))
        /\ \A d \in Closers : d # c => (InReady(d)' <=> InReady(d))
    BY <1>2, <1>5 DEF TaskNames
  <2>2. QED
    BY <1>1, <1>6, <1>7, <2>1 DEF Control, Scheduled
<1>10. Ending' /\ Failing' /\ Woken'
  BY <1>1, <1>4, <1>5, <1>6, <1>7 DEF Control, Ending, Failing, Woken
<1>11. QED
  BY <1>5, <1>8, <1>9, <1>10 DEF Control

\* A close ends, when receive and run have.
LEMMA CloseFileControl ==
  ASSUME TypeOK, Control, NEW c \in Closers, CloseFile(c)
  PROVE  TypeOK' /\ Control'
<1> DEFINE later == <<StopLoop>>
<1>1. /\ SubscriberClosed(c) \/ cpc[c] = "writer"
      /\ wpc \notin {"start", "get"}
      /\ Callback(c, later)
      /\ running' \in BOOLEAN /\ stopping' = TRUE
      /\ cpc' = [cpc EXCEPT ![c] = IF wpc = "raised" THEN "raised" ELSE "closed"]
      /\ closed' = (closed \/ wpc # "raised")
      /\ UNCHANGED <<sent, queue, loop, sock, rpc, rcancel, hand, received, wpc, wcancel,
                      written, failed, due>>
  BY DEF CloseFile, SetsFlags, recvVars, writeVars, TypeOK
<1>2. Closers = {"soft", "hard"} /\ Closers \subseteq TaskNames
  BY DEF Closers, TaskNames
<1>3. Allowed(c, later) /\ Tasks(later) = {"stop"}
  BY OneLater DEF StopLoop, TaskNames
<1> HIDE DEF later
<1>4. /\ InReady(c) /\ ready' \in Seq(Entry) /\ ReadyOnce'
      /\ \A u \in TaskNames : InReady(u)' <=> u # c /\ InReady(u)
  <2>1. /\ InReady(c) /\ ready' \in Seq(Entry) /\ ReadyOnce'
        /\ \A u \in TaskNames : InReady(u)' <=> \/ u # c /\ InReady(u)
                                                \/ loop = "running" /\ u \in Tasks(later)
    BY <1>1, <1>3, CallbackReady DEF TypeOK, Control
  <2>2. QED
    BY <1>3, <2>1 DEF TaskNames
<1>5. /\ cpc' \in [Closers -> {"no", "start", "sub", "writer", "closed", "raised"}]
      /\ cpc'[c] = (IF wpc = "raised" THEN "raised" ELSE "closed")
      /\ \A d \in Closers : d # c => cpc'[d] = cpc[d]
  BY <1>1 DEF TypeOK
<1>6. rpc = "done"
  BY <1>1, <1>4 DEF Control, Scheduled, SubscriberClosed
<1>7. loop # "stopped"
  BY <1>1 DEF Callback
<1>8. wpc \in {"done", "raised"}
  BY <1>1 DEF TypeOK
<1>9. TypeOK'
  <2>1. closed' \in BOOLEAN
    BY <1>1 DEF TypeOK
  <2>2. QED
    BY <1>1, <1>4, <1>5, <2>1 DEF TypeOK
<1>10. Scheduled'
  <2>1. /\ ~ InReady(c)' /\ (InReady("receive")' <=> InReady("receive"))
        /\ InReady("run")' <=> InReady("run")
        /\ \A d \in Closers : d # c => (InReady(d)' <=> InReady(d))
    BY <1>2, <1>4 DEF TaskNames
  <2>2. QED
    BY <1>1, <1>5, <1>6, <2>1 DEF Control, Scheduled
<1>11. Ending' /\ Failing' /\ Woken'
  <2>1. Ending'
    BY <1>1, <1>5, <1>6, <1>7, <1>8 DEF Control, Ending, Failing
  <2>2. QED
    BY <1>1, <1>8, <2>1 DEF Control, Failing, Woken
<1>12. QED
  BY <1>4, <1>9, <1>10, <1>11 DEF Control

\* loop.stop takes effect.
LEMMA StopControl ==
  ASSUME TypeOK, Control, Stop
  PROVE  TypeOK' /\ Control'
<1>1. /\ Callback("stop", << >>) /\ loop' = "stopping"
      /\ UNCHANGED <<sent, queue, sock, rpc, rcancel, hand, received, wpc, wcancel,
                      written, failed, running, stopping, cpc, closed, due>>
  BY DEF Stop, recvVars, writeVars, flagVars, closeVars
<1>2. Allowed("stop", << >>) /\ Tasks(<< >>) = {}
  BY NothingLater
<1>3. /\ InReady("stop") /\ ready' \in Seq(Entry) /\ ReadyOnce'
      /\ \A u \in TaskNames : InReady(u)' <=> u # "stop" /\ InReady(u)
  BY <1>1, <1>2, CallbackReady DEF TypeOK, Control
<1>4. \A u \in TaskNames : InReady(u)' <=> InReady(u)
  BY <1>3 DEF TaskNames
<1>5. TypeOK'
  BY <1>1, <1>3 DEF TypeOK
<1>6. Scheduled'
  BY <1>1, <1>4 DEF Control, Scheduled, Closers, TaskNames
<1>7. Ending' /\ Failing' /\ Woken'
  BY <1>1, <1>3, <1>4 DEF Control, Ending, Failing, Woken, TaskNames
<1>8. QED
  BY <1>3, <1>5, <1>6, <1>7 DEF Control

\* The loop returns when nothing is ready.
LEMMA ReturnControl ==
  ASSUME TypeOK, Control, Return
  PROVE  TypeOK' /\ Control'
<1>1. /\ loop = "stopping" /\ ready = << >> /\ loop' = "stopped"
      /\ UNCHANGED <<sent, ready, queue, sock, rpc, rcancel, hand, received, wpc, wcancel,
                      written, failed, running, stopping, cpc, closed, due>>
  BY DEF Return, recvVars, writeVars, flagVars, closeVars
<1>2. \A u : InReady(u)' <=> InReady(u)
  BY <1>1 DEF InReady
<1>3. TypeOK'
  BY <1>1 DEF TypeOK
<1>4. ReadyOnce' /\ Scheduled'
  BY <1>1, <1>2 DEF Control, ReadyOnce, Scheduled
<1>5. Ending' /\ Failing' /\ Woken'
  BY <1>1, <1>2 DEF Control, Ending, Failing, Woken
<1>6. QED
  BY <1>3, <1>4, <1>5 DEF Control

\* Every step keeps the types and the control part.
LEMMA StepControl ==
  ASSUME TypeOK, Control, [Next]_vars
  PROVE  TypeOK' /\ Control'
<1>1. CASE UNCHANGED vars
  <2>1. UNCHANGED <<sent, ready, queue, loop, sock, rpc, rcancel, hand, received, wpc,
                     wcancel, written, failed, running, stopping, cpc, closed, due>>
    BY <1>1 DEF vars, recvVars, writeVars, flagVars, closeVars
  <2>2. TypeOK'
    BY <2>1 DEF TypeOK
  <2>3. \A u : InReady(u)' <=> InReady(u)
    BY <2>1 DEF InReady
  <2>4. ReadyOnce' /\ Scheduled'
    BY <2>1, <2>3 DEF Control, ReadyOnce, Scheduled
  <2>5. Ending' /\ Failing' /\ Woken'
    BY <2>1, <2>3 DEF Control, Ending, Failing, Woken
  <2>6. QED
    BY <2>2, <2>4, <2>5 DEF Control
<1>2. CASE Next
  BY <1>2, ArriveControl, ReceiveControl, ReceiveCancelledControl, PutControl,
     RunControl,
     CallCloseControl, CloseSubscriberControl, CloseWriterControl, CloseFileControl,
     StopControl, ReturnControl DEF Next, LoopStep
<1>3. QED
  BY <1>1, <1>2

-----------------------------------------------------------------------------
(* Messages in order *)

Below(S, T) == \A m \in S, n \in T : m < n

\* The messages of a concatenation, and when they are in order
LEMMA Joined ==
  ASSUME NEW s \in Seq(Nat), NEW t \in Seq(Nat)
  PROVE  /\ s \o t \in Seq(Nat)
         /\ Messages(s \o t) = Messages(s) \cup Messages(t)
         /\ InOrder(s \o t) <=>
              InOrder(s) /\ InOrder(t) /\ Below(Messages(s), Messages(t))
<1> DEFINE u == s \o t
<1>1. /\ u \in Seq(Nat)
      /\ Len(s) \in Nat /\ Len(t) \in Nat
      /\ DOMAIN s = 1 .. Len(s) /\ DOMAIN t = 1 .. Len(t)
      /\ DOMAIN u = 1 .. Len(s) + Len(t)
      /\ \A i \in DOMAIN s : i \in DOMAIN u /\ u[i] = s[i]
      /\ \A i \in DOMAIN t : Len(s) + i \in DOMAIN u /\ u[Len(s) + i] = t[i]
      /\ \A i \in DOMAIN u :
           \/ i \in DOMAIN s /\ u[i] = s[i]
           \/ i > Len(s) /\ i - Len(s) \in DOMAIN t /\ u[i] = t[i - Len(s)]
  <2>1. /\ u \in Seq(Nat) /\ Len(u) = Len(s) + Len(t)
        /\ \A i \in 1 .. Len(s) + Len(t) :
             u[i] = IF i <= Len(s) THEN s[i] ELSE t[i - Len(s)]
    BY ConcatProperties
  <2>2. /\ Len(s) \in Nat /\ Len(t) \in Nat
        /\ DOMAIN s = 1 .. Len(s) /\ DOMAIN t = 1 .. Len(t)
    BY LenProperties
  <2> HIDE DEF u
  <2>3. DOMAIN u = 1 .. Len(s) + Len(t)
    BY <2>1, LenProperties
  <2>4. \A i \in DOMAIN s : i \in DOMAIN u /\ u[i] = s[i]
    BY <2>1, <2>2, <2>3
  <2>5. ASSUME NEW i \in DOMAIN t
        PROVE  Len(s) + i \in DOMAIN u /\ u[Len(s) + i] = t[i]
    <3>1. /\ Len(s) + i \in 1 .. Len(s) + Len(t)
          /\ ~ (Len(s) + i <= Len(s)) /\ (Len(s) + i) - Len(s) = i
      BY <2>2
    <3>2. QED
      BY <2>1, <2>3, <3>1
  <2>6. ASSUME NEW i \in DOMAIN u
        PROVE  \/ i \in DOMAIN s /\ u[i] = s[i]
               \/ i > Len(s) /\ i - Len(s) \in DOMAIN t /\ u[i] = t[i - Len(s)]
    BY <2>1, <2>2, <2>3
  <2>7. QED
    BY <2>1, <2>2, <2>3, <2>4, <2>5, <2>6
<1> HIDE DEF u
<1>2. Range(u) = Range(s) \cup Range(t)
  <2>1. Range(u) \subseteq Range(s) \cup Range(t)
    BY <1>1 DEF Range
  <2>2. Range(s) \subseteq Range(u)
    BY <1>1 DEF Range
  <2>3. ASSUME NEW i \in DOMAIN t
        PROVE  t[i] \in Range(u)
    BY <1>1 DEF Range
  <2>4. QED
    BY <2>1, <2>2, <2>3 DEF Range
<1>3. ASSUME InOrder(s), InOrder(t), Below(Messages(s), Messages(t))
      PROVE  InOrder(u)
  <2>1. SUFFICES ASSUME NEW i \in DOMAIN u, NEW j \in DOMAIN u,
                        i < j, u[i] # None, u[j] # None
                 PROVE  u[i] < u[j]
    BY DEF InOrder
  <2>2. CASE j \in DOMAIN s
    <3>1. i \in DOMAIN s /\ u[i] = s[i] /\ u[j] = s[j]
      BY <1>1, <2>1, <2>2
    <3>2. QED
      BY <1>3, <2>1, <2>2, <3>1 DEF InOrder
  <2>3. CASE i \notin DOMAIN s
    <3>1. i > Len(s) /\ i - Len(s) \in DOMAIN t /\ u[i] = t[i - Len(s)]
      BY <1>1, <2>1, <2>3
    <3>2. i \in Nat /\ j \in Nat /\ j > Len(s) /\ j \notin DOMAIN s
      <4>1. /\ i \in 1 .. Len(s) + Len(t) /\ j \in 1 .. Len(s) + Len(t)
            /\ Len(s) \in Nat /\ Len(t) \in Nat /\ DOMAIN s = 1 .. Len(s)
        BY <1>1
      <4>2. QED
        BY <2>1, <3>1, <4>1
    <3>3. j - Len(s) \in DOMAIN t /\ u[j] = t[j - Len(s)]
      BY <1>1, <2>1, <3>2
    <3>4. i - Len(s) < j - Len(s)
      BY <1>1, <2>1, <3>2
    <3>5. QED
      BY <1>3, <2>1, <3>1, <3>3, <3>4 DEF InOrder
  <2>4. CASE i \in DOMAIN s /\ j \notin DOMAIN s
    <3>1. u[i] \in Messages(s) /\ u[j] \in Messages(t)
      BY <1>1, <2>1, <2>4 DEF Messages, Range
    <3>2. QED
      BY <1>3, <3>1 DEF Below
  <2>5. QED
    BY <2>2, <2>3, <2>4
<1>4. ASSUME InOrder(u)
      PROVE  InOrder(s) /\ InOrder(t) /\ Below(Messages(s), Messages(t))
  <2>1. InOrder(s)
    BY <1>1, <1>4 DEF InOrder
  <2>2. ASSUME NEW i \in DOMAIN t, NEW j \in DOMAIN t, i < j, t[i] # None, t[j] # None
        PROVE  t[i] < t[j]
    <3>1. /\ Len(s) + i \in DOMAIN u /\ u[Len(s) + i] = t[i]
          /\ Len(s) + j \in DOMAIN u /\ u[Len(s) + j] = t[j]
          /\ Len(s) + i < Len(s) + j
      BY <1>1, <2>2
    <3>2. QED
      BY <1>4, <2>2, <3>1 DEF InOrder
  <2>3. ASSUME NEW i \in DOMAIN s, NEW j \in DOMAIN t, s[i] # None, t[j] # None
        PROVE  s[i] < t[j]
    <3>1. /\ i \in DOMAIN u /\ u[i] = s[i]
          /\ Len(s) + j \in DOMAIN u /\ u[Len(s) + j] = t[j]
          /\ i < Len(s) + j
      BY <1>1
    <3>2. QED
      BY <1>4, <2>3, <3>1 DEF InOrder
  <2>4. Below(Messages(s), Messages(t))
    BY <2>3 DEF Below, Messages, Range
  <2>5. QED
    BY <2>1, <2>2, <2>4 DEF InOrder
<1>5. QED
  BY <1>1, <1>2, <1>3, <1>4 DEF Messages, u

\* The same of a single item
LEMMA SingleMessage ==
  ASSUME NEW x \in Nat
  PROVE  /\ <<x>> \in Seq(Nat)
         /\ Messages(<<x>>) = {x} \ {None}
         /\ InOrder(<<x>>)
<1> DEFINE s == <<x>>
<1>1. s \in Seq(Nat) /\ Len(s) = 1 /\ DOMAIN s = 1 .. 1 /\ s[1] = x
  OBVIOUS
<1> HIDE DEF s
<1>2. \A i \in DOMAIN s : i = 1
  BY <1>1
<1>3. QED
  BY <1>1, <1>2 DEF Messages, Range, InOrder, s

\* A sequence of None, be it empty, has no messages.
LEMMA NoMessages ==
  ASSUME NEW s \in Seq(Nat), \A i \in 1 .. Len(s) : s[i] = None
  PROVE  Messages(s) = {} /\ InOrder(s)
<1>1. DOMAIN s = 1 .. Len(s)
  BY LenProperties
<1>2. QED
  BY <1>1 DEF Messages, Range, InOrder

\* So of the empty sequence.
LEMMA EmptyMessages == Messages(<< >>) = {} /\ InOrder(<< >>) /\ << >> \in Seq(Nat)
<1> DEFINE e == << >>
<1>1. e \in Seq(Nat) /\ Len(e) = 0
  BY EmptySeq
<1> HIDE DEF e
<1>2. \A i \in 1 .. Len(e) : e[i] = None
  BY <1>1
<1>3. Messages(e) = {} /\ InOrder(e)
  BY <1>1, <1>2, NoMessages
<1>4. QED
  BY <1>1, <1>3 DEF e

\* Messages are positive numbers.
LEMMA MessagesAreNumbers ==
  ASSUME NEW s \in Seq(Nat)
  PROVE  Messages(s) \subseteq Nat \ {0}
<1>1. DOMAIN s = 1 .. Len(s) /\ \A i \in 1 .. Len(s) : s[i] \in Nat
  BY LenProperties, ElementOfSeq
<1>2. QED
  BY <1>1 DEF Messages, Range, None

\* The path of the messages, in terms of its parts.
LEMMA PathMeans ==
  ASSUME NEW w \in Seq(Nat), NEW f \in Seq(Nat), NEW q \in Seq(Nat), NEW r \in Seq(Nat)
  PROVE  /\ Messages(w \o f \o q \o r) =
              Messages(w) \cup Messages(f) \cup Messages(q) \cup Messages(r)
         /\ InOrder(w \o f \o q \o r) <=>
              /\ InOrder(w) /\ InOrder(f) /\ InOrder(q) /\ InOrder(r)
              /\ Below(Messages(w), Messages(f))
              /\ Below(Messages(w), Messages(q))
              /\ Below(Messages(w), Messages(r))
              /\ Below(Messages(f), Messages(q))
              /\ Below(Messages(f), Messages(r))
              /\ Below(Messages(q), Messages(r))
<1>1. /\ w \o f \in Seq(Nat)
      /\ Messages(w \o f) = Messages(w) \cup Messages(f)
      /\ InOrder(w \o f) <=>
           InOrder(w) /\ InOrder(f) /\ Below(Messages(w), Messages(f))
  BY Joined
<1> DEFINE wf == w \o f
<1>2. /\ wf \o q \in Seq(Nat)
      /\ Messages(wf \o q) = Messages(wf) \cup Messages(q)
      /\ InOrder(wf \o q) <=>
           InOrder(wf) /\ InOrder(q) /\ Below(Messages(wf), Messages(q))
  <2>1. wf \in Seq(Nat)
    BY <1>1
  <2> HIDE DEF wf
  <2>2. QED
    BY <2>1, Joined
<1> DEFINE wfq == wf \o q
<1>3. /\ wfq \o r \in Seq(Nat)
      /\ Messages(wfq \o r) = Messages(wfq) \cup Messages(r)
      /\ InOrder(wfq \o r) <=>
           InOrder(wfq) /\ InOrder(r) /\ Below(Messages(wfq), Messages(r))
  <2>1. wfq \in Seq(Nat)
    BY <1>2
  <2> HIDE DEF wfq
  <2>2. QED
    BY <2>1, Joined
<1>4. \A S, T, U : Below(S \cup T, U) <=> Below(S, U) /\ Below(T, U)
  BY DEF Below
<1>5. /\ Messages(wf) = Messages(w) \cup Messages(f)
      /\ InOrder(wf) <=> InOrder(w) /\ InOrder(f) /\ Below(Messages(w), Messages(f))
      /\ Messages(wfq) = Messages(wf) \cup Messages(q)
      /\ InOrder(wfq) <=> InOrder(wf) /\ InOrder(q) /\ Below(Messages(wf), Messages(q))
      /\ w \o f \o q \o r = wfq \o r
  BY <1>1, <1>2
<1> HIDE DEF wf, wfq
<1>6. Messages(wfq \o r) = Messages(w) \cup Messages(f) \cup Messages(q) \cup Messages(r)
  BY <1>3, <1>5
<1>7. /\ Below(Messages(wf), Messages(q)) <=>
           Below(Messages(w), Messages(q)) /\ Below(Messages(f), Messages(q))
      /\ Below(Messages(wfq), Messages(r)) <=>
           /\ Below(Messages(w), Messages(r)) /\ Below(Messages(f), Messages(r))
           /\ Below(Messages(q), Messages(r))
  BY <1>4, <1>5
<1>8. QED
  BY <1>3, <1>5, <1>6, <1>7

\* A sequence is the function of its elements.
LEMMA FunctionOfSeq ==
  ASSUME NEW s \in Seq(Nat)
  PROVE  s = [i \in DOMAIN s |-> s[i]]
<1>1. s \in [1 .. Len(s) -> Nat] /\ DOMAIN s = 1 .. Len(s)
  BY LenProperties
<1>2. QED
  BY <1>1

\* The items of the ready queue after a callback: that of the callback is gone and
\* those of what it schedules are added.
LEMMA ItemsAfter ==
  ASSUME ready \in Seq(Entry), NEW t, NEW later \in Seq(Entry), Callback(t, later)
  PROVE  LET added == IF loop = "running" THEN later ELSE << >>
         IN  \E s, a \in Seq(Nat) :
               /\ Items = <<Head(ready).item>> \o s
               /\ Items' = s \o a
               /\ Len(a) = Len(added)
               /\ \A i \in 1 .. Len(a) : a[i] = added[i].item
<1> DEFINE n     == Len(ready) - 1
           added == IF loop = "running" THEN later ELSE << >>
           x     == Head(ready).item
<1>1. /\ n \in Nat /\ Len(ready) = n + 1 /\ x = ready[1].item
      /\ added \in Seq(Entry) /\ Len(added) \in Nat
      /\ ready' \in Seq(Entry)
      /\ Len(ready') = n + Len(added)
      /\ \A i \in 1 .. n : ready'[i] = ready[i + 1]
      /\ \A i \in 1 .. Len(added) : ready'[n + i] = added[i]
  BY CallbackSteps
<1>2. /\ DOMAIN ready = 1 .. n + 1 /\ DOMAIN ready' = 1 .. n + Len(added)
      /\ \A i \in 1 .. n + 1 : ready[i] \in Entry
      /\ \A i \in 1 .. Len(added) : added[i] \in Entry
  BY <1>1, LenProperties, ElementOfSeq
<1> HIDE DEF n, added
<1> DEFINE s == [i \in 1 .. n |-> ready[i + 1].item]
           a == [i \in 1 .. Len(added) |-> added[i].item]
<1>3. /\ s \in Seq(Nat) /\ Len(s) = n
      /\ \A i \in 1 .. n : s[i] = ready[i + 1].item
  <2>1. \A i \in 1 .. n : ready[i + 1].item \in Nat
    BY <1>1, <1>2 DEF Entry
  <2>2. s \in [1 .. n -> Nat]
    BY <2>1
  <2>3. QED
    BY <1>1, <2>2
<1>4. /\ a \in Seq(Nat) /\ Len(a) = Len(added)
      /\ \A i \in 1 .. Len(added) : a[i] = added[i].item
  <2>1. a \in [1 .. Len(added) -> Nat]
    BY <1>2 DEF Entry
  <2>2. QED
    BY <1>1, <2>1
<1>5. x \in Nat
  <2>1. ready[1] \in Entry
    BY <1>1, <1>2
  <2>2. QED
    BY <1>1, <2>1 DEF Entry
<1> HIDE DEF s, a, x
<1>6. Items = <<x>> \o s
  <2>1. Items = [i \in 1 .. n + 1 |-> ready[i].item]
    BY <1>2 DEF Items
  <2>2. /\ <<x>> \in Seq(Nat) /\ Len(<<x>>) = 1 /\ <<x>>[1] = x
    BY <1>5
  <2>3. /\ DOMAIN (<<x>> \o s) = 1 .. 1 + n
        /\ <<x>> \o s \in Seq(Nat)
        /\ \A i \in 1 .. 1 + n :
             (<<x>> \o s)[i] = IF i <= 1 THEN <<x>>[i] ELSE s[i - 1]
    BY <1>3, <2>2, ConcatProperties, LenProperties
  <2>4. \A i \in 1 .. 1 + n : (<<x>> \o s)[i] = ready[i].item
    <3> SUFFICES ASSUME NEW i \in 1 .. 1 + n
                 PROVE  (<<x>> \o s)[i] = ready[i].item
      OBVIOUS
    <3>1. CASE i = 1
      BY <1>1, <2>2, <2>3, <3>1
    <3>2. CASE i # 1
      <4>1. i - 1 \in 1 .. n /\ (i - 1) + 1 = i /\ ~ (i <= 1)
        BY <1>1, <3>2
      <4>2. QED
        BY <1>3, <2>3, <4>1
    <3>3. QED
      BY <3>1, <3>2
  <2>5. <<x>> \o s = [i \in 1 .. 1 + n |-> (<<x>> \o s)[i]]
    BY <2>3, FunctionOfSeq
  <2>6. 1 + n = n + 1
    BY <1>1
  <2>7. QED
    BY <2>1, <2>4, <2>5, <2>6
<1>7. Items' = s \o a
  <2>1. Items' = [i \in 1 .. n + Len(added) |-> ready'[i].item]
    BY <1>2 DEF Items
  <2>2. /\ DOMAIN (s \o a) = 1 .. n + Len(added)
        /\ s \o a \in Seq(Nat)
        /\ \A i \in 1 .. n + Len(added) :
             (s \o a)[i] = IF i <= n THEN s[i] ELSE a[i - n]
    <3>1. /\ s \o a \in Seq(Nat) /\ Len(s \o a) = Len(s) + Len(a)
          /\ \A i \in 1 .. Len(s) + Len(a) :
               (s \o a)[i] = IF i <= Len(s) THEN s[i] ELSE a[i - Len(s)]
      <4>1. s \in Seq(Nat) /\ a \in Seq(Nat)
        BY <1>3, <1>4
      <4>2. QED
        BY <4>1, ConcatProperties
    <3>2. DOMAIN (s \o a) = 1 .. Len(s \o a)
      BY <3>1, LenProperties
    <3>3. QED
      BY <1>3, <1>4, <3>1, <3>2
  <2>3. \A i \in 1 .. n + Len(added) : (s \o a)[i] = ready'[i].item
    <3> SUFFICES ASSUME NEW i \in 1 .. n + Len(added)
                 PROVE  (s \o a)[i] = ready'[i].item
      OBVIOUS
    <3>1. CASE i <= n
      BY <1>1, <1>3, <2>2, <3>1
    <3>2. CASE ~ (i <= n)
      <4>1. i - n \in 1 .. Len(added) /\ n + (i - n) = i
        BY <1>1, <3>2
      <4>2. ready'[n + (i - n)] = added[i - n]
        BY <1>1, <4>1
      <4>3. QED
        BY <1>4, <2>2, <3>2, <4>1, <4>2
    <3>3. QED
      BY <3>1, <3>2
  <2>4. s \o a = [i \in 1 .. n + Len(added) |-> (s \o a)[i]]
    BY <2>2, FunctionOfSeq
  <2>5. QED
    BY <2>1, <2>3, <2>4
<1>8. QED
  BY <1>3, <1>4, <1>6, <1>7 DEF x, added

\* The callback at the head of the ready queue is in it.
LEMMA HeadReady ==
  ASSUME TypeOK, NEW t, NEW later, Callback(t, later)
  PROVE  InReady(t)
<1>1. ready # << >> /\ Head(ready).task = t /\ Head(ready) = ready[1]
  BY DEF Callback
<1>2. 1 \in 1 .. Len(ready)
  BY <1>1, EmptySeq DEF TypeOK
<1>3. QED
  BY <1>1, <1>2, InReadyMeans DEF TypeOK

-----------------------------------------------------------------------------
(* Nothing is lost, and everything is in order *)

\* NothingLost in terms of the parts of the path, for constants
Kept(r, w, f, q, i) ==
  /\ Messages(r) = Messages(w) \cup Messages(f) \cup Messages(q) \cup Messages(i)
  /\ InOrder(w) /\ InOrder(f) /\ InOrder(q) /\ InOrder(i)
  /\ Below(Messages(w), Messages(f))
  /\ Below(Messages(w), Messages(q))
  /\ Below(Messages(w), Messages(i))
  /\ Below(Messages(f), Messages(q))
  /\ Below(Messages(f), Messages(i))
  /\ Below(Messages(q), Messages(i))

\* It says the same as NothingLost does of the path.
LEMMA KeptMeans ==
  ASSUME NEW w \in Seq(Nat), NEW f \in Seq(Nat), NEW q \in Seq(Nat),
     NEW i \in Seq(Nat), NEW r
  PROVE  Kept(r, w, f, q, i) <=>
           Messages(w \o f \o q \o i) = Messages(r) /\ InOrder(w \o f \o q \o i)
<1>1. /\ Messages(w \o f \o q \o i) =
           Messages(w) \cup Messages(f) \cup Messages(q) \cup Messages(i)
      /\ InOrder(w \o f \o q \o i) <=>
           /\ InOrder(w) /\ InOrder(f) /\ InOrder(q) /\ InOrder(i)
           /\ Below(Messages(w), Messages(f))
           /\ Below(Messages(w), Messages(q))
           /\ Below(Messages(w), Messages(i))
           /\ Below(Messages(f), Messages(q))
           /\ Below(Messages(f), Messages(i))
           /\ Below(Messages(q), Messages(i))
  BY PathMeans
<1>2. QED
  BY <1>1, Zenon DEF Kept

\* The items of the ready queue are numbers.
LEMMA ItemsType ==
  ASSUME NEW s \in Seq(Entry)
  PROVE  [i \in DOMAIN s |-> s[i].item] \in Seq(Nat)
<1>1. /\ Len(s) \in Nat /\ DOMAIN s = 1 .. Len(s)
      /\ \A i \in 1 .. Len(s) : s[i] \in Entry
  BY LenProperties, ElementOfSeq
<1>2. [i \in DOMAIN s |-> s[i].item] \in [1 .. Len(s) -> Nat]
  BY <1>1 DEF Entry
<1>3. QED
  BY <1>1, <1>2

\* So NothingLost is Kept of its variables, before a step ...
LEMMA LostMeans ==
  ASSUME TypeOK
  PROVE  /\ Items \in Seq(Nat)
         /\ NothingLost <=> Kept(received, written, failed, queue, Items)
<1>1. /\ Items \in Seq(Nat)
      /\ written \in Seq(Nat) /\ failed \in Seq(Nat) /\ queue \in Seq(Nat)
  BY ItemsType DEF TypeOK, Items
<1>2. Kept(received, written, failed, queue, Items) <=>
        /\ Messages(written \o failed \o queue \o Items) = Messages(received)
        /\ InOrder(written \o failed \o queue \o Items)
  BY <1>1, KeptMeans
<1>3. QED
  BY <1>1, <1>2 DEF NothingLost, Path

\* ... and after it.
LEMMA LostMeansNext ==
  ASSUME TypeOK'
  PROVE  /\ Items' \in Seq(Nat)
         /\ NothingLost' <=> Kept(received', written', failed', queue', Items')
<1>1. /\ Items' \in Seq(Nat)
      /\ written' \in Seq(Nat) /\ failed' \in Seq(Nat) /\ queue' \in Seq(Nat)
  BY ItemsType DEF TypeOK, Items
<1>2. Kept(received', written', failed', queue', Items') <=>
        /\ Messages(written' \o failed' \o queue' \o Items') = Messages(received')
        /\ InOrder(written' \o failed' \o queue' \o Items')
  BY <1>1, KeptMeans
<1>3. QED
  BY <1>1, <1>2 DEF NothingLost, Path

\* A callback that is not a put takes no item off.
LEMMA OtherItems ==
  ASSUME TypeOK, Control, NEW t, t # "put", NEW later \in Seq(Entry), Callback(t, later)
  PROVE  LET added == IF loop = "running" THEN later ELSE << >>
         IN  \E a \in Seq(Nat) :
               /\ Len(a) = Len(added)
               /\ \A i \in 1 .. Len(a) : a[i] = added[i].item
               /\ Messages(Items') = Messages(Items) \cup Messages(a)
               /\ InOrder(Items') <=>
                    InOrder(Items) /\ InOrder(a) /\ Below(Messages(Items), Messages(a))
<1> DEFINE added == IF loop = "running" THEN later ELSE << >>
<1>1. PICK s \in Seq(Nat), a \in Seq(Nat) :
        /\ Items = <<Head(ready).item>> \o s
        /\ Items' = s \o a
        /\ Len(a) = Len(added)
        /\ \A i \in 1 .. Len(a) : a[i] = added[i].item
  BY ItemsAfter DEF TypeOK
<1> HIDE DEF added
<1>2. Head(ready).item = None
  <2>1. ready # << >> /\ ready[1].task = t /\ Head(ready) = ready[1] /\ 1 \in 1 .. Len(ready)
    <3>1. ready \in Seq(Entry)
      BY DEF TypeOK
    <3>2. ready[1].task = t /\ Head(ready) = ready[1] /\ ready # << >>
      BY <3>1, CallbackSteps
    <3>3. QED
      BY <3>1, <3>2, EmptySeq
  <2>2. QED
    BY <2>1 DEF Control, ReadyOnce
<1> DEFINE h == <<None>>
<1>3. h \in Seq(Nat) /\ Messages(h) = {} /\ InOrder(h)
  BY SingleMessage DEF None
<1>4. Items = h \o s
  BY <1>1, <1>2
<1> HIDE DEF h
<1>5. Messages(Items) = Messages(s) /\ (InOrder(Items) <=> InOrder(s))
  <2>1. /\ Messages(h \o s) = Messages(h) \cup Messages(s)
        /\ InOrder(h \o s) <=> InOrder(h) /\ InOrder(s) /\ Below(Messages(h), Messages(s))
    BY <1>3, Joined
  <2>2. QED
    BY <1>3, <1>4, <2>1 DEF Below
<1>6. /\ Messages(Items') = Messages(s) \cup Messages(a)
      /\ InOrder(Items') <=> InOrder(s) /\ InOrder(a) /\ Below(Messages(s), Messages(a))
  <2>1. /\ Messages(s \o a) = Messages(s) \cup Messages(a)
        /\ InOrder(s \o a) <=> InOrder(s) /\ InOrder(a) /\ Below(Messages(s), Messages(a))
    BY Joined
  <2>2. QED
    BY <1>1, <2>1
<1>7. /\ Messages(Items') = Messages(Items) \cup Messages(a)
      /\ InOrder(Items') <=>
           InOrder(Items) /\ InOrder(a) /\ Below(Messages(Items), Messages(a))
  BY <1>5, <1>6
<1>8. QED
  BY <1>1, <1>7 DEF added

\* One that schedules no put either has no part in it.
LEMMA QuietItems ==
  ASSUME TypeOK, Control, NEW t, t # "put", NEW later \in Seq(Entry), Callback(t,
     later),
         \A i \in 1 .. Len(later) : later[i].item = None
  PROVE  Messages(Items') = Messages(Items) /\ (InOrder(Items') <=> InOrder(Items))
<1> DEFINE added == IF loop = "running" THEN later ELSE << >>
<1>1. PICK a \in Seq(Nat) :
        /\ Len(a) = Len(added)
        /\ \A i \in 1 .. Len(a) : a[i] = added[i].item
        /\ Messages(Items') = Messages(Items) \cup Messages(a)
        /\ InOrder(Items') <=>
             InOrder(Items) /\ InOrder(a) /\ Below(Messages(Items), Messages(a))
  BY OtherItems
<1>2. \A i \in 1 .. Len(added) : added[i].item = None
  <2>1. CASE loop = "running"
    <3>1. added = later
      BY <2>1
    <3>2. QED
      BY <3>1
  <2>2. CASE loop # "running"
    <3>1. Len(added) = 0
      BY <2>2, EmptySeq
    <3>2. QED
      BY <3>1
  <2>3. QED
    BY <2>1, <2>2
<1> HIDE DEF added
<1>3. Messages(a) = {} /\ InOrder(a)
  BY <1>1, <1>2, NoMessages
<1>4. QED
  BY <1>1, <1>3 DEF Below

\* A step that is scheduled from outside has no part in it either.
LEMMA AppendItems ==
  ASSUME TypeOK, NEW t \in TaskNames, ready' = Append(ready, Step(t))
  PROVE  Messages(Items') = Messages(Items) /\ (InOrder(Items') <=> InOrder(Items))
<1>1. Step(t) \in Entry /\ Step(t).item = None
  BY DEF Step, Entry, TaskNames, None
<1>2. /\ ready' \in Seq(Entry) /\ Len(ready) \in Nat
      /\ Len(ready') = Len(ready) + 1
      /\ \A i \in 1 .. Len(ready) : ready'[i] = ready[i]
      /\ ready'[Len(ready) + 1] = Step(t)
  BY <1>1, AppendProperties, LenProperties DEF TypeOK
<1>3. DOMAIN ready = 1 .. Len(ready) /\ DOMAIN ready' = 1 .. Len(ready) + 1
  BY <1>2, LenProperties DEF TypeOK
<1>4. /\ DOMAIN Items = 1 .. Len(ready)
      /\ DOMAIN Items' = 1 .. Len(ready) + 1
      /\ \A i \in 1 .. Len(ready) : Items[i] = ready[i].item
      /\ \A i \in 1 .. Len(ready) + 1 : Items'[i] = ready'[i].item
  BY <1>3 DEF Items
<1> HIDE DEF Items
<1>5. /\ \A i \in DOMAIN Items : i \in DOMAIN Items' /\ Items'[i] = Items[i]
      /\ \A i \in DOMAIN Items' : i \notin DOMAIN Items => Items'[i] = None
  BY <1>1, <1>2, <1>4
<1>6. Messages(Items') = Messages(Items)
  BY <1>5 DEF Messages, Range
<1>7. InOrder(Items') <=> InOrder(Items)
  BY <1>5 DEF InOrder
<1>8. QED
  BY <1>6, <1>7

\* A step that touches none of the messages keeps NothingLost.
LEMMA LostUnchanged ==
  ASSUME TypeOK, TypeOK', NothingLost, UNCHANGED <<written, failed, queue, received>>,
         Messages(Items') = Messages(Items) /\ (InOrder(Items') <=> InOrder(Items))
  PROVE  NothingLost'
<1>1. Kept(received, written, failed, queue, Items)
  BY LostMeans
<1>2. Kept(received', written', failed', queue', Items')
  <2> DEFINE i == Items
             j == Items'
  <2>1. Kept(received, written, failed, queue, i) /\ Messages(j) = Messages(i)
        /\ (InOrder(j) <=> InOrder(i))
    BY <1>1
  <2> HIDE DEF i, j
  <2>2. Kept(received, written, failed, queue, j)
    BY <2>1 DEF Kept
  <2>3. QED
    BY <2>2 DEF j
<1>3. QED
  BY <1>2, LostMeansNext

\* The messages after an append, and when they are in order
LEMMA AppendedMessage ==
  ASSUME NEW s \in Seq(Nat), NEW x \in Nat
  PROVE  /\ Append(s, x) \in Seq(Nat)
         /\ Messages(Append(s, x)) = Messages(s) \cup ({x} \ {None})
         /\ InOrder(Append(s, x)) <=> InOrder(s) /\ Below(Messages(s), {x} \ {None})
<1> DEFINE h == <<x>>
<1>1. h \in Seq(Nat) /\ Messages(h) = {x} \ {None} /\ InOrder(h)
  BY SingleMessage
<1>2. Append(s, x) = s \o h
  BY AppendIsConcat
<1> HIDE DEF h
<1>3. /\ s \o h \in Seq(Nat)
      /\ Messages(s \o h) = Messages(s) \cup Messages(h)
      /\ InOrder(s \o h) <=> InOrder(s) /\ InOrder(h) /\ Below(Messages(s), Messages(h))
  BY <1>1, Joined
<1>4. QED
  BY <1>1, <1>2, <1>3

\* ArrivedInOrder, in terms of its parts
Came(r, h, s, n) ==
  /\ InOrder(r) /\ InOrder(s)
  /\ Below(Messages(r), {h} \ {None})
  /\ Below(Messages(r), Messages(s))
  /\ Below({h} \ {None}, Messages(s))
  /\ \A m \in Messages(r) \cup ({h} \ {None}) \cup Messages(s) : m <= n

\* It says the same as ArrivedInOrder does of what has arrived.
LEMMA CameMeans ==
  ASSUME NEW r \in Seq(Nat), NEW h \in Nat, NEW s \in Seq(Nat), NEW n
  PROVE  Came(r, h, s, n) <=>
           /\ InOrder(r \o <<h>> \o s)
           /\ \A m \in Messages(r \o <<h>> \o s) : m <= n
<1> DEFINE p == r \o <<h>>
<1>1. p = Append(r, h)
  BY AppendIsConcat
<1>2. /\ p \in Seq(Nat)
      /\ Messages(p) = Messages(r) \cup ({h} \ {None})
      /\ InOrder(p) <=> InOrder(r) /\ Below(Messages(r), {h} \ {None})
  BY <1>1, AppendedMessage
<1> HIDE DEF p
<1>3. /\ Messages(p \o s) = Messages(p) \cup Messages(s)
      /\ InOrder(p \o s) <=> InOrder(p) /\ InOrder(s) /\ Below(Messages(p), Messages(s))
  BY <1>2, Joined
<1>4. Below(Messages(p), Messages(s)) <=>
        Below(Messages(r), Messages(s)) /\ Below({h} \ {None}, Messages(s))
  BY <1>2 DEF Below
<1>5. InOrder(p \o s) <=>
        /\ InOrder(r) /\ InOrder(s)
        /\ Below(Messages(r), {h} \ {None})
        /\ Below(Messages(r), Messages(s))
        /\ Below({h} \ {None}, Messages(s))
  BY <1>2, <1>3, <1>4
<1>6. Messages(p \o s) = Messages(r) \cup ({h} \ {None}) \cup Messages(s)
  BY <1>2, <1>3
<1>7. QED
  BY <1>5, <1>6 DEF Came, p

\* So ArrivedInOrder is Came of its variables, before a step ...
LEMMA ArrivedMeans ==
  TypeOK => (ArrivedInOrder <=> Came(received, hand, sock, sent))
<1>1. SUFFICES ASSUME TypeOK
               PROVE  ArrivedInOrder <=> Came(received, hand, sock, sent)
  OBVIOUS
<1>2. received \in Seq(Nat) /\ hand \in Nat /\ sock \in Seq(Nat)
  BY <1>1 DEF TypeOK
<1>3. QED
  BY <1>2, CameMeans DEF ArrivedInOrder, Arrived

\* ... and after it.
LEMMA ArrivedMeansNext ==
  TypeOK' => (ArrivedInOrder' <=> Came(received', hand', sock', sent'))
<1>1. SUFFICES ASSUME TypeOK'
               PROVE  ArrivedInOrder' <=> Came(received', hand', sock', sent')
  OBVIOUS
<1>2. received' \in Seq(Nat) /\ hand' \in Nat /\ sock' \in Seq(Nat)
  BY <1>1 DEF TypeOK
<1>3. QED
  BY <1>2, CameMeans DEF ArrivedInOrder, Arrived

\* A callback leaves the steps of the other tasks in the queue.
LEMMA StillReady ==
  ASSUME ready \in Seq(Entry), NEW t, NEW later \in Seq(Entry), Callback(t, later),
         NEW u, u # t, InReady(u)
  PROVE  InReady(u)'
<1> DEFINE n     == Len(ready) - 1
           added == IF loop = "running" THEN later ELSE << >>
<1>1. /\ n \in Nat /\ Len(ready) = n + 1 /\ ready[1].task = t
      /\ Len(added) \in Nat
      /\ ready' \in Seq(Entry)
      /\ Len(ready') = n + Len(added)
      /\ \A i \in 1 .. n : ready'[i] = ready[i + 1]
  BY CallbackSteps
<1> HIDE DEF n, added
<1>2. PICK i \in 1 .. Len(ready) : ready[i].task = u
  BY InReadyMeans
<1>3. i - 1 \in 1 .. n /\ (i - 1) + 1 = i /\ i - 1 \in 1 .. Len(ready')
  BY <1>1, <1>2
<1>4. ready'[i - 1].task = u
  BY <1>1, <1>2, <1>3
<1>5. DOMAIN ready' = 1 .. Len(ready')
  BY <1>1, LenProperties
<1>6. QED
  BY <1>3, <1>4, <1>5 DEF InReady

\* Initially there are no messages.
LEMMA InitData == Init => TypeOK /\ Data
<1> SUFFICES ASSUME Init
             PROVE  TypeOK /\ Data
  OBVIOUS
<1>1. TypeOK
  BY InitControl
<1>2. /\ Messages(<< >>) = {} /\ InOrder(<< >>)
      /\ received = << >> /\ sock = << >> /\ hand = None /\ sent = 0
      /\ written = << >> /\ failed = << >> /\ queue = << >>
      /\ rpc = "start" /\ ~ rcancel
      /\ ready = <<Step("receive"), Step("run")>>
  BY EmptyMessages DEF Init
<1>3. ArrivedInOrder
  <2>1. Came(received, hand, sock, sent)
    BY <1>2, Zenon DEF Came, Below
  <2>2. QED
    BY <1>1, <2>1, ArrivedMeans
<1>4. /\ Len(ready) = 2 /\ ready[1] = Step("receive") /\ ready[2] = Step("run")
      /\ \A i \in 1 .. Len(ready) : i = 1 \/ i = 2
  BY <1>2
<1>5. NothingLost
  <2>1. Items \in Seq(Nat)
    BY <1>1, LostMeans
  <2>2. DOMAIN ready = 1 .. Len(ready) /\ Len(Items) = Len(ready)
    BY <1>1, <2>1, LenProperties DEF TypeOK, Items
  <2>3. \A i \in 1 .. Len(Items) : Items[i] = None
    BY <1>4, <2>2 DEF Items, Step
  <2>4. Messages(Items) = {} /\ InOrder(Items)
    <3> DEFINE s == Items
    <3>1. s \in Seq(Nat) /\ \A i \in 1 .. Len(s) : s[i] = None
      BY <2>1, <2>3
    <3> HIDE DEF s
    <3>2. Messages(s) = {} /\ InOrder(s)
      BY <3>1, NoMessages
    <3>3. QED
      BY <3>2 DEF s
  <2>5. Kept(received, written, failed, queue, Items)
    BY <1>2, <2>4 DEF Kept, Below
  <2>6. QED
    BY <1>1, <2>5, LostMeans
<1>6. Arriving
  <2>1. InReady("receive")
    <3>1. 1 \in 1 .. Len(ready) /\ ready[1].task = "receive"
      BY <1>4 DEF Step
    <3>2. QED
      BY <1>1, <3>1, InReadyMeans DEF TypeOK
  <2>2. QED
    BY <1>2, <2>1 DEF Arriving
<1>7. QED
  BY <1>1, <1>3, <1>5, <1>6 DEF Data

\* A message that arrives is newer than all others.
LEMMA ArriveData ==
  ASSUME TypeOK, Control, Data, TypeOK', Arrive
  PROVE  Data'
<1>1. /\ UNCHANGED <<queue, rpc, rcancel, received, written, failed, stopping>>
      /\ sent' = sent + 1 /\ sent \in Nat /\ ~ stopping
      /\ \/ /\ rpc = "recv" /\ ~ InReady("receive")
            /\ hand' = sent + 1
            /\ ready' = Append(ready, Step("receive"))
            /\ UNCHANGED sock
         \/ /\ rpc = "start" \/ InReady("receive")
            /\ sock' = Append(sock, sent + 1)
            /\ UNCHANGED <<hand, ready>>
  BY DEF Arrive, writeVars, flagVars, TypeOK
<1>2. "receive" \in TaskNames /\ ready \in Seq(Entry) /\ sock \in Seq(Nat)
  BY DEF TaskNames, TypeOK
<1>3. Came(received, hand, sock, sent)
  BY ArrivedMeans DEF Data
<1>4. /\ Messages(received) \subseteq Nat /\ Messages(sock) \subseteq Nat /\ hand \in Nat
  BY MessagesAreNumbers DEF TypeOK
<1>5. CASE /\ rpc = "recv" /\ ~ InReady("receive")
           /\ hand' = sent + 1
           /\ ready' = Append(ready, Step("receive"))
           /\ UNCHANGED sock
  <2>1. hand = None /\ sock = << >>
    BY <1>5 DEF Data, Arriving
  <2>2. InReady("receive")'
    BY <1>2, <1>5, AppendReady DEF Control
  <2>3. Arriving'
    BY <1>1, <1>5, <2>2 DEF Data, Arriving
  <2>4. Came(received', hand', sock', sent')
    <3>1. Messages(sock) = {} /\ InOrder(sock)
      BY <2>1, EmptyMessages
    <3>2. \A m \in Messages(received) : m <= sent /\ m < sent + 1
      BY <1>1, <1>3, <1>4 DEF Came
    <3>3. /\ Below(Messages(received), {sent + 1} \ {None})
          /\ Below(Messages(received), {}) /\ Below({sent + 1} \ {None}, {})
      BY <3>2 DEF Below
    <3>4. \A m \in Messages(received) \cup ({sent + 1} \ {None}) \cup {} : m <= sent + 1
      BY <1>1, <1>4, <3>2
    <3>5. InOrder(received)
      BY <1>3 DEF Came
    <3>6. QED
      BY <1>1, <1>5, <3>1, <3>3, <3>4, <3>5 DEF Came
  <2>5. NothingLost'
    <3>1. Messages(Items') = Messages(Items) /\ (InOrder(Items') <=> InOrder(Items))
      BY <1>2, <1>5, AppendItems
    <3>2. QED
      BY <1>1, <3>1, LostUnchanged DEF Data
  <2>6. QED
    BY <2>3, <2>4, <2>5, ArrivedMeansNext DEF Data
<1>6. CASE /\ rpc = "start" \/ InReady("receive")
           /\ sock' = Append(sock, sent + 1)
           /\ UNCHANGED <<hand, ready>>
  <2>1. InReady("receive")'
    <3>1. InReady("receive")
      BY <1>6 DEF Data, Arriving
    <3>2. QED
      BY <1>6, <3>1 DEF InReady
  <2>2. ~ rcancel
    BY <1>1 DEF Data, Arriving
  <2>3. Arriving'
    BY <1>1, <2>1, <2>2 DEF Arriving
  <2>4. Came(received', hand', sock', sent')
    <3> DEFINE x == sent + 1
    <3>1. x \in Nat /\ {x} \ {None} = {x}
      BY <1>1 DEF None
    <3>2. \A m \in Messages(received) \cup ({hand} \ {None}) \cup Messages(sock) :
            m <= sent /\ m < x /\ m <= x
      BY <1>1, <1>3, <1>4 DEF Came
    <3> HIDE DEF x
    <3>3. /\ Messages(Append(sock, x)) = Messages(sock) \cup {x}
          /\ InOrder(Append(sock, x)) <=> InOrder(sock) /\ Below(Messages(sock), {x})
      BY <1>2, <3>1, AppendedMessage
    <3>4. /\ Below(Messages(sock), {x})
          /\ Below(Messages(received), Messages(sock) \cup {x})
          /\ Below({hand} \ {None}, Messages(sock) \cup {x})
      BY <1>3, <3>2 DEF Came, Below
    <3>5. \A m \in Messages(received) \cup ({hand} \ {None}) \cup (Messages(sock) \cup {x}) :
            m <= x
      BY <3>1, <3>2
    <3>6. /\ sock' = Append(sock, x) /\ hand' = hand /\ sent' = x /\ received' = received
      BY <1>1, <1>6 DEF x
    <3>7. Came(received, hand, Append(sock, x), x)
      BY <1>3, <3>3, <3>4, <3>5 DEF Came
    <3>8. QED
      BY <3>6, <3>7
  <2>5. NothingLost'
    <3>1. Items' = Items
      BY <1>6 DEF Items
    <3>2. QED
      BY <1>1, <3>1, LostUnchanged DEF Data
  <2>6. QED
    BY <2>3, <2>4, <2>5, ArrivedMeansNext DEF Data
<1>7. QED
  BY <1>1, <1>5, <1>6

\* What receive passes off: what it takes, or None in its place.
LEMMA Unpacked ==
  ASSUME NEW s \in Seq(Nat)
  PROVE  LET u == [i \in DOMAIN s |-> Unpack(s[i])]
         IN  /\ u \in Seq(Nat)
             /\ Messages(u) \subseteq Messages(s)
             /\ InOrder(s) => InOrder(u)
<1> DEFINE u == [i \in DOMAIN s |-> Unpack(s[i])]
<1>1. /\ Len(s) \in Nat /\ DOMAIN s = 1 .. Len(s)
      /\ \A i \in 1 .. Len(s) : s[i] \in Nat
  BY LenProperties, ElementOfSeq
<1>2. \A i \in 1 .. Len(s) : Unpack(s[i]) \in Nat /\ Unpack(s[i]) \in {None, s[i]}
  BY <1>1 DEF Unpack, None
<1>3. u \in [1 .. Len(s) -> Nat]
  BY <1>1, <1>2
<1>4. u \in Seq(Nat) /\ DOMAIN u = DOMAIN s /\ \A i \in DOMAIN s : u[i] \in {None, s[i]}
  BY <1>1, <1>2, <1>3
<1> HIDE DEF u
<1>5. QED
  BY <1>4 DEF Messages, Range, InOrder, u

\* receive takes all that has arrived, and schedules a put for each.
LEMMA ReceiveData ==
  ASSUME TypeOK, Control, Data, TypeOK', Receive
  PROVE  Data'
<1> DEFINE taken == (IF hand = None THEN << >> ELSE <<hand>>) \o sock
           items == [i \in DOMAIN taken |-> Unpack(taken[i])]
           later == [i \in DOMAIN items |-> Put(items[i])]
<1>1. /\ ~ rcancel /\ Callback("receive", later)
      /\ sock' = << >> /\ hand' = None /\ rpc' = "recv"
      /\ received' = received \o items
      /\ UNCHANGED <<sent, queue, loop, rcancel, written, failed>>
  BY DEF Receive, writeVars
<1>2. Came(received, hand, sock, sent)
  BY ArrivedMeans DEF Data
<1>3. /\ taken \in Seq(Nat)
      /\ Messages(taken) = ({hand} \ {None}) \cup Messages(sock)
      /\ InOrder(taken)
  <2> DEFINE h == IF hand = None THEN << >> ELSE <<hand>>
  <2>1. hand \in Nat /\ sock \in Seq(Nat)
    BY DEF TypeOK
  <2>2. h \in Seq(Nat) /\ Messages(h) = {hand} \ {None} /\ InOrder(h)
    <3>1. CASE hand = None
      BY <3>1, EmptyMessages
    <3>2. CASE hand # None
      BY <2>1, <3>2, SingleMessage
    <3>3. QED
      BY <3>1, <3>2
  <2>3. taken = h \o sock
    OBVIOUS
  <2> HIDE DEF h, taken
  <2>4. /\ h \o sock \in Seq(Nat)
        /\ Messages(h \o sock) = Messages(h) \cup Messages(sock)
        /\ InOrder(h \o sock) <=> InOrder(h) /\ InOrder(sock) /\ Below(Messages(h), Messages(sock))
    BY <2>1, <2>2, Joined
  <2>5. InOrder(sock) /\ Below({hand} \ {None}, Messages(sock))
    BY <1>2 DEF Came
  <2>6. QED
    BY <2>2, <2>3, <2>4, <2>5
<1> HIDE DEF taken
<1>4. /\ items \in Seq(Nat) /\ InOrder(items)
      /\ Messages(items) \subseteq ({hand} \ {None}) \cup Messages(sock)
  BY <1>3, Unpacked
<1> HIDE DEF items
<1>5. /\ Allowed("receive", later) /\ Len(later) = Len(items)
      /\ \A i \in 1 .. Len(later) : later[i].item = items[i]
  BY <1>4, PutsLater
<1> HIDE DEF later
<1>6. later \in Seq(Entry)
  BY <1>5 DEF Allowed
<1>7. loop = "running"
  <2>1. InReady("receive")
    BY <1>1, <1>5, CallbackReady DEF TypeOK, Control
  <2>2. QED
    BY <2>1 DEF Control, Scheduled, Ending, TypeOK
<1>8. /\ Messages(Items') = Messages(Items) \cup Messages(items)
      /\ InOrder(Items') <=>
           InOrder(Items) /\ InOrder(items) /\ Below(Messages(Items), Messages(items))
  <2> DEFINE added == IF loop = "running" THEN later ELSE << >>
  <2>1. PICK a \in Seq(Nat) :
          /\ Len(a) = Len(added)
          /\ \A i \in 1 .. Len(a) : a[i] = added[i].item
          /\ Messages(Items') = Messages(Items) \cup Messages(a)
          /\ InOrder(Items') <=>
               InOrder(Items) /\ InOrder(a) /\ Below(Messages(Items), Messages(a))
    BY <1>1, <1>6, OtherItems
  <2>2. added = later
    BY <1>7
  <2>3. Len(a) = Len(items) /\ \A i \in 1 .. Len(a) : a[i] = items[i]
    BY <1>5, <2>1, <2>2
  <2>4. a = items
    BY <1>4, <2>3, SeqEqual
  <2>5. QED
    BY <2>1, <2>4
<1>9. received \in Seq(Nat) /\ sent \in Nat
  BY DEF TypeOK
<1>10. /\ Messages(received') = Messages(received) \cup Messages(items)
       /\ InOrder(received') <=>
            InOrder(received) /\ InOrder(items) /\ Below(Messages(received), Messages(items))
  <2>1. /\ Messages(received \o items) = Messages(received) \cup Messages(items)
        /\ InOrder(received \o items) <=>
             InOrder(received) /\ InOrder(items) /\ Below(Messages(received), Messages(items))
    BY <1>4, <1>9, Joined
  <2>2. QED
    BY <1>1, <2>1
<1>11. Below(Messages(received), Messages(items))
  BY <1>2, <1>4 DEF Came, Below
<1>12. Came(received', hand', sock', sent')
  <2>1. InOrder(received')
    BY <1>2, <1>4, <1>10, <1>11 DEF Came
  <2>2. \A m \in Messages(received') : m <= sent
    BY <1>2, <1>4, <1>10 DEF Came
  <2>3. Messages(sock') = {} /\ InOrder(sock')
    BY <1>1, EmptyMessages
  <2>4. {hand'} \ {None} = {} /\ sent' = sent
    BY <1>1
  <2>5. QED
    BY <2>1, <2>2, <2>3, <2>4 DEF Came, Below
<1>13. NothingLost'
  <2>1. Kept(received, written, failed, queue, Items)
    BY LostMeans DEF Data
  <2>2. /\ Below(Messages(written), Messages(items))
        /\ Below(Messages(failed), Messages(items))
        /\ Below(Messages(queue), Messages(items))
        /\ Below(Messages(Items), Messages(items))
    BY <1>11, <2>1 DEF Kept, Below
  <2>3. \A S, T, U : Below(S, T) /\ Below(S, U) => Below(S, T \cup U)
    BY DEF Below
  <2>4. Kept(received', written, failed, queue, Items')
    BY <1>4, <1>8, <1>10, <2>1, <2>2, <2>3 DEF Kept
  <2>5. QED
    BY <1>1, <2>4, LostMeansNext
<1>14. Arriving'
  BY <1>1 DEF Arriving
<1>15. QED
  BY <1>12, <1>13, <1>14, ArrivedMeansNext DEF Data

\* Steps that touch none of the messages but may drop what receive has not taken.
LEMMA OtherData ==
  ASSUME TypeOK, Control, Data, TypeOK', NEW t, t # "put", NEW later,
         Callback(t, later), Allowed(t, later), "put" \notin Tasks(later),
         UNCHANGED <<sent, written, failed, queue, received>>,
         t = "receive" => rcancel /\ rpc' = "done" /\ ~ rcancel' /\ hand' = None /\ UNCHANGED sock,
         t # "receive" => UNCHANGED <<rpc, hand>>,
         \/ UNCHANGED <<sock, rcancel>> /\ (stopping => stopping')
         \/ sock' = << >> /\ rcancel' /\ stopping'
         \/ t = "receive"
  PROVE  Data'
<1>1. later \in Seq(Entry) /\ \A i \in 1 .. Len(later) : later[i].item = None
  BY DEF Allowed, Tasks
<1>2. NothingLost'
  <2>1. Messages(Items') = Messages(Items) /\ (InOrder(Items') <=> InOrder(Items))
    BY <1>1, QuietItems
  <2>2. QED
    BY <2>1, LostUnchanged DEF Data
<1>3. ArrivedInOrder'
  <2>1. Came(received, hand, sock, sent)
    BY ArrivedMeans DEF Data
  <2>2. Messages(<< >>) = {} /\ InOrder(<< >>)
    BY EmptyMessages
  <2>3. \A h, s : /\ h = hand \/ h = None
                  /\ s = sock \/ s = << >>
                  => Came(received, h, s, sent)
    BY <2>1, <2>2 DEF Came, Below
  <2>4. /\ hand' = hand \/ hand' = None
        /\ sock' = sock \/ sock' = << >>
    OBVIOUS
  <2>5. Came(received', hand', sock', sent')
    BY <2>3, <2>4
  <2>6. QED
    BY <2>5, ArrivedMeansNext
<1>4. Arriving'
  <2>1. t # "receive" /\ InReady("receive") => InReady("receive")'
    BY <1>1, StillReady DEF TypeOK
  <2>2. CASE t = "receive"
    BY <2>2 DEF Data, Arriving
  <2>3. CASE t # "receive"
    BY <2>1, <2>3 DEF Data, Arriving
  <2>4. QED
    BY <2>2, <2>3
<1>5. QED
  BY <1>2, <1>3, <1>4 DEF Data

\* receive ends without passing off what it was woken with.
LEMMA ReceiveCancelledData ==
  ASSUME TypeOK, Control, Data, TypeOK', ReceiveCancelled
  PROVE  Data'
<1> DEFINE later == WakeClosers("sub")
<1>1. /\ Callback("receive", later) /\ rcancel
      /\ rpc' = "done" /\ rcancel' = FALSE /\ hand' = None
      /\ UNCHANGED <<sent, sock, queue, received, written, failed>>
  BY DEF ReceiveCancelled, writeVars
<1>2. InReady("receive")
  BY <1>1, HeadReady
<1>3. rpc # "done"
  BY <1>2 DEF Control, Scheduled
<1>4. /\ Allowed("receive", later)
      /\ Tasks(later) = {c \in Closers : cpc[c] = "sub"}
  BY <1>3, ClosersLater DEF Control, Scheduled
<1> HIDE DEF later
<1>5. "put" \notin Tasks(later)
  BY <1>4 DEF Closers
<1>6. QED
  BY <1>1, <1>4, <1>5, OtherData

\* A put takes the first item of the queue to the end of the buffer.
LEMMA PutData ==
  ASSUME TypeOK, Control, Data, TypeOK', PutItem
  PROVE  Data'
<1> DEFINE later == IF wpc = "get" THEN Wake("run") ELSE << >>
           added == IF loop = "running" THEN later ELSE << >>
           x     == Head(ready).item
<1>1. /\ Callback("put", later)
      /\ queue' = Append(queue, x)
      /\ UNCHANGED <<sent, sock, rpc, rcancel, hand, received, written, failed, stopping>>
  BY DEF PutItem, recvVars, writeVars, flagVars
<1>2. Allowed("put", later) /\ Tasks(later) \subseteq {"run"}
  BY NothingLater, WakeLater DEF TaskNames
<1> HIDE DEF later
<1>3. later \in Seq(Entry) /\ \A i \in 1 .. Len(later) : later[i].item = None
  BY <1>2 DEF Allowed, Tasks
<1>4. PICK s \in Seq(Nat), a \in Seq(Nat) :
        /\ Items = <<x>> \o s
        /\ Items' = s \o a
        /\ Len(a) = Len(added)
        /\ \A i \in 1 .. Len(a) : a[i] = added[i].item
  <2>1. ready \in Seq(Entry)
    BY DEF TypeOK
  <2>2. QED
    BY <1>1, <1>3, <2>1, ItemsAfter
<1>5. Messages(a) = {} /\ InOrder(a)
  <2>1. \A i \in 1 .. Len(added) : added[i].item = None
    <3>1. CASE loop = "running"
      <4>1. added = later
        BY <3>1
      <4>2. QED
        BY <1>3, <4>1
    <3>2. CASE loop # "running"
      <4>1. Len(added) = 0
        BY <3>2, EmptySeq
      <4>2. QED
        BY <4>1
    <3>3. QED
      BY <3>1, <3>2
  <2> HIDE DEF added
  <2>2. QED
    BY <1>4, <2>1, NoMessages
<1>6. x \in Nat
  <2>1. Head(ready) \in Entry
    BY <1>1, <1>3, CallbackSteps DEF TypeOK
  <2>2. QED
    BY <2>1 DEF Entry
<1> HIDE DEF x
<1>7. /\ Messages(Items) = ({x} \ {None}) \cup Messages(s)
      /\ InOrder(Items) <=> InOrder(s) /\ Below({x} \ {None}, Messages(s))
  <2> DEFINE h == <<x>>
  <2>1. h \in Seq(Nat) /\ Messages(h) = {x} \ {None} /\ InOrder(h)
    BY <1>6, SingleMessage
  <2>2. Items = h \o s
    BY <1>4
  <2> HIDE DEF h
  <2>3. /\ Messages(h \o s) = Messages(h) \cup Messages(s)
        /\ InOrder(h \o s) <=> InOrder(h) /\ InOrder(s) /\ Below(Messages(h), Messages(s))
    BY <2>1, Joined
  <2>4. QED
    BY <2>1, <2>2, <2>3
<1>8. Messages(Items') = Messages(s) /\ (InOrder(Items') <=> InOrder(s))
  <2>1. /\ Messages(s \o a) = Messages(s) \cup Messages(a)
        /\ InOrder(s \o a) <=> InOrder(s) /\ InOrder(a) /\ Below(Messages(s), Messages(a))
    BY Joined
  <2>2. QED
    BY <1>4, <1>5, <2>1 DEF Below
<1>9. /\ Messages(queue') = Messages(queue) \cup ({x} \ {None})
      /\ InOrder(queue') <=> InOrder(queue) /\ Below(Messages(queue), {x} \ {None})
  <2>1. queue \in Seq(Nat)
    BY DEF TypeOK
  <2>2. /\ Messages(Append(queue, x)) = Messages(queue) \cup ({x} \ {None})
        /\ InOrder(Append(queue, x)) <=> InOrder(queue) /\ Below(Messages(queue), {x} \ {None})
    BY <1>6, <2>1, AppendedMessage
  <2>3. QED
    BY <1>1, <2>2
<1>10. NothingLost'
  <2>1. Kept(received, written, failed, queue, Items)
    BY LostMeans DEF Data
  <2>2. \A S, T, U : /\ Below(S, T \cup U) <=> Below(S, T) /\ Below(S, U)
                     /\ Below(T \cup U, S) <=> Below(T, S) /\ Below(U, S)
    BY DEF Below
  <2> DEFINE X == {x} \ {None}
  <2>3. /\ Messages(received) = Messages(written) \cup Messages(failed) \cup Messages(queue)
                                \cup (X \cup Messages(s))
        /\ InOrder(written) /\ InOrder(failed) /\ InOrder(queue)
        /\ InOrder(s) /\ Below(X, Messages(s))
        /\ Below(Messages(written), Messages(failed))
        /\ Below(Messages(written), Messages(queue))
        /\ Below(Messages(written), X) /\ Below(Messages(written), Messages(s))
        /\ Below(Messages(failed), Messages(queue))
        /\ Below(Messages(failed), X) /\ Below(Messages(failed), Messages(s))
        /\ Below(Messages(queue), X) /\ Below(Messages(queue), Messages(s))
    BY <1>7, <2>1, <2>2 DEF Kept
  <2>4. /\ Messages(queue') = Messages(queue) \cup X
        /\ InOrder(queue') <=> InOrder(queue) /\ Below(Messages(queue), X)
    BY <1>9
  <2> HIDE DEF X
  <2>5. /\ Messages(received) = Messages(written) \cup Messages(failed) \cup Messages(queue')
                                \cup Messages(Items')
        /\ InOrder(queue') /\ InOrder(Items')
        /\ Below(Messages(written), Messages(queue'))
        /\ Below(Messages(written), Messages(Items'))
        /\ Below(Messages(failed), Messages(queue'))
        /\ Below(Messages(failed), Messages(Items'))
        /\ Below(Messages(queue'), Messages(Items'))
    BY <1>8, <2>2, <2>3, <2>4
  <2>6. Kept(received, written, failed, queue', Items')
    BY <2>3, <2>5 DEF Kept
  <2>7. QED
    BY <1>1, <2>6, LostMeansNext
<1>11. ArrivedInOrder'
  BY <1>1, ArrivedMeans, ArrivedMeansNext DEF Data
<1>12. Arriving'
  <2>1. InReady("receive") => InReady("receive")'
    BY <1>1, <1>3, StillReady DEF TypeOK
  <2>2. QED
    BY <1>1, <2>1 DEF Data, Arriving
<1>13. QED
  BY <1>10, <1>11, <1>12 DEF Data

\* The messages of the buffer, once run has taken its part of them.
LEMMA PartsMessages ==
  ASSUME NEW q \in Seq(Nat), NEW k \in 0 .. Len(q)
  PROVE  LET p == SubSeq(q, 1, k)
             r == SubSeq(q, k + 1, Len(q))
         IN  /\ p \in Seq(Nat) /\ r \in Seq(Nat) /\ q = p \o r
             /\ Messages(q) = Messages(p) \cup Messages(r)
             /\ InOrder(q) <=> InOrder(p) /\ InOrder(r) /\ Below(Messages(p), Messages(r))
<1> DEFINE p == SubSeq(q, 1, k)
           r == SubSeq(q, k + 1, Len(q))
<1>1. /\ Len(q) \in Nat
      /\ r \in Seq(Nat) /\ Len(r) = Len(q) - k
      /\ \A i \in 1 .. Len(q) - k : r[i] = q[i + k]
      /\ p \in Seq(Nat) /\ Len(p) = k
      /\ \A i \in 1 .. k : p[i] = q[i]
  BY Parts
<1> HIDE DEF p, r
<1>2. /\ p \o r \in Seq(Nat) /\ Len(p \o r) = Len(p) + Len(r)
      /\ \A i \in 1 .. Len(p) + Len(r) :
           (p \o r)[i] = IF i <= Len(p) THEN p[i] ELSE r[i - Len(p)]
  <2>1. p \in Seq(Nat) /\ r \in Seq(Nat)
    BY <1>1
  <2>2. QED
    BY <2>1, ConcatProperties
<1> DEFINE u == p \o r
<1>3. /\ u \in Seq(Nat) /\ Len(u) = Len(q)
      /\ \A i \in 1 .. Len(q) : u[i] = IF i <= k THEN p[i] ELSE r[i - k]
  BY <1>1, <1>2
<1> HIDE DEF u
<1>4. \A i \in 1 .. Len(q) : u[i] = q[i]
  <2> SUFFICES ASSUME NEW i \in 1 .. Len(q)
               PROVE  u[i] = q[i]
    OBVIOUS
  <2>1. CASE i <= k
    BY <1>1, <1>3, <2>1
  <2>2. CASE ~ (i <= k)
    <3>1. i - k \in 1 .. Len(q) - k /\ (i - k) + k = i
      BY <1>1, <2>2
    <3>2. r[i - k] = q[(i - k) + k]
      BY <1>1, <3>1
    <3>3. QED
      BY <1>3, <2>2, <3>1, <3>2
  <2>3. QED
    BY <2>1, <2>2
<1>5. q = u
  BY <1>3, <1>4, SeqEqual
<1>6. /\ Messages(p \o r) = Messages(p) \cup Messages(r)
      /\ InOrder(p \o r) <=> InOrder(p) /\ InOrder(r) /\ Below(Messages(p), Messages(r))
  BY <1>1, Joined
<1>7. QED
  BY <1>1, <1>5, <1>6 DEF u, p, r

\* A step of run moves the head of the buffer into the file, or to the failure.
LEMMA RunMoves ==
  ASSUME TypeOK, Control, TypeOK', Run
  PROVE  /\ Messages(written) \cup Messages(failed) \cup Messages(queue) =
              Messages(written') \cup Messages(failed') \cup Messages(queue')
         /\ Messages(Items') = Messages(Items) /\ (InOrder(Items') <=> InOrder(Items))
         /\ \A r, i : Kept(r, written, failed, queue, i) => Kept(r, written', failed', queue', i)
         /\ wpc' = "done" /\ running' => Messages(failed') = {} /\ Messages(queue') = {}
<1>1. PICK k \in 0 .. Len(queue) :
        /\ queue' = SubSeq(queue, k + 1, Len(queue))
        /\ \/ /\ wpc' = "raised" /\ k >= 1
              /\ failed' = <<queue[k]>>
              /\ written' = written \o SubSeq(queue, 1, k - 1)
           \/ /\ wpc' = (IF running' /\ ~ stopping THEN "get" ELSE "done")
              /\ failed' = failed
              /\ written' = written \o SubSeq(queue, 1, k)
              /\ running' => k = Len(queue)
  BY RunEffect
<1>2. /\ wpc \in {"start", "get"}
      /\ Callback("run", IF wpc' = "get" THEN << >> ELSE WakeClosers("writer"))
  BY RunEffect
<1>3. failed = << >> /\ Messages(failed) = {} /\ InOrder(failed)
  BY <1>2, EmptyMessages DEF Control, Failing
<1>4. /\ queue \in Seq(Nat) /\ written \in Seq(Nat) /\ queue' \in Seq(Nat)
      /\ Len(queue) \in Nat
  BY LenProperties DEF TypeOK
<1>5. Messages(Items') = Messages(Items) /\ (InOrder(Items') <=> InOrder(Items))
  <2> DEFINE later == IF wpc' = "get" THEN << >> ELSE WakeClosers("writer")
  <2>1. /\ Allowed("run", later)
        /\ Tasks(later) \subseteq Closers
    BY <1>2, NothingLater, ClosersLater DEF Control, Scheduled
  <2>2. Callback("run", later)
    BY <1>2
  <2> HIDE DEF later
  <2>3. later \in Seq(Entry) /\ \A i \in 1 .. Len(later) : later[i].item = None
    BY <2>1 DEF Allowed, Tasks, Closers
  <2>4. QED
    BY <2>2, <2>3, QuietItems
<1> DEFINE p == SubSeq(queue, 1, k)
           r == SubSeq(queue, k + 1, Len(queue))
<1>6. /\ p \in Seq(Nat) /\ r \in Seq(Nat) /\ queue' = r
      /\ Messages(queue) = Messages(p) \cup Messages(r)
      /\ InOrder(queue) <=> InOrder(p) /\ InOrder(r) /\ Below(Messages(p), Messages(r))
  BY <1>1, <1>4, PartsMessages
<1>7. k = Len(queue) => Messages(r) = {}
  <2>1. ASSUME k = Len(queue)
        PROVE  Len(r) = 0
    BY <1>4, <2>1, Parts
  <2> HIDE DEF r
  <2>2. ASSUME k = Len(queue)
        PROVE  \A i \in 1 .. Len(r) : r[i] = None
    BY <2>1, <2>2
  <2>3. r \in Seq(Nat)
    BY <1>6
  <2>4. QED
    BY <2>2, <2>3, NoMessages
<1>8. \A S, T, U : /\ Below(S, T \cup U) <=> Below(S, T) /\ Below(S, U)
                   /\ Below(T \cup U, S) <=> Below(T, S) /\ Below(U, S)
  BY DEF Below
<1>9. CASE /\ wpc' = (IF running' /\ ~ stopping THEN "get" ELSE "done")
           /\ failed' = failed
           /\ written' = written \o SubSeq(queue, 1, k)
           /\ running' => k = Len(queue)
  <2> HIDE DEF r
  <2>1. written' = written \o p
    BY <1>9
  <2> HIDE DEF p
  <2>2. /\ Messages(written') = Messages(written) \cup Messages(p)
        /\ InOrder(written') <=>
             InOrder(written) /\ InOrder(p) /\ Below(Messages(written), Messages(p))
    <3>1. /\ Messages(written \o p) = Messages(written) \cup Messages(p)
          /\ InOrder(written \o p) <=>
               InOrder(written) /\ InOrder(p) /\ Below(Messages(written), Messages(p))
      BY <1>4, <1>6, Joined
    <3>2. QED
      BY <2>1, <3>1
  <2>3. Messages(failed') = {} /\ InOrder(failed')
    BY <1>3, <1>9
  <2>4. ASSUME NEW n, NEW i, Kept(n, written, failed, queue, i)
        PROVE  Kept(n, written', failed', queue', i)
    <3>1. /\ Messages(n) = Messages(written') \cup Messages(failed') \cup Messages(r)
                           \cup Messages(i)
      BY <1>3, <1>6, <2>2, <2>3, <2>4 DEF Kept
    <3>2. InOrder(written') /\ InOrder(failed') /\ InOrder(r) /\ InOrder(i)
      BY <1>6, <1>8, <2>2, <2>3, <2>4 DEF Kept
    <3>3. /\ Below(Messages(written'), Messages(r))
          /\ Below(Messages(written'), Messages(i))
          /\ Below(Messages(r), Messages(i))
      <4>1. /\ InOrder(queue)
            /\ Below(Messages(written), Messages(queue))
            /\ Below(Messages(written), Messages(i))
            /\ Below(Messages(queue), Messages(i))
        BY <2>4 DEF Kept
      <4>2. /\ Below(Messages(p), Messages(r))
            /\ Below(Messages(written), Messages(r))
            /\ Below(Messages(p), Messages(i)) /\ Below(Messages(r), Messages(i))
        BY <1>6, <4>1 DEF Below
      <4>3. QED
        BY <2>2, <4>1, <4>2 DEF Below
    <3>4. \A S : Below(S, Messages(failed')) /\ Below(Messages(failed'), S)
      BY <2>3 DEF Below
    <3>5. Kept(n, written', failed', r, i)
      BY <3>1, <3>2, <3>3, <3>4 DEF Kept
    <3>6. QED
      BY <1>6, <3>5
  <2>5. Messages(written) \cup Messages(failed) \cup Messages(queue) =
          Messages(written') \cup Messages(failed') \cup Messages(queue')
    BY <1>3, <1>6, <2>2, <2>3
  <2>6. wpc' = "done" /\ running' => Messages(failed') = {} /\ Messages(queue') = {}
    BY <1>6, <1>7, <1>9, <2>3
  <2>7. QED
    BY <1>5, <2>4, <2>5, <2>6
<1>10. CASE /\ wpc' = "raised" /\ k >= 1
            /\ failed' = <<queue[k]>>
            /\ written' = written \o SubSeq(queue, 1, k - 1)
  <2> HIDE DEF r
  <2> DEFINE x == queue[k]
             b == SubSeq(queue, 1, k - 1)
  <2>1. k \in 1 .. Len(queue) /\ x \in Nat
    <3>1. k \in 1 .. Len(queue)
      BY <1>4, <1>10
    <3>2. QED
      BY <1>4, <3>1
  <2>2. failed' = <<x>> /\ written' = written \o b
    BY <1>10
  <2>3. /\ b \in Seq(Nat) /\ p = Append(b, x)
    <3>1. k - 1 \in 0 .. Len(queue)
      BY <1>4, <2>1
    <3>2. /\ b \in Seq(Nat) /\ Len(b) = k - 1
          /\ \A i \in 1 .. k - 1 : b[i] = queue[i]
      BY <1>4, <3>1, Parts
    <3>3. /\ Len(p) = k /\ \A i \in 1 .. k : p[i] = queue[i]
      BY <1>4, Parts
    <3> HIDE DEF b
    <3>4. /\ Append(b, x) \in Seq(Nat) /\ Len(Append(b, x)) = k
          /\ \A i \in 1 .. k - 1 : Append(b, x)[i] = b[i]
          /\ Append(b, x)[k] = x
      <4>1. /\ Append(b, x) \in Seq(Nat) /\ Len(Append(b, x)) = Len(b) + 1
            /\ \A i \in 1 .. Len(b) : Append(b, x)[i] = b[i]
            /\ Append(b, x)[Len(b) + 1] = x
        BY <2>1, <3>2, AppendProperties
      <4>2. Len(b) + 1 = k
        BY <2>1, <3>2
      <4>3. QED
        BY <3>2, <4>1, <4>2
    <3> DEFINE c == Append(b, x)
    <3>5. /\ c \in Seq(Nat) /\ Len(c) = Len(p)
          /\ \A i \in 1 .. Len(c) : c[i] = p[i]
      <4>1. \A i \in 1 .. k : i \in 1 .. k - 1 \/ i = k
        BY <2>1
      <4>2. QED
        BY <3>2, <3>3, <3>4, <4>1
    <3> HIDE DEF c, p
    <3>6. c = p
      BY <1>6, <3>5, SeqEqual
    <3>7. QED
      BY <3>2, <3>6 DEF c
  <2> HIDE DEF p, b, x
  <2>4. /\ Messages(p) = Messages(b) \cup ({x} \ {None})
        /\ InOrder(p) <=> InOrder(b) /\ Below(Messages(b), {x} \ {None})
    BY <2>1, <2>3, AppendedMessage
  <2>5. Messages(failed') = {x} \ {None} /\ InOrder(failed')
    BY <2>1, <2>2, SingleMessage
  <2>6. /\ Messages(written') = Messages(written) \cup Messages(b)
        /\ InOrder(written') <=>
             InOrder(written) /\ InOrder(b) /\ Below(Messages(written), Messages(b))
    <3>1. /\ Messages(written \o b) = Messages(written) \cup Messages(b)
          /\ InOrder(written \o b) <=>
               InOrder(written) /\ InOrder(b) /\ Below(Messages(written), Messages(b))
      BY <1>4, <2>3, Joined
    <3>2. QED
      BY <2>2, <3>1
  <2> DEFINE X == {x} \ {None}
  <2>7. /\ Messages(p) = Messages(b) \cup X
        /\ InOrder(p) <=> InOrder(b) /\ Below(Messages(b), X)
        /\ Messages(failed') = X /\ InOrder(failed')
    BY <2>4, <2>5
  <2> HIDE DEF X
  <2>8. ASSUME NEW n, NEW i, Kept(n, written, failed, queue, i)
        PROVE  Kept(n, written', failed', queue', i)
    <3>1. Messages(queue) = Messages(b) \cup X \cup Messages(r)
      BY <1>6, <2>7
    <3>2. /\ Messages(n) = Messages(written') \cup Messages(failed') \cup Messages(r)
                           \cup Messages(i)
      BY <1>3, <2>6, <2>7, <2>8, <3>1 DEF Kept
    <3>3. /\ Below(Messages(written), Messages(b)) /\ Below(Messages(written), X)
          /\ Below(Messages(written), Messages(r)) /\ Below(Messages(written), Messages(i))
          /\ Below(Messages(b), Messages(i)) /\ Below(X, Messages(i))
          /\ Below(Messages(r), Messages(i))
      <4>1. /\ Below(Messages(written), Messages(queue))
            /\ Below(Messages(written), Messages(i))
            /\ Below(Messages(queue), Messages(i))
        BY <2>8 DEF Kept
      <4>2. QED
        BY <3>1, <4>1 DEF Below
    <3>4. /\ InOrder(b) /\ InOrder(r) /\ Below(Messages(b), X)
          /\ Below(Messages(b), Messages(r)) /\ Below(X, Messages(r))
      <4>1. InOrder(p) /\ InOrder(r) /\ Below(Messages(p), Messages(r))
        BY <1>6, <2>8 DEF Kept
      <4>2. QED
        BY <2>7, <4>1 DEF Below
    <3>5. InOrder(written') /\ InOrder(i)
      BY <2>6, <2>8, <3>3, <3>4 DEF Kept
    <3>6. /\ Below(Messages(written'), Messages(failed'))
          /\ Below(Messages(written'), Messages(r))
          /\ Below(Messages(written'), Messages(i))
          /\ Below(Messages(failed'), Messages(r))
          /\ Below(Messages(failed'), Messages(i))
      BY <2>6, <2>7, <3>3, <3>4 DEF Below
    <3>7. Kept(n, written', failed', r, i)
      BY <2>7, <3>2, <3>3, <3>4, <3>5, <3>6 DEF Kept
    <3>8. QED
      BY <1>6, <3>7
  <2>9. Messages(written) \cup Messages(failed) \cup Messages(queue) =
          Messages(written') \cup Messages(failed') \cup Messages(queue')
    BY <1>3, <1>6, <2>6, <2>7
  <2>10. QED
    BY <1>5, <1>10, <2>8, <2>9
<1>11. QED
  BY <1>1, <1>9, <1>10

\* run moves messages along the path.
LEMMA RunData ==
  ASSUME TypeOK, Control, Data, TypeOK', Run
  PROVE  Data'
<1>1. /\ UNCHANGED <<sent, sock, rpc, rcancel, hand, received, stopping>>
      /\ Callback("run", IF wpc' = "get" THEN << >> ELSE WakeClosers("writer"))
      /\ wpc \in {"start", "get"}
  BY RunEffect DEF recvVars
<1>2. NothingLost'
  <2>1. Kept(received, written, failed, queue, Items)
    BY LostMeans DEF Data
  <2>2. Kept(received, written', failed', queue', Items)
    BY <2>1, RunMoves
  <2>3. Messages(Items') = Messages(Items) /\ (InOrder(Items') <=> InOrder(Items))
    BY RunMoves
  <2>4. Kept(received', written', failed', queue', Items')
    BY <1>1, <2>2, <2>3 DEF Kept
  <2>5. QED
    BY <2>4, LostMeansNext
<1>3. ArrivedInOrder'
  BY <1>1, ArrivedMeans, ArrivedMeansNext DEF Data
<1>4. Arriving'
  <2> DEFINE later == IF wpc' = "get" THEN << >> ELSE WakeClosers("writer")
  <2>1. Allowed("run", later)
    BY <1>1, NothingLater, ClosersLater DEF Control, Scheduled
  <2>2. Callback("run", later)
    BY <1>1
  <2> HIDE DEF later
  <2>3. InReady("receive") => InReady("receive")'
    BY <2>1, <2>2, StillReady DEF TypeOK, Allowed
  <2>4. QED
    BY <1>1, <2>3 DEF Data, Arriving
<1>5. QED
  BY <1>2, <1>3, <1>4 DEF Data

\* The call of a close touches no message.
LEMMA CallCloseData ==
  ASSUME TypeOK, Control, Data, TypeOK', NEW c \in Closers, CallClose(c)
  PROVE  Data'
<1>1. /\ ready' = Append(ready, Step(c)) /\ cpc[c] = "no"
      /\ UNCHANGED <<sent, queue, sock, rpc, rcancel, hand, received, written, failed, stopping>>
  BY DEF CallClose, recvVars, writeVars, flagVars
<1>2. c \in TaskNames /\ ~ InReady(c)
  BY <1>1 DEF Control, Scheduled, Closers, TaskNames
<1>3. NothingLost'
  <2>1. Messages(Items') = Messages(Items) /\ (InOrder(Items') <=> InOrder(Items))
    BY <1>1, <1>2, AppendItems
  <2>2. QED
    BY <1>1, <2>1, LostUnchanged DEF Data
<1>4. ArrivedInOrder'
  BY <1>1, ArrivedMeans, ArrivedMeansNext DEF Data
<1>5. Arriving'
  <2>1. InReady("receive") => InReady("receive")'
    BY <1>1, <1>2, AppendReady DEF TypeOK, Control
  <2>2. QED
    BY <1>1, <2>1 DEF Data, Arriving
<1>6. QED
  BY <1>3, <1>4, <1>5 DEF Data

\* The steps of a close only drop what is in the socket.
LEMMA CloseData ==
  ASSUME TypeOK, Control, Data, TypeOK', NEW c \in Closers,
         CloseSubscriber(c) \/ CloseWriter(c) \/ CloseFile(c)
  PROVE  Data'
<1>1. c \notin {"put", "receive"}
  BY DEF Closers
<1>2. CASE CloseSubscriber(c)
  <2>1. /\ Callback(c, Wake("receive"))
        /\ stopping' /\ sock' = << >> /\ rcancel'
        /\ UNCHANGED <<sent, queue, rpc, hand, received, written, failed>>
    BY <1>2 DEF CloseSubscriber, writeVars
  <2>2. Allowed(c, Wake("receive")) /\ "put" \notin Tasks(Wake("receive"))
    BY WakeLater DEF TaskNames
  <2>3. QED
    BY <1>1, <2>1, <2>2, OtherData
<1>3. CASE CloseWriter(c)
  <2> DEFINE later == IF queue = << >> THEN Wake("run") ELSE << >>
  <2>1. /\ Callback(c, later) /\ stopping'
        /\ UNCHANGED <<sent, queue, sock, rpc, rcancel, hand, received, written, failed>>
    BY <1>3 DEF CloseWriter, SetsFlags, recvVars
  <2>2. Allowed(c, later) /\ "put" \notin Tasks(later)
    BY NothingLater, WakeLater DEF TaskNames
  <2> HIDE DEF later
  <2>3. QED
    BY <1>1, <2>1, <2>2, OtherData
<1>4. CASE CloseFile(c)
  <2>1. /\ Callback(c, <<StopLoop>>) /\ stopping'
        /\ UNCHANGED <<sent, queue, sock, rpc, rcancel, hand, received, written, failed>>
    BY <1>4 DEF CloseFile, SetsFlags, recvVars, writeVars
  <2>2. Allowed(c, <<StopLoop>>) /\ "put" \notin Tasks(<<StopLoop>>)
    BY OneLater DEF StopLoop, TaskNames
  <2>3. QED
    BY <1>1, <2>1, <2>2, OtherData
<1>5. QED
  BY <1>2, <1>3, <1>4

\* Every step keeps the data part.
LEMMA StepData ==
  ASSUME TypeOK, Control, Data, TypeOK', [Next]_vars
  PROVE  Data'
<1>1. ASSUME UNCHANGED <<sent, sock, ready, rpc, rcancel, hand, queue, received,
   written, failed,
                         stopping>>
      PROVE  Data'
  <2>1. Items' = Items /\ \A u : InReady(u)' <=> InReady(u)
    BY <1>1 DEF Items, InReady
  <2>2. Kept(received', written', failed', queue', Items')
    BY <1>1, <2>1, LostMeans DEF Data
  <2>3. NothingLost' /\ ArrivedInOrder'
    BY <1>1, <2>2, LostMeansNext, ArrivedMeans, ArrivedMeansNext DEF Data
  <2>4. QED
    BY <1>1, <2>1, <2>3 DEF Data, Arriving
<1>2. CASE UNCHANGED vars
  BY <1>1, <1>2 DEF vars, recvVars, writeVars, flagVars, closeVars
<1>3. CASE Stop
  <2>1. /\ Callback("stop", << >>)
        /\ UNCHANGED <<sent, sock, rpc, rcancel, hand, queue, received, written, failed, stopping>>
    BY <1>3 DEF Stop, recvVars, writeVars, flagVars, closeVars
  <2>2. Allowed("stop", << >>) /\ "put" \notin Tasks(<< >>)
    BY NothingLater
  <2>3. QED
    BY <2>1, <2>2, OtherData
<1>4. CASE Return
  BY <1>1, <1>4 DEF Return, recvVars, writeVars, flagVars, closeVars
<1>5. CASE Next
  BY <1>3, <1>4, <1>5, ArriveData, ReceiveData, ReceiveCancelledData, PutData, RunData,
     CallCloseData, CloseData DEF Next, LoopStep
<1>6. QED
  BY <1>2, <1>5

-----------------------------------------------------------------------------
(* The soft close *)

Saved == Messages(written) \cup Messages(failed) \cup Messages(queue)

\* As long as there is no hard close, every step keeps the flags as they are said to be.
LEMMA StepFlags ==
  ASSUME TypeOK, Control, Flags, [Next]_vars
  PROVE  Flags'
<1>1. /\ Closers = {"soft", "hard"}
      /\ DOMAIN cpc = Closers
      /\ \A c \in Closers : cpc[c] \in {"no", "start", "sub", "writer", "closed", "raised"}
      /\ wpc \in {"start", "get", "done", "raised"}
  BY DEF Closers, TypeOK
<1>2. ASSUME UNCHANGED <<cpc, running, stopping, wpc>>
      PROVE  Flags'
  BY <1>2 DEF Flags
<1>3. CASE Run
  <2>1. /\ wpc \in {"start", "get"} /\ UNCHANGED <<cpc, stopping>>
        /\ running' = (wpc = "start" \/ running)
        /\ wpc' = "raised" \/ wpc' = (IF running' /\ ~ stopping THEN "get" ELSE "done")
    BY <1>3, RunEffect DEF closeVars
  <2>2. QED
    BY <2>1 DEF Flags
<1>4. ASSUME NEW c \in Closers, CallClose(c)
      PROVE  Flags'
  <2>1. /\ cpc[c] = "no" /\ cpc["hard"] = "no" /\ cpc' = [cpc EXCEPT ![c] = "start"]
        /\ UNCHANGED <<running, stopping, wpc>>
    BY <1>4 DEF CallClose, writeVars, flagVars
  <2>2. cpc'[c] = "start" /\ \A d \in Closers : d # c => cpc'[d] = cpc[d]
    BY <1>1, <2>1
  <2>3. CASE c = "soft"
    BY <1>1, <2>1, <2>2, <2>3 DEF Flags
  <2>4. CASE c = "hard"
    BY <1>1, <2>1, <2>2, <2>4 DEF Flags
  <2>5. QED
    BY <1>1, <2>3, <2>4
<1>5. ASSUME NEW c \in Closers, CloseSubscriber(c) \/ CloseWriter(c) \/ CloseFile(c)
      PROVE  Flags'
  <2>1. /\ cpc'[c] \in {"sub", "writer", "closed", "raised"}
        /\ \A d \in Closers : d # c => cpc'[d] = cpc[d]
    BY <1>1, <1>5 DEF CloseSubscriber, CloseWriter, CloseFile
  <2>2. stopping' /\ UNCHANGED wpc /\ (c = "soft" => running' = running)
    BY <1>5 DEF CloseSubscriber, CloseWriter, CloseFile, SetsFlags, writeVars, TypeOK
  <2>3. CASE c = "hard"
    BY <1>1, <2>1, <2>3 DEF Flags
  <2>4. CASE c = "soft"
    BY <1>1, <2>1, <2>2, <2>4 DEF Flags
  <2>5. QED
    BY <1>1, <2>3, <2>4
<1>6. QED
  BY <1>2, <1>3, <1>4, <1>5
  DEF Next, LoopStep, Arrive, Receive, ReceiveCancelled, PutItem, Stop, Return, vars,
      writeVars, flagVars, closeVars

\* A callback brings the step of the soft close nearer to the head.
LEMMA NearerAhead ==
  ASSUME TypeOK, NEW t, t # "soft", NEW later \in Seq(Entry), Callback(t, later),
         UNCHANGED due, Saved \cup ({Head(ready).item} \ {None}) \subseteq Saved',
         DueAhead
  PROVE  DueAhead'
<1> DEFINE n     == Len(ready) - 1
           added == IF loop = "running" THEN later ELSE << >>
<1>1. /\ n \in Nat /\ Len(ready) = n + 1 /\ ready[1].task = t /\ Head(ready) = ready[1]
      /\ Len(added) \in Nat
      /\ Len(ready') = n + Len(added)
      /\ \A i \in 1 .. n : ready'[i] = ready[i + 1]
  BY CallbackSteps DEF TypeOK
<1> HIDE DEF n, added
<1>2. PICK i \in 1 .. Len(ready) :
        /\ ready[i].task = "soft"
        /\ Messages(due) \subseteq Saved \cup {ready[j].item : j \in 1 .. i - 1}
  BY DEF DueAhead, Saved
<1>3. i # 1
  BY <1>1, <1>2
<1>4. i - 1 \in 1 .. n /\ (i - 1) + 1 = i /\ i - 1 \in 1 .. Len(ready')
  BY <1>1, <1>2, <1>3
<1>5. ready'[i - 1].task = "soft"
  BY <1>1, <1>2, <1>4
<1>6. Messages(due) \subseteq Saved' \cup {ready'[j].item : j \in 1 .. (i - 1) - 1}
  <2> SUFFICES ASSUME NEW m \in Messages(due), m \notin Saved'
               PROVE  \E j \in 1 .. (i - 1) - 1 : ready'[j].item = m
    OBVIOUS
  <2>1. m # None
    BY DEF Messages
  <2>2. PICK j \in 1 .. i - 1 : ready[j].item = m
    BY <1>2
  <2>3. j # 1
    BY <1>1, <2>1, <2>2
  <2>4. j - 1 \in 1 .. (i - 1) - 1 /\ j - 1 \in 1 .. n /\ (j - 1) + 1 = j
    BY <1>1, <1>2, <1>4, <2>2, <2>3
  <2>5. ready'[j - 1] = ready[j]
    BY <1>1, <2>4
  <2>6. QED
    BY <2>2, <2>4, <2>5
<1>7. QED
  BY <1>4, <1>5, <1>6 DEF DueAhead, Saved

\* What else is appended does not matter.
LEMMA AppendAhead ==
  ASSUME TypeOK, NEW t \in TaskNames, ready' = Append(ready, Step(t)),
         UNCHANGED <<due, written, failed, queue>>, DueAhead
  PROVE  DueAhead'
<1>1. Step(t) \in Entry
  BY DEF Step, Entry, TaskNames, None
<1>2. /\ Len(ready) \in Nat /\ Len(ready') = Len(ready) + 1
      /\ \A i \in 1 .. Len(ready) : ready'[i] = ready[i]
  BY <1>1, AppendProperties, LenProperties DEF TypeOK
<1>3. PICK i \in 1 .. Len(ready) :
        /\ ready[i].task = "soft"
        /\ Messages(due) \subseteq Saved \cup {ready[j].item : j \in 1 .. i - 1}
  BY DEF DueAhead, Saved
<1>4. /\ i \in 1 .. Len(ready') /\ ready'[i].task = "soft" /\ Saved' = Saved
      /\ \A j \in 1 .. i - 1 : ready'[j] = ready[j]
  BY <1>2, <1>3 DEF Saved
<1>5. Messages(due') \subseteq Saved' \cup {ready'[j].item : j \in 1 .. i - 1}
  BY <1>3, <1>4
<1>6. QED
  BY <1>4, <1>5 DEF DueAhead, Saved

\* When the step of the soft close is at the head, what is due is in the buffer.
LEMMA DueSaved ==
  ASSUME TypeOK, Control, NEW later, Callback("soft", later), DueAhead
  PROVE  Messages(due) \subseteq Saved
<1>1. ready # << >> /\ Head(ready).task = "soft" /\ Head(ready) = ready[1]
  BY DEF Callback
<1>2. 1 \in 1 .. Len(ready) /\ Len(ready) \in Nat
  BY <1>1, EmptySeq, LenProperties DEF TypeOK
<1>3. PICK i \in 1 .. Len(ready) :
        /\ ready[i].task = "soft"
        /\ Messages(due) \subseteq Saved \cup {ready[j].item : j \in 1 .. i - 1}
  BY DEF DueAhead, Saved
<1>4. i = 1
  <2>1. ~ (1 < i)
    BY <1>1, <1>2, <1>3 DEF Control, ReadyOnce
  <2>2. QED
    BY <1>2, <1>3, <2>1
<1>5. \A j \in 1 .. i - 1 : FALSE
  BY <1>4
<1>6. QED
  BY <1>3, <1>5

\* At the call, all that receive has passed off is before it.
LEMMA DueAtCall ==
  ASSUME TypeOK, TypeOK', Data, CallClose("soft")
  PROVE  DueAhead'
<1>1. /\ ready' = Append(ready, Step("soft")) /\ due' = received
      /\ UNCHANGED <<queue, written, failed>>
  BY DEF CallClose, writeVars
<1>2. Step("soft") \in Entry /\ Step("soft").task = "soft"
  BY DEF Step, Entry, None
<1>3. /\ Len(ready) \in Nat /\ Len(ready') = Len(ready) + 1
      /\ \A i \in 1 .. Len(ready) : ready'[i] = ready[i]
      /\ ready'[Len(ready) + 1] = Step("soft")
      /\ DOMAIN ready = 1 .. Len(ready)
  BY <1>1, <1>2, AppendProperties, LenProperties DEF TypeOK
<1> DEFINE l == Len(ready) + 1
<1>4. /\ l \in 1 .. Len(ready') /\ ready'[l].task = "soft" /\ l - 1 = Len(ready)
  BY <1>2, <1>3
<1>5. Messages(received) = Saved \cup Messages(Items)
  BY LostMeans DEF Data, Kept, Saved
<1>6. \A m \in Messages(Items) : \E j \in 1 .. l - 1 : ready'[j].item = m
  BY <1>3, <1>4 DEF Messages, Range, Items
<1>7. Saved' = Saved
  BY <1>1 DEF Saved
<1> HIDE DEF l
<1>8. Messages(due') \subseteq Saved' \cup {ready'[j].item : j \in 1 .. l - 1}
  BY <1>1, <1>5, <1>6, <1>7
<1>9. QED
  BY <1>4, <1>8 DEF DueAhead, Saved

\* Steps of the others keep what is due.
LEMMA OtherDue ==
  ASSUME TypeOK, DueKept,
         UNCHANGED <<cpc, due, wpc>>, Messages(written) \subseteq Messages(written)',
         Saved \subseteq Saved', DueAhead => DueAhead'
  PROVE  DueKept'
BY DEF DueKept, Saved

\* Initially no close was called.
LEMMA InitDue == Init => Flags /\ DueKept
<1>1. SUFFICES ASSUME Init
               PROVE  Flags /\ DueKept
  OBVIOUS
<1>2. cpc["soft"] = "no" /\ ~ running /\ ~ stopping /\ wpc = "start"
  BY <1>1 DEF Init, Closers
<1>3. QED
  BY <1>2 DEF Flags, DueKept

\* run leaves what is due in the buffer, or has written all of it when it ends.
LEMMA RunDue ==
  ASSUME TypeOK, Control, Flags, DueKept, TypeOK', Run
  PROVE  DueKept'
<1> DEFINE later == IF wpc' = "get" THEN << >> ELSE WakeClosers("writer")
<1>1. /\ wpc \in {"start", "get"} /\ UNCHANGED <<cpc, due>>
      /\ running' = (wpc = "start" \/ running)
      /\ Callback("run", later)
  BY RunEffect DEF closeVars
<1>2. Saved = Saved' /\ (wpc' = "done" /\ running' => Saved' = Messages(written)')
  BY RunMoves DEF Saved
<1>3. later \in Seq(Entry)
  BY <1>1, NothingLater, ClosersLater DEF Control, Scheduled, Allowed
<1>4. Head(ready).item = None
  <2>1. Head(ready) = ready[1] /\ ready[1].task = "run" /\ ready # << >>
    BY <1>1, <1>3, CallbackSteps DEF TypeOK
  <2>2. 1 \in 1 .. Len(ready)
    BY <2>1, EmptySeq DEF TypeOK
  <2>3. QED
    BY <2>1, <2>2 DEF Control, ReadyOnce
<1> HIDE DEF later
<1>5. DueAhead => DueAhead'
  <2>1. Saved \cup ({Head(ready).item} \ {None}) \subseteq Saved'
    BY <1>2, <1>4
  <2>2. QED
    BY <1>1, <1>3, <2>1, NearerAhead
<1>6. SUFFICES ASSUME cpc["hard"] = "no"
               PROVE  DueKept'
  BY <1>1 DEF DueKept
<1>7. cpc["soft"] # "closed"
  BY <1>1 DEF Control, Ending, Closers
<1>8. /\ running'
      /\ cpc["soft"] = "start" => DueAhead
      /\ cpc["soft"] \in {"sub", "writer"} => Messages(due) \subseteq Saved
  BY <1>1, <1>6 DEF Flags, DueKept, Saved
<1>9. QED
  BY <1>1, <1>2, <1>5, <1>7, <1>8 DEF DueKept, Saved

\* The steps of the soft close: at the first the puts before it are done.
LEMMA SoftCloseDue ==
  ASSUME TypeOK, Control, Flags, DueKept, TypeOK',
         CloseSubscriber("soft") \/ CloseWriter("soft") \/ CloseFile("soft")
  PROVE  DueKept'
<1>1. UNCHANGED <<due, wpc, written, failed, queue>> /\ Saved' = Saved
  BY DEF CloseSubscriber, CloseWriter, CloseFile, writeVars, Saved
<1>2. /\ cpc["soft"] \in {"start", "sub", "writer"}
      /\ cpc'["hard"] = cpc["hard"]
      /\ cpc'["soft"] \in {"sub", "writer", "closed", "raised"}
  BY DEF CloseSubscriber, CloseWriter, CloseFile, SubscriberClosed, TypeOK, Closers
<1>3. SUFFICES ASSUME cpc["hard"] = "no"
               PROVE  DueKept'
  BY <1>2 DEF DueKept
<1>4. \E later : Callback("soft", later)
  BY DEF CloseSubscriber, CloseWriter, CloseFile
<1>5. cpc["soft"] = "start" => Messages(due) \subseteq Saved
  BY <1>3, <1>4, DueSaved DEF DueKept
<1>6. Messages(due) \subseteq Saved
  BY <1>2, <1>3, <1>5 DEF DueKept, Saved
<1>7. wpc = "done" => Messages(due) \subseteq Messages(written)
  BY <1>2, <1>3 DEF DueKept, Flags
<1>8. QED
  BY <1>1, <1>2, <1>6, <1>7 DEF DueKept, Saved

\* Every step keeps what is said of what is due.
LEMMA StepDue ==
  ASSUME TypeOK, Control, Data, Flags, DueKept, TypeOK', [Next]_vars
  PROVE  DueKept'
<1>1. CASE UNCHANGED vars
  <2>1. UNCHANGED <<cpc, due, wpc, ready, written, failed, queue>>
    BY <1>1 DEF vars, writeVars, closeVars
  <2>2. QED
    BY <2>1 DEF DueKept, DueAhead
<1>2. CASE Arrive
  <2>1. /\ UNCHANGED <<cpc, due, wpc, written, failed, queue>>
        /\ UNCHANGED ready \/ ready' = Append(ready, Step("receive"))
    BY <1>2 DEF Arrive, writeVars, closeVars
  <2>2. DueAhead => DueAhead'
    <3>1. CASE UNCHANGED ready
      BY <2>1, <3>1 DEF DueAhead
    <3>2. CASE ready' = Append(ready, Step("receive"))
      BY <2>1, <3>2, AppendAhead DEF TaskNames
    <3>3. QED
      BY <2>1, <3>1, <3>2
  <2>3. Saved' = Saved
    BY <2>1 DEF Saved
  <2>4. QED
    BY <2>1, <2>2, <2>3, OtherDue
<1>3. ASSUME NEW t, t \notin {"put", "soft"}, NEW later \in Seq(Entry), Callback(t,
   later),
             UNCHANGED <<cpc, due, wpc, written, failed, queue>>
      PROVE  DueKept'
  <2>1. Saved' = Saved
    BY <1>3 DEF Saved
  <2>2. Head(ready).item = None
    <3>1. Head(ready) = ready[1] /\ ready[1].task = t /\ ready # << >>
      BY <1>3, CallbackSteps DEF TypeOK
    <3>2. 1 \in 1 .. Len(ready)
      BY <3>1, EmptySeq DEF TypeOK
    <3>3. QED
      BY <1>3, <3>1, <3>2 DEF Control, ReadyOnce
  <2>3. DueAhead => DueAhead'
    BY <1>3, <2>1, <2>2, NearerAhead
  <2>4. QED
    BY <1>3, <2>1, <2>3, OtherDue
<1>4. CASE Receive
  <2> DEFINE taken == (IF hand = None THEN << >> ELSE <<hand>>) \o sock
             items == [i \in DOMAIN taken |-> Unpack(taken[i])]
             later == [i \in DOMAIN items |-> Put(items[i])]
  <2>1. /\ Callback("receive", later)
        /\ UNCHANGED <<cpc, due, wpc, written, failed, queue>>
    BY <1>4 DEF Receive, writeVars, closeVars
  <2>2. taken \in Seq(Nat)
    <3> DEFINE h == IF hand = None THEN << >> ELSE <<hand>>
    <3>1. h \in Seq(Nat) /\ sock \in Seq(Nat)
      BY EmptySeq DEF TypeOK
    <3> HIDE DEF h
    <3>2. h \o sock \in Seq(Nat)
      BY <3>1, ConcatProperties
    <3>3. QED
      BY <3>2 DEF h
  <2> HIDE DEF taken
  <2>3. items \in Seq(Nat)
    BY <2>2, Unpacked
  <2> HIDE DEF items
  <2>4. later \in Seq(Entry)
    BY <2>3, PutsLater DEF Allowed
  <2> HIDE DEF later
  <2>5. QED
    BY <1>3, <2>1, <2>4
<1>5. CASE ReceiveCancelled
  <2>1. /\ Callback("receive", WakeClosers("sub"))
        /\ UNCHANGED <<cpc, due, wpc, written, failed, queue>>
    BY <1>5 DEF ReceiveCancelled, writeVars, closeVars
  <2>2. rpc # "done"
    BY <2>1, HeadReady DEF Control, Scheduled
  <2>3. WakeClosers("sub") \in Seq(Entry)
    BY <2>2, ClosersLater DEF Control, Scheduled, Allowed
  <2>4. QED
    BY <1>3, <2>1, <2>3
<1>6. CASE PutItem
  <2> DEFINE later == IF wpc = "get" THEN Wake("run") ELSE << >>
             x     == Head(ready).item
  <2>1. /\ Callback("put", later) /\ queue' = Append(queue, x)
        /\ UNCHANGED <<cpc, due, wpc, written, failed>>
    BY <1>6 DEF PutItem, writeVars, closeVars
  <2>2. later \in Seq(Entry)
    BY NothingLater, WakeLater DEF Allowed, TaskNames
  <2> HIDE DEF later
  <2>3. x \in Nat
    <3>1. Head(ready) \in Entry
      BY <2>1, <2>2, CallbackSteps DEF TypeOK
    <3>2. QED
      BY <3>1 DEF Entry
  <2> HIDE DEF x
  <2>4. Messages(queue') = Messages(queue) \cup ({x} \ {None})
    <3>1. queue \in Seq(Nat)
      BY DEF TypeOK
    <3>2. Messages(Append(queue, x)) = Messages(queue) \cup ({x} \ {None})
      BY <2>3, <3>1, AppendedMessage
    <3>3. QED
      BY <2>1, <3>2
  <2>5. Saved \cup ({x} \ {None}) \subseteq Saved'
    BY <2>1, <2>4 DEF Saved
  <2>6. DueAhead => DueAhead'
    BY <2>1, <2>2, <2>5, NearerAhead DEF x
  <2>7. QED
    BY <2>1, <2>5, <2>6, OtherDue
<1>7. CASE Run
  BY <1>7, RunDue
<1>8. ASSUME NEW c \in Closers, CallClose(c)
      PROVE  DueKept'
  <2>1. CASE c = "soft"
    <3>1. DueAhead' /\ cpc'["soft"] = "start"
      BY <1>8, <2>1, DueAtCall DEF CallClose, TypeOK
    <3>2. QED
      BY <3>1 DEF DueKept
  <2>2. CASE c = "hard"
    <3>1. cpc'["hard"] = "start"
      BY <1>8, <2>2 DEF CallClose, TypeOK
    <3>2. QED
      BY <3>1 DEF DueKept
  <2>3. QED
    BY <2>1, <2>2 DEF Closers
<1>9. ASSUME NEW c \in Closers, CloseSubscriber(c) \/ CloseWriter(c) \/ CloseFile(c)
      PROVE  DueKept'
  <2>1. CASE c = "soft"
    BY <1>9, <2>1, SoftCloseDue
  <2>2. CASE c = "hard"
    <3>1. cpc'["hard"] # "no"
      BY <1>9, <2>2 DEF CloseSubscriber, CloseWriter, CloseFile, TypeOK
    <3>2. QED
      BY <3>1 DEF DueKept
  <2>3. QED
    BY <2>1, <2>2 DEF Closers
<1>10. CASE Stop
  <2>1. /\ Callback("stop", << >>)
        /\ UNCHANGED <<cpc, due, wpc, written, failed, queue>>
    BY <1>10 DEF Stop, writeVars, closeVars
  <2>2. QED
    BY <1>3, <2>1, EmptySeq
<1>11. CASE Return
  <2>1. UNCHANGED <<cpc, due, wpc, ready, written, failed, queue>>
    BY <1>11 DEF Return, writeVars, closeVars
  <2>2. QED
    BY <2>1 DEF DueKept, DueAhead
<1>12. QED
  BY <1>1, <1>2, <1>4, <1>5, <1>6, <1>7, <1>8, <1>9, <1>10, <1>11 DEF Next, LoopStep

-----------------------------------------------------------------------------
(* The theorems *)

\* The invariant holds, for any number of messages, and any of them malformed or
\* unwritable.
THEOREM InvariantHolds == Spec => []AInv
<1>1. Init => AInv
  BY InitControl, InitData, InitDue DEF AInv
<1>2. AInv /\ [Next]_vars => AInv'
  BY StepControl, StepData, StepFlags, StepDue DEF AInv
<1>3. QED
  BY <1>1, <1>2, PTL DEF Spec

\* NothingLost: what receive has passed off is in order in the file, in the buffer or on
\* its way there, whichever tasks are cancelled when.
THEOREM NothingIsLost == Spec => []NothingLost
<1>1. AInv => NothingLost
  BY DEF AInv, Data
<1>2. QED
  BY <1>1, InvariantHolds, PTL

\* SoftCloseKeepsAll: a soft close that no Ctrl-C overtakes writes what receive had
\* passed off when it was called.
THEOREM SoftCloseKeeps == Spec => []SoftCloseKeepsAll
<1>1. AInv => SoftCloseKeepsAll
  <2> SUFFICES ASSUME AInv, cpc["soft"] = "closed", cpc["hard"] = "no"
               PROVE  Messages(due) \subseteq Messages(written)
    BY DEF SoftCloseKeepsAll
  <2>1. wpc = "done"
    BY DEF AInv, Control, Ending, Closers
  <2>2. QED
    BY <2>1 DEF AInv, DueKept
<1>2. QED
  BY <1>1, InvariantHolds, PTL

\* StopsClosed: when the loop has stopped no close is left in the middle, and the file
\* is closed unless the file writer raised.
THEOREM StopsWhenClosed == Spec => []StopsClosed
<1>1. AInv => StopsClosed
  <2> SUFFICES ASSUME AInv, loop = "stopped"
               PROVE  /\ \A c \in Closers : cpc[c] \in {"no", "closed", "raised"}
                      /\ closed \/ failed # << >>
    BY DEF StopsClosed
  <2>1. /\ ready = << >> /\ rpc = "done" /\ wpc \notin {"start", "get"}
        /\ closed \/ failed # << >>
    BY DEF AInv, Control, Ending
  <2>2. \A u : ~ InReady(u)
    BY <2>1, EmptySeq DEF InReady
  <2>3. ASSUME NEW c \in Closers
        PROVE  cpc[c] \in {"no", "closed", "raised"}
    <3>1. cpc[c] \in {"no", "start", "sub", "writer", "closed", "raised"}
      BY DEF AInv, TypeOK
    <3>2. cpc[c] \notin {"start", "sub", "writer"}
      BY <2>1, <2>2 DEF AInv, Control, Scheduled
    <3>3. QED
      BY <3>1, <3>2
  <2>4. QED
    BY <2>1, <2>3
<1>2. QED
  BY <1>1, InvariantHolds, PTL

\* QuietWhenClosed: nothing is written to a file that is closed.
THEOREM ClosedIsQuiet == Spec => QuietWhenClosed
<1>1. AInv /\ [Next]_vars => [closed => UNCHANGED written]_vars
  <2> SUFFICES ASSUME AInv, Next, closed
               PROVE  UNCHANGED written
    OBVIOUS
  <2>1. ~ Run
    <3>1. wpc = "done"
      BY DEF AInv, Control, Ending
    <3>2. QED
      BY <3>1, RunEffect DEF AInv
  <2>2. QED
    BY <2>1 DEF Next, LoopStep, Arrive, Receive, ReceiveCancelled, PutItem,
       CloseSubscriber,
                CloseWriter, CloseFile, Stop, Return, CallClose, writeVars
<1>2. QED
  BY <1>1, InvariantHolds, PTL DEF Spec, QuietWhenClosed
=============================================================================
