--------------------------- MODULE TransportProofs ---------------------------
(***************************************************************************)
(* Proofs about WriteQueue, and about Transport, which composes it with    *)
(* framing and a byte channel, for any number of handles, messages and     *)
(* calls of terminate, any contents of the messages and any capacity of    *)
(* the channel.                                                            *)
(*                                                                         *)
(* Of the queue, whatever it writes to:                                    *)
(*   - TypeCorrect: the state keeps its type, so len() never sees a        *)
(*     negative count;                                                     *)
(*   - WirePrefix: what is on the wire is the beginning of what was sent,  *)
(*     and exactly the completed sends are on it;                          *)
(*   - DrainedBeforeDone: terminate is answered after everything sent      *)
(*     before it.                                                          *)
(* The argument is that, until the task ends, the wire, the message in     *)
(* hand and the channel are together everything the channel has accepted,  *)
(* in order (QueueIsLog), and that nothing is accepted twice               *)
(* (NothingTwice).                                                         *)
(*                                                                         *)
(* Of the composition:                                                     *)
(*   - ImplementsWriteQueue: over framing and channel, the queue still     *)
(*     does what WriteQueue says, so that WireInOrder and                  *)
(*     DrainedOverChannel follow from the theorems above;                  *)
(*   - ParkedIdle: no wakeup is lost between the two sides.                *)
(***************************************************************************)
EXTENDS Transport, FunctionTheorems, FiniteSetTheorems, TLAPS

MessageItem(m) == [k |-> "message", n |-> m]
DoneItem(d) == [k |-> "done", n |-> d]

\* How many messages the task has taken and not flushed.
Held == IF current = 0 THEN 0 ELSE 1

\* The task has a message in hand exactly while it writes or flushes.
InHand == current # 0 <=> task \in {"writing", "flushing"}

\* Wire, message in hand and channel are the log.
QueueIsLog ==
    /\ \A i \in 1 .. Len(wire) : i <= Len(log) /\ log[i] = MessageItem(wire[i])
    /\ Running =>
        /\ Len(log) = Len(wire) + Held + Len(queue)
        /\ current # 0 => log[Len(wire) + 1] = MessageItem(current)
        /\ \A i \in 1 .. Len(queue) : log[Len(wire) + Held + i] = queue[i]

\* No message and no Done is accepted twice, nor counted by two handles.
NothingTwice ==
    /\ \A i, j \in 1 .. Len(log) : log[i] = log[j] => i = j
    /\ \A i \in 1 .. Len(log) :
        /\ log[i].k = "message" => log[i].n <= sends
        /\ log[i].k = "done" => log[i].n <= dones
    /\ \A s \in Senders : counted[s] # 0 =>
        /\ counted[s] <= sends
        /\ \A i \in 1 .. Len(log) : log[i] # MessageItem(counted[s])
        /\ \A t \in Senders : counted[t] = counted[s] => t = s

\* Exactly the messages on the wire are completed sends.
OkMeansWritten == \A m \in Messages : promise[m] = "ok" <=> m \in ToSet(wire)

\* A Done that is answered has ended the task.
DoneMeansEnded == Running => \A d \in Dones : finished[d] # "ok"

\* The counter behind len(), while the task runs.
CounterExact ==
    /\ task \in {"receiving", "writing"} => in_flight = sends - Len(wire)
    /\ task = "flushing" => in_flight = sends - Len(wire) - 1

Inv ==
    /\ TypeOK
    /\ InHand
    /\ QueueIsLog
    /\ NothingTwice
    /\ OkMeansWritten
    /\ DoneMeansEnded
    /\ TerminateDrains
    /\ CounterExact

-----------------------------------------------------------------------------
(* Sequences *)

\* What append does, for items and for messages.
LEMMA AppendFacts ==
    ASSUME NEW S, NEW s \in Seq(S), NEW e \in S
    PROVE  /\ Append(s, e) \in Seq(S)
           /\ Len(Append(s, e)) = Len(s) + 1 /\ Len(s) \in Nat
           /\ \A i \in 1 .. Len(s) : Append(s, e)[i] = s[i]
           /\ Append(s, e)[Len(s) + 1] = e
  OBVIOUS

\* What tail does.
LEMMA TailFacts ==
    ASSUME NEW S, NEW s \in Seq(S), s # << >>
    PROVE  /\ Tail(s) \in Seq(S) /\ Head(s) \in S /\ Head(s) = s[1]
           /\ Len(s) \in Nat /\ Len(s) > 0
           /\ Len(Tail(s)) = Len(s) - 1
           /\ \A i \in 1 .. Len(s) - 1 : Tail(s)[i] = s[i + 1]
  OBVIOUS

\* The elements of a sequence.
LEMMA ToSetFacts ==
    ASSUME NEW S, NEW s \in Seq(S)
    PROVE  /\ Len(s) \in Nat /\ DOMAIN s = 1 .. Len(s)
           /\ \A i \in 1 .. Len(s) : s[i] \in S
           /\ \A x : x \in ToSet(s) <=> \E i \in 1 .. Len(s) : s[i] = x
  BY DEF ToSet

\* Items are what they are made of.
LEMMA Items ==
    /\ \A m \in Messages : MessageItem(m) \in Item
    /\ \A d \in Dones : DoneItem(d) \in Item
    /\ \A x \in Item : \/ x.k = "message" /\ x.n \in Messages /\ x = MessageItem(x.n)
                       \/ x.k = "done" /\ x.n \in Dones /\ x = DoneItem(x.n)
    /\ \A m, n : MessageItem(m) = MessageItem(n) => m = n
    /\ \A m, n : MessageItem(m) # DoneItem(n)
    /\ \A m, n : DoneItem(m) = DoneItem(n) => m = n
    /\ \A m : MessageItem(m).k = "message" /\ MessageItem(m).n = m
    /\ \A m : DoneItem(m).k = "done" /\ DoneItem(m).n = m
  BY DEF Item, MessageItem, DoneItem

-----------------------------------------------------------------------------
(* The handles *)

\* A new queue satisfies the invariant.
LEMMA InitInv == Init => Inv
<1> SUFFICES ASSUME Init PROVE Inv
  OBVIOUS
<1>1. /\ Len(wire) = 0 /\ Len(log) = 0 /\ Len(queue) = 0 /\ current = 0
      /\ ToSet(wire) = {}
  BY DEF Init, ToSet
<1>2. TypeOK
  BY BoundsAssumption DEF Init, TypeOK, PromiseState
<1>3. InHand
  BY DEF Init, InHand
<1>7. CounterExact
  <2>1. in_flight = 0 /\ sends = 0 /\ task # "flushing"
    BY DEF Init
  <2> QED
    BY <1>1, <2>1 DEF CounterExact
<1>6. QueueIsLog
  BY <1>1 DEF QueueIsLog, Held
<1>4. NothingTwice
  BY <1>1 DEF Init, NothingTwice
<1>5. OkMeansWritten /\ DoneMeansEnded /\ TerminateDrains
  BY <1>1 DEF Init, OkMeansWritten, DoneMeansEnded, TerminateDrains
<1> QED
  BY <1>2, <1>3, <1>4, <1>5, <1>6, <1>7 DEF Inv

\* fetch_add: the number is new.
LEMMA CountInv == ASSUME Inv, NEW s \in Senders, Count(s) PROVE Inv'
<1>1. /\ sends' = sends + 1 /\ sends \in Nat /\ sends' \in 0 .. MaxSends
      /\ in_flight' = in_flight + 1
      /\ counted' = [counted EXCEPT ![s] = sends + 1]
      /\ UNCHANGED <<handles, dones, queue, task, current, wire, promise,
                     finished, log>>
  BY BoundsAssumption DEF Inv, TypeOK, Count
<1>2. TypeOK'
  BY <1>1 DEF Inv, TypeOK
<1>3. NothingTwice'
  <2>1. \A i \in 1 .. Len(log) : log[i] # MessageItem(sends + 1)
    <3> SUFFICES ASSUME NEW i \in 1 .. Len(log), log[i] = MessageItem(sends + 1)
                 PROVE  FALSE
      OBVIOUS
    <3>1. log[i].k = "message" /\ log[i].n = sends + 1
      BY Items
    <3> QED
      BY <1>1, <3>1 DEF Inv, NothingTwice
  <2>2. \A t \in Senders : counted[t] # sends + 1
    BY <1>1 DEF Inv, NothingTwice
  <2>3. \A t \in Senders : counted'[t] = IF t = s THEN sends + 1 ELSE counted[t]
    BY <1>1 DEF Inv, TypeOK
  <2>4. \A t \in Senders : counted[t] \in Nat
    BY DEF Inv, TypeOK
  <2>5. \A t \in Senders : counted'[t] # 0 =>
          /\ counted'[t] <= sends'
          /\ \A i \in 1 .. Len(log) : log[i] # MessageItem(counted'[t])
          /\ \A u \in Senders : counted'[u] = counted'[t] => u = t
    BY <1>1, <2>1, <2>2, <2>3, <2>4 DEF Inv, NothingTwice
  <2>6. \A i \in 1 .. Len(log) :
          /\ log[i].k = "message" => log[i].n <= sends'
          /\ log[i].k = "done" => log[i].n <= dones
    <3> SUFFICES ASSUME NEW i \in 1 .. Len(log)
                 PROVE  /\ log[i].k = "message" => log[i].n <= sends'
                        /\ log[i].k = "done" => log[i].n <= dones
      OBVIOUS
    <3>1. log[i] \in Item
      BY DEF Inv, TypeOK
    <3>2. log[i].n \in Int
      BY <3>1, Items DEF Messages, Dones
    <3> QED
      BY <1>1, <3>2 DEF Inv, NothingTwice
  <2> QED
    BY <1>1, <2>5, <2>6 DEF Inv, NothingTwice
<1>4. CounterExact'
  <2>1. Len(wire) \in Nat
    BY DEF Inv, TypeOK
  <2> QED
    BY <1>1, <2>1 DEF Inv, CounterExact, Running
<1> QED
  BY <1>1, <1>2, <1>3, <1>4 DEF Inv, InHand, QueueIsLog, Held, Running,
       OkMeansWritten, DoneMeansEnded, TerminateDrains

\* unbounded_send to a live channel: the item goes to the end of the channel
\* and of the log, behind everything there is.
LEMMA Accepting ==
    ASSUME Inv, Running, NEW x \in Item,
           queue' = Append(queue, x), log' = Append(log, x),
           \A i \in 1 .. Len(log) : log[i] # x,
           UNCHANGED <<task, current, wire>>
    PROVE  /\ queue' \in Seq(Item) /\ log' \in Seq(Item)
           /\ Len(log') = Len(log) + 1
           /\ \A i \in 1 .. Len(log) : log'[i] = log[i]
           /\ log'[Len(log) + 1] = x
           /\ \A i, j \in 1 .. Len(log') : log'[i] = log'[j] => i = j
           /\ QueueIsLog'
<1>1. /\ log \in Seq(Item) /\ queue \in Seq(Item) /\ wire \in Seq(Messages)
      /\ Len(log) \in Nat /\ Len(queue) \in Nat /\ Len(wire) \in Nat
  BY DEF Inv, TypeOK
<1>2. /\ log' \in Seq(Item) /\ Len(log') = Len(log) + 1
      /\ \A i \in 1 .. Len(log) : log'[i] = log[i]
      /\ log'[Len(log) + 1] = x
  BY <1>1, AppendFacts
<1>3. /\ queue' \in Seq(Item) /\ Len(queue') = Len(queue) + 1
      /\ \A i \in 1 .. Len(queue) : queue'[i] = queue[i]
      /\ queue'[Len(queue) + 1] = x
  BY <1>1, AppendFacts
<1>4. \A i, j \in 1 .. Len(log') : log'[i] = log'[j] => i = j
  BY <1>1, <1>2 DEF Inv, NothingTwice
<1>5. Held' = Held /\ Held \in {0, 1} /\ Running'
  BY DEF Held, Running
<1>6. /\ Len(log) = Len(wire) + Held + Len(queue)
      /\ \A i \in 1 .. Len(wire) : i <= Len(log) /\ log[i] = MessageItem(wire[i])
      /\ current # 0 => log[Len(wire) + 1] = MessageItem(current)
      /\ \A i \in 1 .. Len(queue) : log[Len(wire) + Held + i] = queue[i]
  BY DEF Inv, QueueIsLog
<1>7. Len(log') = Len(wire) + Held + Len(queue')
  BY <1>1, <1>2, <1>3, <1>5, <1>6
<1>8. \A i \in 1 .. Len(wire) : i <= Len(log') /\ log'[i] = MessageItem(wire[i])
  <2>1. Len(log) \in Nat /\ Len(log') = Len(log) + 1 /\ \A i \in 1 .. Len(log) : log'[i] = log[i]
    BY <1>1, <1>2
  <2>2. \A i \in 1 .. Len(wire) : i \in 1 .. Len(log) /\ i <= Len(log) + 1 /\ log[i] = MessageItem(wire[i])
    BY <1>1, <1>6
  <2> QED
    BY <2>1, <2>2
<1>9. current # 0 => log'[Len(wire) + 1] = MessageItem(current)
  <2>1. current # 0 => Len(wire) + 1 \in 1 .. Len(log)
    BY <1>1, <1>6 DEF Held
  <2> QED
    BY <1>2, <1>6, <2>1
<1>10. \A i \in 1 .. Len(queue') : log'[Len(wire) + Held + i] = queue'[i]
  <2> SUFFICES ASSUME NEW i \in 1 .. Len(queue')
               PROVE  log'[Len(wire) + Held + i] = queue'[i]
    OBVIOUS
  <2>1. CASE i \in 1 .. Len(queue)
    <3>1. Len(wire) + Held + i \in 1 .. Len(log)
      BY <1>1, <1>5, <1>6, <2>1
    <3> QED
      BY <1>2, <1>3, <1>6, <2>1, <3>1
  <2>2. CASE i = Len(queue) + 1
    BY <1>1, <1>2, <1>3, <1>5, <1>6, <2>2
  <2>3. i \in 1 .. Len(queue) + 1
    BY <1>3
  <2>4. i \in 1 .. Len(queue) \/ i = Len(queue) + 1
    BY <1>1, <2>3
  <2> QED
    BY <2>1, <2>2, <2>4
<1>11. QueueIsLog'
  BY <1>5, <1>7, <1>8, <1>9, <1>10 DEF QueueIsLog
<1> QED
  BY <1>2, <1>3, <1>4, <1>11

\* Nothing on the wire is still to be pushed.
LEMMA CountedNotWritten ==
    ASSUME Inv, NEW s \in Senders, counted[s] # 0
    PROVE  counted[s] \in Messages /\ counted[s] \notin ToSet(wire)
<1>1. counted[s] \in Messages
  BY DEF Inv, TypeOK, Messages
<1>2. ASSUME counted[s] \in ToSet(wire) PROVE FALSE
  <2>1. PICK i \in 1 .. Len(wire) : wire[i] = counted[s]
    BY <1>2, ToSetFacts DEF Inv, TypeOK
  <2>2. i \in 1 .. Len(log) /\ log[i] = MessageItem(counted[s])
    <3>1. Len(wire) \in Nat /\ Len(log) \in Nat
      BY DEF Inv, TypeOK
    <3>2. i <= Len(log) /\ log[i] = MessageItem(wire[i])
      BY DEF Inv, QueueIsLog
    <3> QED
      BY <2>1, <3>1, <3>2
  <2> QED
    BY <2>2 DEF Inv, NothingTwice
<1> QED
  BY <1>1, <1>2

\* The bounds on the numbers in the log, when items are added.
LEMMA LogNumbers ==
    ASSUME Inv, NEW i \in 1 .. Len(log)
    PROVE  log[i] \in Item /\ log[i].n \in Nat
<1>1. log[i] \in Item
  BY DEF Inv, TypeOK
<1> QED
  BY <1>1, Items DEF Messages, Dones

\* unbounded_send of a message.
LEMMA PushInv == ASSUME Inv, NEW s \in Senders, Push(s) PROVE Inv'
<1> DEFINE m == counted[s]
           x == MessageItem(m)
<1>1. /\ m # 0 /\ m \in Messages /\ x \in Item /\ m \notin ToSet(wire)
      /\ counted' = [counted EXCEPT ![s] = 0]
      /\ UNCHANGED <<handles, sends, dones, task, current, in_flight, wire,
                     finished>>
  BY CountedNotWritten, Items DEF Push
<1>2. /\ counted' \in [Senders -> 0 .. MaxSends]
      /\ \A t \in Senders : counted'[t] = IF t = s THEN 0 ELSE counted[t]
  BY BoundsAssumption DEF Push, Inv, TypeOK
<1>3. \A i \in 1 .. Len(log) : log[i] # x
  BY <1>1 DEF Inv, NothingTwice
<1>4. CASE Running
  <2>1. /\ queue' = Append(queue, x) /\ log' = Append(log, x)
        /\ promise' = [promise EXCEPT ![m] = "pending"]
    BY <1>4 DEF Push, MessageItem
  <2> HIDE DEF x
  <2>2. /\ queue' \in Seq(Item) /\ log' \in Seq(Item)
        /\ Len(log') = Len(log) + 1 /\ Len(log) \in Nat
        /\ \A i \in 1 .. Len(log) : log'[i] = log[i]
        /\ log'[Len(log) + 1] = x
        /\ \A i, j \in 1 .. Len(log') : log'[i] = log'[j] => i = j
        /\ QueueIsLog'
    BY <1>1, <1>3, <1>4, <2>1, Accepting DEF Inv, TypeOK
  <2> HIDE DEF m
  <2>3. /\ promise' \in [Messages -> PromiseState]
        /\ \A n \in Messages : promise'[n] = IF n = m THEN "pending" ELSE promise[n]
    BY <1>1, <2>1 DEF Inv, TypeOK, PromiseState
  <2>4. TypeOK'
    BY <1>1, <1>2, <2>2, <2>3 DEF Inv, TypeOK
  <2>5. OkMeansWritten'
    BY <1>1, <2>3 DEF Inv, OkMeansWritten
  <2>6. x.k = "message" /\ x.n = m
    BY Items DEF x
  <2>7. m <= sends
    BY <1>1 DEF Inv, NothingTwice, m
  <2>8. \A i \in 1 .. Len(log') :
          /\ log'[i].k = "message" => log'[i].n <= sends'
          /\ log'[i].k = "done" => log'[i].n <= dones'
    BY <1>1, <2>2, <2>6, <2>7 DEF Inv, NothingTwice
  <2>9. \A t \in Senders : counted'[t] # 0 =>
          /\ counted'[t] <= sends'
          /\ \A i \in 1 .. Len(log') : log'[i] # MessageItem(counted'[t])
          /\ \A u \in Senders : counted'[u] = counted'[t] => u = t
    <3> SUFFICES ASSUME NEW t \in Senders, counted'[t] # 0
                 PROVE  /\ counted'[t] <= sends'
                        /\ \A i \in 1 .. Len(log') : log'[i] # MessageItem(counted'[t])
                        /\ \A u \in Senders : counted'[u] = counted'[t] => u = t
      OBVIOUS
    <3>1. t # s /\ counted'[t] = counted[t] /\ counted[t] # m
      BY <1>1, <1>2 DEF Inv, NothingTwice, m
    <3>2. x # MessageItem(counted[t])
      BY <2>6, <3>1, Items
    <3>3. \A i \in 1 .. Len(log') : log'[i] # MessageItem(counted'[t])
      BY <2>2, <3>1, <3>2 DEF Inv, NothingTwice
    <3> QED
      BY <1>1, <1>2, <3>1, <3>3 DEF Inv, NothingTwice
  <2>10. NothingTwice'
    BY <2>2, <2>8, <2>9 DEF NothingTwice
  <2>11. DoneMeansEnded' /\ CounterExact' /\ InHand'
    BY <1>1 DEF Inv, DoneMeansEnded, CounterExact, Running, InHand
  <2>12. TerminateDrains'
    <3>1. \A d \in Dones : finished'[d] # "ok"
      BY <1>1, <1>4 DEF Inv, DoneMeansEnded
    <3>2. \A i \in DOMAIN log' : log'[i].k = "done" => log'[i].n \in Dones
      BY <2>2, Items, ToSetFacts
    <3> QED
      BY <3>1, <3>2 DEF TerminateDrains
  <2> QED
    BY <2>2, <2>4, <2>5, <2>10, <2>11, <2>12 DEF Inv
<1>5. CASE ~ Running
  <2>1. promise' = [promise EXCEPT ![m] = "err"] /\ UNCHANGED <<queue, log>>
    BY <1>5 DEF Push
  <2> HIDE DEF m, x
  <2>2. /\ promise' \in [Messages -> PromiseState]
        /\ \A n \in Messages : promise'[n] = IF n = m THEN "err" ELSE promise[n]
    BY <1>1, <2>1 DEF Inv, TypeOK, PromiseState
  <2>3. TypeOK'
    BY <1>1, <1>2, <2>1, <2>2 DEF Inv, TypeOK
  <2>4. OkMeansWritten'
    BY <1>1, <2>2 DEF Inv, OkMeansWritten
  <2>5. NothingTwice'
    BY <1>1, <1>2, <2>1 DEF Inv, NothingTwice
  <2>6. InHand' /\ QueueIsLog' /\ DoneMeansEnded' /\ CounterExact'
    BY <1>1, <2>1 DEF Inv, InHand, QueueIsLog, Held, DoneMeansEnded,
         CounterExact, Running
  <2>7. TerminateDrains'
    <3>1. \A i \in DOMAIN log : log[i].k = "message" =>
              (promise[log[i].n] = "ok" => promise'[log[i].n] = "ok")
      <4> SUFFICES ASSUME NEW i \in DOMAIN log, log[i].k = "message",
                          promise[log[i].n] = "ok"
                   PROVE  promise'[log[i].n] = "ok"
        OBVIOUS
      <4>1. i \in 1 .. Len(log) /\ log[i] \in Item
        BY ToSetFacts DEF Inv, TypeOK
      <4>2. log[i].n \in Messages /\ log[i] = MessageItem(log[i].n)
        BY <4>1, Items
      <4>3. log[i].n # m
        BY <1>3, <4>1, <4>2 DEF x
      <4> QED
        BY <2>2, <4>2, <4>3
    <3>2. \A i \in DOMAIN log : \A j \in 1 .. i - 1 : j \in DOMAIN log
      BY ToSetFacts DEF Inv, TypeOK
    <3> QED
      BY <1>1, <2>1, <3>1, <3>2 DEF Inv, TerminateDrains
  <2> QED
    BY <2>3, <2>4, <2>5, <2>6, <2>7 DEF Inv
<1> QED
  BY <1>4, <1>5

\* terminate: the Done goes behind everything that was sent.
LEMMA TerminateInv == ASSUME Inv, NEW s \in Senders, Terminate(s) PROVE Inv'
<1> DEFINE d == dones + 1
           x == DoneItem(d)
<1>1. /\ d \in Dones /\ x \in Item /\ dones \in Nat
      /\ dones' = d /\ dones' \in 0 .. MaxTerminates
      /\ UNCHANGED <<handles, counted, sends, task, current, in_flight, wire,
                     promise>>
  BY BoundsAssumption, Items DEF Terminate, Inv, TypeOK, Dones
<1>2. \A i \in 1 .. Len(log) : log[i] # x
  <2> SUFFICES ASSUME NEW i \in 1 .. Len(log), log[i] = x PROVE FALSE
    OBVIOUS
  <2>1. log[i].k = "done" /\ log[i].n = dones + 1
    BY Items
  <2> QED
    BY <1>1, <2>1 DEF Inv, NothingTwice
<1>3. CASE Running
  <2>1. /\ queue' = Append(queue, x) /\ log' = Append(log, x)
        /\ finished' = [finished EXCEPT ![d] = "pending"]
    BY <1>3 DEF Terminate, DoneItem
  <2>2. x.k = "done" /\ x.n = d
    BY Items
  <2> HIDE DEF x
  <2>3. /\ queue' \in Seq(Item) /\ log' \in Seq(Item)
        /\ Len(log') = Len(log) + 1 /\ Len(log) \in Nat
        /\ \A i \in 1 .. Len(log) : log'[i] = log[i]
        /\ log'[Len(log) + 1] = x
        /\ \A i, j \in 1 .. Len(log') : log'[i] = log'[j] => i = j
        /\ QueueIsLog'
    BY <1>1, <1>2, <1>3, <2>1, Accepting, SMTT(30) DEF Inv, TypeOK
  <2>4. /\ finished' \in [Dones -> PromiseState]
        /\ \A e \in Dones : finished'[e] = "ok" => finished[e] = "ok"
    <3> HIDE DEF d
    <3> QED BY <1>1, <2>1 DEF Inv, TypeOK, PromiseState
  <2>5. TypeOK'
    BY <1>1, <2>3, <2>4 DEF Inv, TypeOK
  <2>6. \A i \in 1 .. Len(log') :
          /\ log'[i].k = "message" => log'[i].n <= sends'
          /\ log'[i].k = "done" => log'[i].n <= dones'
    <3> SUFFICES ASSUME NEW i \in 1 .. Len(log')
                 PROVE  /\ log'[i].k = "message" => log'[i].n <= sends'
                        /\ log'[i].k = "done" => log'[i].n <= dones'
      OBVIOUS
    <3>1. i \in 1 .. Len(log) \/ i = Len(log) + 1
      BY <2>3
    <3>2. CASE i \in 1 .. Len(log)
      <4>1. log'[i] = log[i] /\ log[i].n \in Nat
        BY <2>3, <3>2, LogNumbers
      <4> QED
        BY <1>1, <3>2, <4>1 DEF Inv, NothingTwice
    <3>3. CASE i = Len(log) + 1
      BY <1>1, <2>2, <2>3, <3>3
    <3> QED
      BY <3>1, <3>2, <3>3
  <2>7. \A t \in Senders : counted'[t] # 0 =>
          /\ counted'[t] <= sends'
          /\ \A i \in 1 .. Len(log') : log'[i] # MessageItem(counted'[t])
          /\ \A u \in Senders : counted'[u] = counted'[t] => u = t
    <3> SUFFICES ASSUME NEW t \in Senders, counted'[t] # 0
                 PROVE  /\ counted'[t] <= sends'
                        /\ \A i \in 1 .. Len(log') : log'[i] # MessageItem(counted'[t])
                        /\ \A u \in Senders : counted'[u] = counted'[t] => u = t
      OBVIOUS
    <3>1. x # MessageItem(counted[t])
      BY Items DEF x
    <3>2. \A i \in 1 .. Len(log') : log'[i] # MessageItem(counted[t])
      BY <1>1, <2>3, <3>1 DEF Inv, NothingTwice
    <3> QED
      BY <1>1, <3>2 DEF Inv, NothingTwice
  <2>8. NothingTwice'
    BY <2>3, <2>6, <2>7 DEF NothingTwice
  <2>9. InHand' /\ OkMeansWritten' /\ CounterExact'
    BY <1>1 DEF Inv, InHand, OkMeansWritten, CounterExact
  <2>10. DoneMeansEnded'
    BY <1>1, <1>3, <2>4 DEF Inv, DoneMeansEnded
  <2>11. TerminateDrains'
    <3>1. \A e \in Dones : finished'[e] # "ok"
      BY <1>3, <2>4 DEF Inv, DoneMeansEnded
    <3>2. \A i \in DOMAIN log' : log'[i].k = "done" => log'[i].n \in Dones
      BY <2>3, Items, ToSetFacts
    <3> QED
      BY <3>1, <3>2 DEF TerminateDrains
  <2> QED
    BY <2>3, <2>5, <2>8, <2>9, <2>10, <2>11 DEF Inv
<1>4. CASE ~ Running
  <2>1. finished' = [finished EXCEPT ![d] = "err"] /\ UNCHANGED <<queue, log>>
    BY <1>4 DEF Terminate
  <2>2. /\ finished' \in [Dones -> PromiseState]
        /\ \A e \in Dones : finished'[e] = "ok" => finished[e] = "ok"
    <3> HIDE DEF d
    <3> QED BY <1>1, <2>1 DEF Inv, TypeOK, PromiseState
  <2>3. TypeOK'
    BY <1>1, <2>1, <2>2 DEF Inv, TypeOK
  <2>4. \A i \in 1 .. Len(log) : log[i].k = "done" => log[i].n <= dones'
    BY <1>1, LogNumbers DEF Inv, NothingTwice
  <2>5. NothingTwice'
    BY <1>1, <2>1, <2>4 DEF Inv, NothingTwice
  <2>6. InHand' /\ QueueIsLog' /\ OkMeansWritten' /\ CounterExact'
    BY <1>1, <2>1 DEF Inv, InHand, QueueIsLog, Held, OkMeansWritten,
         CounterExact, Running
  <2>7. DoneMeansEnded'
    BY <1>1, <1>4 DEF DoneMeansEnded, Running
  <2>8. TerminateDrains'
    <3>1. \A i \in DOMAIN log : log[i].k = "done" => log[i].n \in Dones
      BY Items, ToSetFacts DEF Inv, TypeOK
    <3> QED
      BY <1>1, <2>1, <2>2, <3>1 DEF Inv, TerminateDrains
  <2> QED
    BY <2>3, <2>5, <2>6, <2>7, <2>8 DEF Inv
<1> QED
  BY <1>3, <1>4

-----------------------------------------------------------------------------
(* The task *)

\* The messages taken so far are as many different numbers that were counted:
\* the counter behind len() is positive while one of them is written.
LEMMA TakenAreCounted ==
    ASSUME Inv, Running, current # 0
    PROVE  Len(wire) + 1 <= sends
<1> DEFINE S == 1 .. Len(wire) + 1
           T == 1 .. sends
           f == [i \in S |-> log[i].n]
<1>1. /\ Len(wire) \in Nat /\ Len(log) \in Nat /\ sends \in Nat
      /\ Len(queue) \in Nat
  BY DEF Inv, TypeOK
<1>2. Len(wire) + 1 <= Len(log)
  BY <1>1 DEF Inv, QueueIsLog, Held
<1>3. \A i \in S : /\ i \in 1 .. Len(log)
                   /\ log[i].k = "message" /\ log[i].n \in T
                   /\ log[i] = MessageItem(log[i].n)
  <2> SUFFICES ASSUME NEW i \in S
               PROVE  /\ i \in 1 .. Len(log)
                      /\ log[i].k = "message" /\ log[i].n \in T
                      /\ log[i] = MessageItem(log[i].n)
    OBVIOUS
  <2>1. i \in 1 .. Len(log) /\ (i \in 1 .. Len(wire) \/ i = Len(wire) + 1)
    BY <1>1, <1>2
  <2>2. \E m : log[i] = MessageItem(m)
    BY <2>1 DEF Inv, QueueIsLog
  <2>3. log[i].k = "message" /\ log[i] = MessageItem(log[i].n)
    BY <2>2, Items
  <2>4. log[i].n \in Messages
    BY <2>1, <2>3, LogNumbers, Items
  <2>5. log[i].n <= sends
    BY <2>1, <2>3 DEF Inv, NothingTwice
  <2> QED
    BY <1>1, <2>1, <2>3, <2>4, <2>5 DEF Messages
<1>4. f \in [S -> T]
  BY <1>3
<1>5. \A i, j \in S : f[i] = f[j] => i = j
  BY <1>3 DEF Inv, NothingTwice
<1>6. f \in Injection(S, T)
  BY <1>4, <1>5 DEF Injection, IsInjective
<1>7. IsFiniteSet(T) /\ Cardinality(S) = Len(wire) + 1 /\ Cardinality(T) = sends
  <2>1. \A n \in Nat : IsFiniteSet(1 .. n) /\ Cardinality(1 .. n) = n
    <3> SUFFICES ASSUME NEW n \in Nat
                 PROVE  IsFiniteSet(1 .. n) /\ Cardinality(1 .. n) = n
      OBVIOUS
    <3>1. IsFiniteSet(1 .. n) /\ Cardinality(1 .. n) = IF 1 > n THEN 0 ELSE n - 1 + 1
      BY FS_Interval
    <3> QED
      BY <3>1
  <2>2. Len(wire) + 1 \in Nat
    BY <1>1
  <2> QED
    BY <1>1, <2>1, <2>2
<1>8. Cardinality(S) <= Cardinality(T)
  <2> HIDE DEF S, T, f
  <2> QED BY <1>6, <1>7, FS_Injection
<1> QED
  BY <1>7, <1>8

\* A message in hand or in the channel is not on the wire.
LEMMA LeftNotWritten ==
    ASSUME Inv, Running, NEW m \in Messages,
           m = current \/ MessageItem(m) \in ToSet(queue)
    PROVE  m \notin ToSet(wire)
<1> SUFFICES ASSUME m \in ToSet(wire) PROVE FALSE
  OBVIOUS
<1>1. /\ Len(wire) \in Nat /\ Len(log) \in Nat /\ Len(queue) \in Nat
      /\ Held \in {0, 1}
  BY DEF Inv, TypeOK, Held
<1>2. PICK i \in 1 .. Len(wire) : wire[i] = m
  BY ToSetFacts DEF Inv, TypeOK
<1>3. i \in 1 .. Len(log) /\ log[i] = MessageItem(m)
  <2>1. i <= Len(log) /\ log[i] = MessageItem(wire[i])
    BY DEF Inv, QueueIsLog
  <2> QED
    BY <1>1, <1>2, <2>1
<1>4. \E j \in 1 .. Len(log) : j > Len(wire) /\ log[j] = MessageItem(m)
  <2>0. Len(log) = Len(wire) + Held + Len(queue)
    BY DEF Inv, QueueIsLog
  <2>1. CASE m = current
    <3>1. current # 0
      BY <2>1 DEF Messages
    <3>2. Len(wire) + 1 \in 1 .. Len(log)
      BY <1>1, <2>0, <3>1 DEF Held
    <3> QED
      BY <1>1, <2>1, <3>1, <3>2 DEF Inv, QueueIsLog
  <2>2. CASE MessageItem(m) \in ToSet(queue)
    <3>1. PICK q \in 1 .. Len(queue) : queue[q] = MessageItem(m)
      BY <2>2, ToSetFacts DEF Inv, TypeOK
    <3>2. log[Len(wire) + Held + q] = MessageItem(m)
      BY <3>1 DEF Inv, QueueIsLog
    <3>3. Len(wire) + Held + q \in 1 .. Len(log) /\ Len(wire) + Held + q > Len(wire)
      BY <1>1, <2>0, <3>1
    <3> QED
      BY <3>2, <3>3
  <2> QED
    BY <2>1, <2>2
<1> QED
  BY <1>1, <1>2, <1>3, <1>4 DEF Inv, NothingTwice

\* The end of the task, with a Done or without: everything it drops is an
\* error, and nothing that was completed is.
LEMMA EndInv ==
    ASSUME Inv, Running, NEW d, End(d), in_flight' \in Nat,
           \/ d = 0
           \/ /\ task = "receiving" /\ queue # << >>
              /\ Head(queue) = DoneItem(d),
           UNCHANGED <<handles, counted, sends, dones, wire, log>>
    PROVE  Inv'
<1>1. task' = "ended" /\ current' = 0 /\ queue' = << >>
  BY DEF End
<1>2. /\ promise' \in [Messages -> PromiseState]
      /\ \A m \in Messages : promise'[m] =
            IF m = current \/ MessageItem(m) \in ToSet(queue)
            THEN "err" ELSE promise[m]
  BY DEF End, MessageItem, Inv, TypeOK, PromiseState
<1>3. /\ finished' \in [Dones -> PromiseState]
      /\ \A e \in Dones : finished'[e] = "ok" => e = d
  <2>1. \A e \in Dones : finished'[e] = "ok" => e = d \/ finished[e] = "ok"
    BY DEF End
  <2>2. finished' \in [Dones -> PromiseState]
    BY DEF End, Inv, TypeOK, PromiseState
  <2> QED
    BY <2>1, <2>2 DEF Inv, DoneMeansEnded
<1>4. TypeOK'
  BY <1>1, <1>2, <1>3, BoundsAssumption DEF Inv, TypeOK
<1>5. InHand' /\ DoneMeansEnded' /\ CounterExact' /\ QueueIsLog'
  BY <1>1 DEF Inv, InHand, DoneMeansEnded, CounterExact, QueueIsLog, Running
<1>6. NothingTwice'
  BY DEF Inv, NothingTwice
<1>7. OkMeansWritten'
  BY <1>2, LeftNotWritten DEF Inv, OkMeansWritten
<1>8. TerminateDrains'
  <2> SUFFICES ASSUME NEW i \in DOMAIN log, log[i].k = "done",
                      finished'[log[i].n] = "ok",
                      NEW j \in 1 .. i - 1, log[j].k = "message"
               PROVE  promise'[log[j].n] = "ok"
    BY DEF TerminateDrains
  <2>1. /\ Len(log) \in Nat /\ Len(wire) \in Nat /\ Len(queue) \in Nat
        /\ DOMAIN log = 1 .. Len(log) /\ i \in 1 .. Len(log)
        /\ queue \in Seq(Item) /\ wire \in Seq(Messages)
    BY ToSetFacts DEF Inv, TypeOK
  <2>2. log[i].n \in Dones /\ log[i] = DoneItem(log[i].n)
    BY <2>1, LogNumbers, Items
  <2>3. log[i].n = d /\ d # 0
    BY <1>3, <2>2 DEF Dones
  <2>4. current = 0 /\ Held = 0
    BY <2>3 DEF Inv, InHand, Held
  <2>5. Len(queue) > 0 /\ Head(queue) = queue[1] /\ queue[1] = DoneItem(d)
    BY <2>1, <2>3, TailFacts
  <2>6. /\ Len(log) = Len(wire) + Len(queue)
        /\ log[Len(wire) + 1] = queue[1]
    BY <2>1, <2>4, <2>5 DEF Inv, QueueIsLog
  <2>7. i = Len(wire) + 1
    BY <2>1, <2>2, <2>3, <2>5, <2>6 DEF Inv, NothingTwice
  <2>8. j \in 1 .. Len(wire) /\ log[j] = MessageItem(wire[j])
    BY <2>1, <2>7 DEF Inv, QueueIsLog
  <2>9. wire[j] \in Messages /\ wire[j] \in ToSet(wire) /\ log[j].n = wire[j]
    BY <2>1, <2>8, ToSetFacts, Items
  <2> QED
    BY <1>7, <2>9 DEF OkMeansWritten
<1> QED
  BY <1>4, <1>5, <1>6, <1>7, <1>8 DEF Inv

\* rx.next() gives a message: it moves from the channel to the task's hand.
LEMMA TakeMessageInv == ASSUME Inv, TakeMessage PROVE Inv'
<1>1. /\ task = "receiving" /\ task' = "writing" /\ queue # << >>
      /\ current' = Head(queue).n /\ queue' = Tail(queue)
      /\ Head(queue).k = "message"
      /\ UNCHANGED <<handles, counted, sends, dones, in_flight, wire, promise,
                     finished, log>>
  BY DEF TakeMessage
<1>2. /\ queue \in Seq(Item) /\ wire \in Seq(Messages) /\ log \in Seq(Item)
      /\ Len(wire) \in Nat /\ Len(log) \in Nat
  BY DEF Inv, TypeOK
<1>3. /\ queue' \in Seq(Item) /\ Head(queue) \in Item /\ Head(queue) = queue[1]
      /\ Len(queue) \in Nat /\ Len(queue) > 0 /\ Len(queue') = Len(queue) - 1
      /\ \A i \in 1 .. Len(queue) - 1 : queue'[i] = queue[i + 1]
  BY <1>1, <1>2, TailFacts
<1>4. current' \in Messages /\ Head(queue) = MessageItem(current')
  BY <1>1, <1>3, Items
<1>5. current = 0 /\ Held = 0 /\ current' # 0 /\ Held' = 1 /\ Running /\ Running'
  BY <1>1, <1>4 DEF Inv, InHand, Held, Running, Messages
<1>6. TypeOK'
  <2>1. current' \in 0 .. MaxSends
    BY <1>4 DEF Messages
  <2> QED
    BY <1>1, <1>3, <2>1 DEF Inv, TypeOK
<1>7. QueueIsLog'
  <2>1. /\ \A i \in 1 .. Len(wire) : i <= Len(log) /\ log[i] = MessageItem(wire[i])
        /\ Len(log) = Len(wire) + Len(queue)
        /\ \A i \in 1 .. Len(queue) : log[Len(wire) + i] = queue[i]
    BY <1>2, <1>3, <1>5 DEF Inv, QueueIsLog
  <2>2. Len(log) = Len(wire) + 1 + Len(queue')
    BY <1>2, <1>3, <2>1
  <2>3. log[Len(wire) + 1] = MessageItem(current')
    BY <1>3, <1>4, <2>1
  <2>4. \A i \in 1 .. Len(queue') : log[Len(wire) + 1 + i] = queue'[i]
    <3> SUFFICES ASSUME NEW i \in 1 .. Len(queue')
                 PROVE  log[Len(wire) + 1 + i] = queue'[i]
      OBVIOUS
    <3>1. i + 1 \in 1 .. Len(queue) /\ i \in 1 .. Len(queue) - 1
      BY <1>3
    <3>2. log[Len(wire) + (i + 1)] = queue[i + 1] /\ queue'[i] = queue[i + 1]
      BY <1>3, <2>1, <3>1
    <3>3. Len(wire) + 1 + i = Len(wire) + (i + 1)
      BY <1>2
    <3> QED
      BY <3>2, <3>3
  <2> QED
    BY <1>1, <1>5, <2>1, <2>2, <2>3, <2>4 DEF QueueIsLog
<1>8. InHand' /\ NothingTwice' /\ OkMeansWritten' /\ TerminateDrains'
  BY <1>1, <1>5 DEF Inv, InHand, NothingTwice, OkMeansWritten, TerminateDrains
<1>9. DoneMeansEnded' /\ CounterExact'
  BY <1>1, <1>5 DEF Inv, DoneMeansEnded, CounterExact
<1> QED
  BY <1>6, <1>7, <1>8, <1>9 DEF Inv

\* Writing a message, well or badly, counts it out: the counter had counted it.
LEMMA CountedOut ==
    ASSUME Inv, task = "writing", in_flight' = in_flight - 1
    PROVE  in_flight' \in Nat /\ in_flight' = sends - Len(wire) - 1
<1>1. Len(wire) \in Nat /\ sends \in Nat /\ in_flight = sends - Len(wire)
  BY DEF Inv, TypeOK, CounterExact
<1>2. Len(wire) + 1 <= sends
  BY TakenAreCounted DEF Inv, InHand, Running
<1> QED
  BY <1>1, <1>2

\* write_message is done.
LEMMA WroteInv == ASSUME Inv, Wrote PROVE Inv'
<1>1. /\ task = "writing" /\ task' = "flushing" /\ in_flight' = in_flight - 1
      /\ UNCHANGED <<handles, counted, sends, dones, queue, current, wire,
                     promise, finished, log>>
  BY DEF Wrote
<1>2. in_flight' \in Nat /\ in_flight' = sends - Len(wire) - 1
  BY <1>1, CountedOut
<1>3. TypeOK'
  BY <1>1, <1>2 DEF Inv, TypeOK
<1>4. InHand' /\ CounterExact'
  BY <1>1, <1>2 DEF Inv, InHand, CounterExact
<1>5. QueueIsLog' /\ DoneMeansEnded'
  BY <1>1 DEF Inv, QueueIsLog, DoneMeansEnded, Held, Running
<1> QED
  BY <1>1, <1>3, <1>4, <1>5 DEF Inv, NothingTwice, OkMeansWritten, TerminateDrains

\* flush is done: the message in hand is the next of the log.
LEMMA FlushedInv == ASSUME Inv, Flushed PROVE Inv'
<1>1. /\ task = "flushing" /\ task' = "receiving" /\ current' = 0
      /\ wire' = Append(wire, current)
      /\ promise' = [promise EXCEPT ![current] = "ok"]
      /\ UNCHANGED <<handles, counted, sends, dones, queue, in_flight, finished,
                     log>>
  BY DEF Flushed
<1>2. /\ queue \in Seq(Item) /\ wire \in Seq(Messages) /\ log \in Seq(Item)
      /\ Len(wire) \in Nat /\ Len(log) \in Nat /\ Len(queue) \in Nat
  BY DEF Inv, TypeOK
<1>3. /\ current # 0 /\ current \in Messages /\ Held = 1 /\ Held' = 0
      /\ Running /\ Running'
  BY <1>1 DEF Inv, TypeOK, InHand, Held, Running, Messages
<1>4. /\ wire' \in Seq(Messages) /\ Len(wire') = Len(wire) + 1
      /\ \A i \in 1 .. Len(wire) : wire'[i] = wire[i]
      /\ wire'[Len(wire) + 1] = current
  BY <1>1, <1>2, <1>3, AppendFacts
<1>5. /\ promise' \in [Messages -> PromiseState]
      /\ \A m \in Messages : promise'[m] = IF m = current THEN "ok" ELSE promise[m]
  BY <1>1, <1>3 DEF Inv, TypeOK, PromiseState
<1>6. TypeOK'
  BY <1>1, <1>4, <1>5, BoundsAssumption DEF Inv, TypeOK
<1>7. OkMeansWritten'
  <2>1. \A m : m \in ToSet(wire') <=> m \in ToSet(wire) \/ m = current
    <3>1. \A i : i \in 1 .. Len(wire') <=> i \in 1 .. Len(wire) \/ i = Len(wire) + 1
      BY <1>2, <1>4
    <3>2. \A m : m \in ToSet(wire') <=> \E i \in 1 .. Len(wire') : wire'[i] = m
      BY <1>4, ToSetFacts
    <3>3. \A m : m \in ToSet(wire) <=> \E i \in 1 .. Len(wire) : wire[i] = m
      BY <1>2, ToSetFacts
    <3> QED
      BY <1>4, <3>1, <3>2, <3>3
  <2> QED
    BY <1>5, <2>1 DEF Inv, OkMeansWritten
<1>8. QueueIsLog'
  <2>1. /\ \A i \in 1 .. Len(wire) : i <= Len(log) /\ log[i] = MessageItem(wire[i])
        /\ Len(log) = Len(wire) + 1 + Len(queue)
        /\ log[Len(wire) + 1] = MessageItem(current)
        /\ \A i \in 1 .. Len(queue) : log[Len(wire) + 1 + i] = queue[i]
    BY <1>3 DEF Inv, QueueIsLog
  <2>2. \A i \in 1 .. Len(wire') : i <= Len(log) /\ log[i] = MessageItem(wire'[i])
    <3> SUFFICES ASSUME NEW i \in 1 .. Len(wire')
                 PROVE  i <= Len(log) /\ log[i] = MessageItem(wire'[i])
      OBVIOUS
    <3>1. i \in 1 .. Len(wire) \/ i = Len(wire) + 1
      BY <1>2, <1>4
    <3>2. CASE i \in 1 .. Len(wire)
      BY <1>4, <2>1, <3>2
    <3>3. CASE i = Len(wire) + 1
      BY <1>2, <1>4, <2>1, <3>3
    <3> QED
      BY <3>1, <3>2, <3>3
  <2>3. Len(log) = Len(wire') + 0 + Len(queue)
    BY <1>2, <1>4, <2>1
  <2>4. \A i \in 1 .. Len(queue) : log[Len(wire') + 0 + i] = queue[i]
    BY <1>2, <1>4, <2>1
  <2> QED
    BY <1>1, <1>3, <2>2, <2>3, <2>4 DEF QueueIsLog
<1>9. TerminateDrains'
  <2>1. \A d \in Dones : finished[d] # "ok"
    BY <1>3 DEF Inv, DoneMeansEnded
  <2>2. \A i \in DOMAIN log : log[i].k = "done" => log[i].n \in Dones
    BY Items, ToSetFacts DEF Inv, TypeOK
  <2> QED
    BY <1>1, <2>1, <2>2 DEF TerminateDrains
<1>10. InHand' /\ NothingTwice' /\ DoneMeansEnded'
  BY <1>1, <1>3 DEF Inv, InHand, NothingTwice, DoneMeansEnded
<1>11. CounterExact'
  <2>1. in_flight = sends - Len(wire) - 1 /\ sends \in Nat
    BY <1>1 DEF Inv, CounterExact, TypeOK
  <2>2. in_flight' = sends - Len(wire')
    BY <1>1, <1>2, <1>4, <2>1
  <2> QED
    BY <1>1, <2>2 DEF CounterExact
<1> QED
  BY <1>6, <1>7, <1>8, <1>9, <1>10, <1>11 DEF Inv

\* A handle is dropped.
LEMMA DropHandleInv == ASSUME Inv, NEW s \in Senders, DropHandle(s) PROVE Inv'
<1>1. TypeOK'
  BY DEF Inv, TypeOK, DropHandle
<1> QED
  BY <1>1 DEF DropHandle, Inv, InHand, QueueIsLog, Held, Running, NothingTwice,
       OkMeansWritten, DoneMeansEnded, TerminateDrains, CounterExact

\* The five ways the task ends.
LEMMA EndingInv ==
    ASSUME Inv, TakeDone \/ ChannelClosed \/ WriteFails \/ FlushFails \/ DropTask
    PROVE  Inv'
<1>1. CASE TakeDone
  <2>1. /\ Running /\ task = "receiving" /\ queue # << >>
        /\ End(Head(queue).n) /\ Head(queue).k = "done"
        /\ UNCHANGED <<handles, counted, sends, dones, in_flight, wire, log>>
    BY <1>1 DEF TakeDone, Running
  <2>2. Head(queue) \in Item
    BY <2>1, TailFacts DEF Inv, TypeOK
  <2>3. Head(queue) = DoneItem(Head(queue).n)
    BY <2>1, <2>2, Items
  <2>4. in_flight' \in Nat
    BY <2>1 DEF Inv, TypeOK
  <2> QED
    BY <2>1, <2>3, <2>4, EndInv
<1>2. CASE ChannelClosed \/ FlushFails \/ DropTask
  <2>1. /\ Running /\ End(0)
        /\ UNCHANGED <<handles, counted, sends, dones, in_flight, wire, log>>
    BY <1>2 DEF ChannelClosed, FlushFails, DropTask, Running
  <2>2. in_flight' \in Nat
    BY <2>1 DEF Inv, TypeOK
  <2> QED
    BY <2>1, <2>2, EndInv
<1>3. CASE WriteFails
  <2>1. /\ Running /\ task = "writing" /\ End(0) /\ in_flight' = in_flight - 1
        /\ UNCHANGED <<handles, counted, sends, dones, wire, log>>
    BY <1>3 DEF WriteFails, Running
  <2>2. in_flight' \in Nat
    BY <2>1, CountedOut
  <2> QED
    BY <2>1, <2>2, EndInv
<1> QED
  BY <1>1, <1>2, <1>3

-----------------------------------------------------------------------------
(* The theorems of WriteQueue *)

\* Every step keeps the invariant.
LEMMA NextInv == ASSUME Inv, [Next]_vars PROVE Inv'
<1>1. CASE UNCHANGED vars
  <2>1. TypeOK'
    BY <1>1 DEF Inv, TypeOK, vars
  <2> QED
    BY <1>1, <2>1 DEF Inv, vars, InHand, QueueIsLog, Held, Running, NothingTwice,
         OkMeansWritten, DoneMeansEnded, TerminateDrains, CounterExact
<1>2. ASSUME NEW s \in Senders,
             Count(s) \/ Push(s) \/ Terminate(s) \/ DropHandle(s)
      PROVE  Inv'
  BY <1>2, CountInv, PushInv, TerminateInv, DropHandleInv
<1>3. CASE TaskStep \/ DropTask
  BY <1>3, TakeMessageInv, WroteInv, FlushedInv, EndingInv DEF TaskStep
<1> QED
  BY <1>1, <1>2, <1>3 DEF Next

\* So the invariant holds in every reachable state.
LEMMA Invariance == Spec => []Inv
<1>1. Inv /\ [Next]_vars => Inv'
  BY NextInv
<1> QED
  BY InitInv, <1>1, PTL DEF Spec

\* The state keeps its type.  The counter behind len() is part of it: every
\* message counted out has been counted in, whichever way the write ends.
THEOREM TypeCorrect == Spec => []TypeOK
<1>1. Inv => TypeOK
  BY DEF Inv
<1> QED
  BY Invariance, <1>1, PTL

\* What is on the wire is the beginning of what was sent, in order and
\* without a gap, and a send is reported complete exactly if it is there.
THEOREM WirePrefix == Spec => []WireIsPrefix
<1>1. Inv => WireIsPrefix
  <2> SUFFICES ASSUME Inv PROVE WireIsPrefix
    OBVIOUS
  <2>1. DOMAIN wire = 1 .. Len(wire) /\ DOMAIN log = 1 .. Len(log)
    BY ToSetFacts DEF Inv, TypeOK
  <2>2. Len(wire) \in Nat /\ Len(log) \in Nat
    BY DEF Inv, TypeOK
  <2>3. \A i \in 1 .. Len(wire) :
          i \in 1 .. Len(log) /\ log[i] = MessageItem(wire[i])
    BY <2>2 DEF Inv, QueueIsLog
  <2> QED
    BY <2>1, <2>3 DEF Inv, WireIsPrefix, OkMeansWritten, MessageItem
<1> QED
  BY Invariance, <1>1, PTL

\* When terminate is answered, everything sent before it has been written.
THEOREM DrainedBeforeDone == Spec => []TerminateDrains
<1>1. Inv => TerminateDrains
  BY DEF Inv
<1> QED
  BY Invariance, <1>1, PTL

-----------------------------------------------------------------------------
(* The queue, composed *)

\* What the channel and the receiver do is nothing to the queue.
LEMMA ChannelStutters ==
    ASSUME poll_write \/ poll_write_pending \/ ReceiverStep \/ DropReceiver
    PROVE  UNCHANGED vars
  BY DEF poll_write, poll_write_pending, ReceiverStep, poll_read, poll_read_empty,
         DropReceiver

\* Every step of the composition is one of the queue, or none.
LEMMA StepOfQueue == [TransportNext]_transport_vars => [Next]_vars
<1> SUFFICES ASSUME [TransportNext]_transport_vars PROVE [Next]_vars
  OBVIOUS
<1>1. CASE HandleStep
  BY <1>1 DEF HandleStep, Next
<1>2. CASE SenderStep
  <2>1. CASE poll_write \/ poll_write_pending
    BY <2>1, ChannelStutters
  <2>2. CASE StartWrite \/ FinishWrite \/ poll_flush \/ poll_write_error \/ EndTask
    BY <2>2 DEF StartWrite, FinishWrite, poll_flush, poll_write_error, EndTask,
         Next, TaskStep
  <2> QED
    BY <1>2, <2>1, <2>2 DEF SenderStep
<1>3. CASE AbandonTask \/ StreamFails
  BY <1>3 DEF AbandonTask, StreamFails, Next, TaskStep
<1>4. CASE ReceiverStep \/ DropReceiver
  BY <1>4, ChannelStutters
<1>5. CASE UNCHANGED transport_vars
  BY <1>5 DEF transport_vars
<1> QED
  BY <1>1, <1>2, <1>3, <1>4, <1>5 DEF TransportNext

\* The queue keeps its contract whatever the stream it writes to does: slow,
\* closed by the receiver in the middle of a message, or failing.
THEOREM ImplementsWriteQueue == TransportSpec => Spec
<1>1. TransportInit => Init
  BY DEF TransportInit
<1> QED
  BY <1>1, StepOfQueue, PTL DEF TransportSpec, Spec

\* Over the channel too, the wire is the beginning of what was sent.
THEOREM WireInOrder == TransportSpec => []WireIsPrefix
  BY ImplementsWriteQueue, WirePrefix, PTL

\* Over the channel too, terminate is answered after everything sent before.
THEOREM DrainedOverChannel == TransportSpec => []TerminateDrains
  BY ImplementsWriteQueue, DrainedBeforeDone, PTL

-----------------------------------------------------------------------------
(* The wakers *)

\* The writer parks in the middle of a write only.
WriterHasMore == write_parked /\ Running => out # << >>

WakerInv == WriterHasMore /\ ParkedMeansIdle

\* Nobody is parked at first.
LEMMA WakerInit == TransportInit => WakerInv
  BY DEF TransportInit, WakerInv, WriterHasMore, ParkedMeansIdle

\* The handles do not touch the task.
LEMMA HandleWaker == ASSUME WakerInv, HandleStep PROVE WakerInv'
<1>1. UNCHANGED <<out, channel, receiving, task>>
  BY DEF HandleStep, Count, Push, Terminate, DropHandle
<1> QED
  BY <1>1 DEF channel, receiving, WakerInv, WriterHasMore, ParkedMeansIdle, Running

\* A sender that ends wakes the reader, and has nothing to wait for itself.
LEMMA EndWaker ==
    ASSUME WakerInv, drop_sender, task' = "ended"
    PROVE  WakerInv'
  BY DEF drop_sender, receiving, WakerInv, WriterHasMore, ParkedMeansIdle, Running

\* The sending vat.
LEMMA SenderWaker == ASSUME WakerInv, SenderStep PROVE WakerInv'
<1>1. CASE StartWrite
  <2>1. /\ task = "receiving" /\ UNCHANGED <<channel, receiving>>
    BY <1>1 DEF StartWrite, TakeMessage
  <2>2. ~ write_parked
    BY <2>1 DEF WakerInv, ParkedMeansIdle, Running
  <2> QED
    BY <2>1, <2>2 DEF channel, receiving, WakerInv, WriterHasMore, ParkedMeansIdle
<1>2. CASE poll_write
  <2>1. /\ ~ write_parked /\ write_parked' = write_parked /\ read_parked' = FALSE
    BY <1>2 DEF poll_write
  <2> QED
    BY <2>1 DEF WakerInv, WriterHasMore, ParkedMeansIdle
<1>3. CASE poll_write_pending
  <2>1. /\ task = "writing" /\ out # << >> /\ ~ read_end_closed
        /\ write_cursor = Capacity /\ read_cursor # Capacity
        /\ UNCHANGED <<vars, out, buffer, write_cursor, read_cursor,
                       write_end_closed, read_end_closed, read_parked, receiving>>
    BY <1>3 DEF poll_write_pending
  <2> QED
    BY <2>1 DEF vars, receiving, WakerInv, WriterHasMore, ParkedMeansIdle
<1>4. CASE poll_write_error
  BY <1>4, EndWaker DEF poll_write_error, WriteFails, End
<1>5. CASE FinishWrite
  <2>1. /\ out = << >> /\ task = "writing"
        /\ UNCHANGED <<out, channel, receiving>>
    BY <1>5 DEF FinishWrite, Wrote
  <2>2. ~ write_parked
    BY <2>1 DEF WakerInv, WriterHasMore, Running
  <2> QED
    BY <2>1, <2>2 DEF channel, receiving, WakerInv, WriterHasMore, ParkedMeansIdle
<1>6. CASE poll_flush
  <2>1. /\ task = "flushing" /\ UNCHANGED <<out, channel, receiving>>
    BY <1>6 DEF poll_flush, Flushed
  <2>2. ~ write_parked
    BY <2>1 DEF WakerInv, ParkedMeansIdle, Running
  <2> QED
    BY <2>1, <2>2 DEF channel, receiving, WakerInv, WriterHasMore, ParkedMeansIdle
<1>7. CASE EndTask
  BY <1>7, EndWaker DEF EndTask, TakeDone, ChannelClosed, End
<1> QED
  BY <1>1, <1>2, <1>3, <1>4, <1>5, <1>6, <1>7 DEF SenderStep

\* The receiving vat.
LEMMA ReceiverWaker == ASSUME WakerInv, ReceiverStep \/ DropReceiver PROVE WakerInv'
<1>1. CASE poll_read
  <2>1. write_parked' = FALSE /\ ~ read_parked /\ read_parked' = read_parked
    BY <1>1 DEF poll_read
  <2> QED
    BY <2>1 DEF WakerInv, WriterHasMore, ParkedMeansIdle
<1>2. CASE poll_read_empty
  <2>1. /\ read_cursor = write_cursor /\ ~ read_parked
        /\ UNCHANGED <<vars, out, buffer, write_cursor, read_cursor, write_end_closed>>
    BY <1>2 DEF poll_read_empty
  <2>2. CASE write_end_closed
    <3>1. UNCHANGED read_parked
      BY <1>2, <2>2 DEF poll_read_empty
    <3>2. \/ write_parked' = FALSE
          \/ UNCHANGED <<write_parked, read_end_closed>>
      BY <1>2, <2>2 DEF poll_read_empty, receive_incoming_message, drop_receiver
    <3> QED
      BY <2>1, <3>1, <3>2 DEF vars, WakerInv, WriterHasMore, ParkedMeansIdle, Running
  <2>3. CASE ~ write_end_closed
    <3>1. UNCHANGED <<receiving, read_end_closed, write_parked>>
      BY <1>2, <2>3 DEF poll_read_empty
    <3> QED
      BY <2>1, <2>3, <3>1 DEF vars, WakerInv, WriterHasMore, ParkedMeansIdle, Running
  <2> QED
    BY <2>2, <2>3
<1>3. CASE DropReceiver
  <2>1. write_parked' = FALSE /\ input' = "gone"
    BY <1>3 DEF DropReceiver, drop_receiver
  <2> QED
    BY <2>1 DEF WakerInv, WriterHasMore, ParkedMeansIdle
<1> QED
  BY <1>1, <1>2, <1>3 DEF ReceiverStep

\* Every step keeps the wakers right.
LEMMA WakerNext == WakerInv /\ [TransportNext]_transport_vars => WakerInv'
<1> SUFFICES ASSUME WakerInv, [TransportNext]_transport_vars PROVE WakerInv'
  OBVIOUS
<1>1. CASE AbandonTask \/ StreamFails
  BY <1>1, EndWaker DEF AbandonTask, StreamFails, DropTask, WriteFails, FlushFails, End
<1>2. CASE UNCHANGED transport_vars
  BY <1>2 DEF transport_vars, vars, channel, receiving, WakerInv, WriterHasMore,
       ParkedMeansIdle, Running
<1> QED
  BY <1>1, <1>2, HandleWaker, SenderWaker, ReceiverWaker DEF TransportNext

\* A parked side has nothing to do: whatever poll, close or drop of the other
\* side comes between, the waker left in the channel is used before there is
\* something to read, room to write, or a closed end to notice.
THEOREM ParkedIdle == TransportSpec => []ParkedMeansIdle
<1>1. WakerInv => ParkedMeansIdle
  BY DEF WakerInv
<1> QED
  BY WakerInit, WakerNext, <1>1, PTL DEF TransportSpec
=============================================================================
