-------------------------- MODULE FlowControlProofs --------------------------
(***************************************************************************)
(* Proofs about TaskSet and FlowControl, for any tasks, waiters, sizes and *)
(* window:                                                                 *)
(*   - TaskSetNotEarly: on_empty never tells its caller too early, whatever *)
(*     the set's owner pushes;                                             *)
(*   - TypeCorrect, NotEarly: the types, and the same for the set a flow   *)
(*     controller owns;                                                    *)
(*   - InFlight: in_flight is exactly what waits for an ack;               *)
(*   - WindowBound: a patient caller has less in flight than the window    *)
(*     and two of its largest messages.                                    *)
(* TInv is the part of the invariant that is about the task set; the       *)
(* lemmas about it are stated for what either owner may do.                *)
(***************************************************************************)
EXTENDS FlowControl, FiniteSetTheorems, TLAPS

\* The set has taken x from its channel.
Taken(x) == \E i \in 1 .. Len(log) - Len(enqueued) : log[i] = x

\* The channel is the end of the log; nothing is in the log twice.
ChannelIsLog ==
    /\ Len(enqueued) <= Len(log)
    /\ \A i \in 1 .. Len(enqueued) :
        log[Len(log) - Len(enqueued) + i] = enqueued[i]
    /\ \A i, j \in 1 .. Len(log) : log[i] = log[j] => i = j

\* Tasks in progress or finished are those that were taken, until the set is
\* gone; whoever waits or has been told was taken too.
TakenExact ==
    /\ \A t \in in_progress \cup done : Taken(Task(t))
    /\ ~ ended => \A t \in Tasks : Taken(Task(t)) => t \in in_progress \cup done
    /\ \A w \in waiting \cup fired : Taken(OnEmpty(w))

\* While the set lives, a waiter is canceled only before it is pushed.
CanceledNotPushed ==
    ~ ended => \A w \in canceled, i \in 1 .. Len(log) : log[i] # OnEmpty(w)

\* EmptyMeansDone, by the places in the log.
FiredAfterDone ==
    \A i \in 1 .. Len(log), w \in fired : log[i] = OnEmpty(w) =>
        \A j \in 1 .. i, t \in Tasks : log[j] = Task(t) => t \in done

TInv ==
    /\ TaskTypeOK
    /\ polling => ~ ended
    /\ ChannelIsLog
    /\ TakenExact
    /\ CanceledNotPushed
    /\ FiredAfterDone

\* What may be pushed: an item that has not been, for a waiter that has not
\* been dropped.
Fresh(item) ==
    /\ item \in Item
    /\ \A i \in 1 .. Len(log) : log[i] # item
    /\ \A w \in Waiters : item = OnEmpty(w) => w \notin canceled

-----------------------------------------------------------------------------
(* Sequences and items *)

\* What append does.
LEMMA AppendFacts ==
    ASSUME NEW S, NEW s \in Seq(S), NEW e \in S
    PROVE  /\ s \o <<e>> \in Seq(S)
           /\ Len(s \o <<e>>) = Len(s) + 1 /\ Len(s) \in Nat
           /\ \A i \in 1 .. Len(s) : (s \o <<e>>)[i] = s[i]
           /\ (s \o <<e>>)[Len(s) + 1] = e
  OBVIOUS

\* Pushing nothing.
LEMMA AppendNothing == ASSUME NEW S, NEW s \in Seq(S) PROVE s \o << >> = s
  OBVIOUS

\* The elements of a sequence.
LEMMA ToSetFacts ==
    ASSUME NEW S, NEW s \in Seq(S)
    PROVE  /\ Len(s) \in Nat /\ DOMAIN s = 1 .. Len(s)
           /\ \A i \in 1 .. Len(s) : s[i] \in S
           /\ \A x : x \in ToSet(s) <=> \E i \in 1 .. Len(s) : s[i] = x
  BY DEF ToSet

\* Items are what they are made of.
LEMMA Items ==
    /\ \A t \in Tasks : Task(t) \in Item
    /\ \A w \in Waiters : OnEmpty(w) \in Item
    /\ TerminateItem \in Item
    /\ \A t, u : Task(t) = Task(u) => t = u
    /\ \A v, w : OnEmpty(v) = OnEmpty(w) => v = w
    /\ \A t, w : Task(t) # OnEmpty(w)
    /\ \A t : Task(t) # TerminateItem /\ OnEmpty(t) # TerminateItem
    /\ \A t : Task(t).x = t /\ OnEmpty(t).x = t
  BY DEF Item, Task, OnEmpty, TerminateItem

\* What an owner may push, by the guard the code's callers stand for.
LEMMA UnusedIsFresh ==
    ASSUME TInv, NEW item \in Item, Unused(item)
    PROVE  Fresh(item)
<1>1. log \in Seq(Item)
  BY DEF TInv, TaskTypeOK
<1>2. \A i \in 1 .. Len(log) : log[i] # item
  BY <1>1, ToSetFacts DEF Unused
<1>3. \A w \in Waiters : item = OnEmpty(w) => w \notin canceled
  BY Items DEF Unused
<1> QED
  BY <1>2, <1>3 DEF Fresh

-----------------------------------------------------------------------------
(* The task set *)

\* A new set satisfies the invariant.
LEMMA TaskInitInv == TaskInit => TInv
<1> SUFFICES ASSUME TaskInit PROVE TInv
  OBVIOUS
<1>1. Len(enqueued) = 0 /\ Len(log) = 0
  BY DEF TaskInit
<1>2. TaskTypeOK
  <2>1. enqueued \in Seq(Item) /\ log \in Seq(Item)
    BY DEF TaskInit
  <2>2. /\ in_progress = {} /\ waiting = {} /\ fired = {} /\ canceled = {}
        /\ ready = {} /\ done = {}
        /\ stopping \in BOOLEAN /\ polling \in BOOLEAN /\ ended \in BOOLEAN
    BY DEF TaskInit
  <2> QED
    BY <2>1, <2>2 DEF TaskTypeOK
<1>3. ChannelIsLog /\ FiredAfterDone /\ CanceledNotPushed
  BY <1>1 DEF TaskInit, ChannelIsLog, FiredAfterDone, CanceledNotPushed
<1>4. TakenExact
  BY <1>1 DEF TaskInit, TakenExact, Taken
<1> QED
  BY <1>2, <1>3, <1>4 DEF TInv, TaskInit

\* Nothing in the channel has been taken.
LEMMA EnqueuedNotTaken ==
    ASSUME TInv
    PROVE  /\ \A x \in ToSet(enqueued) : ~ Taken(x)
           /\ \A i \in 1 .. Len(log) : Taken(log[i]) \/ log[i] \in ToSet(enqueued)
           /\ \A x \in ToSet(enqueued) : \E i \in 1 .. Len(log) : log[i] = x
<1>1. /\ enqueued \in Seq(Item) /\ log \in Seq(Item)
      /\ Len(enqueued) \in Nat /\ Len(log) \in Nat
      /\ Len(enqueued) <= Len(log)
      /\ \A i \in 1 .. Len(enqueued) : log[Len(log) - Len(enqueued) + i] = enqueued[i]
      /\ \A i, j \in 1 .. Len(log) : log[i] = log[j] => i = j
  BY DEF TInv, TaskTypeOK, ChannelIsLog
<1>2. \A x : x \in ToSet(enqueued) <=> \E i \in 1 .. Len(enqueued) : enqueued[i] = x
  BY <1>1, ToSetFacts
<1>3. ASSUME NEW x \in ToSet(enqueued)
      PROVE  \E i \in 1 .. Len(log) : log[i] = x /\ i > Len(log) - Len(enqueued)
  <2>1. PICK i \in 1 .. Len(enqueued) : enqueued[i] = x
    BY <1>2
  <2>2. /\ Len(log) - Len(enqueued) + i \in 1 .. Len(log)
        /\ Len(log) - Len(enqueued) + i > Len(log) - Len(enqueued)
    BY <1>1, <2>1
  <2> QED
    BY <1>1, <2>1, <2>2
<1>4. \A x \in ToSet(enqueued) : ~ Taken(x)
  BY <1>1, <1>3 DEF Taken
<1>5. ASSUME NEW i \in 1 .. Len(log)
      PROVE  Taken(log[i]) \/ log[i] \in ToSet(enqueued)
  <2>1. CASE i <= Len(log) - Len(enqueued)
    <3>1. i \in 1 .. Len(log) - Len(enqueued)
      BY <1>1, <2>1
    <3> QED
      BY <3>1 DEF Taken
  <2>2. CASE i > Len(log) - Len(enqueued)
    <3> DEFINE k == i - (Len(log) - Len(enqueued))
    <3>1. k \in 1 .. Len(enqueued) /\ Len(log) - Len(enqueued) + k = i
      BY <1>1, <2>2
    <3> HIDE DEF k
    <3> QED
      BY <1>1, <1>2, <3>1
  <2> QED
    BY <1>1, <2>1, <2>2
<1> QED
  BY <1>3, <1>4, <1>5

\* An item pushed to the live set goes behind everything.
LEMMA AcceptOne ==
    ASSUME TInv, NEW item, Fresh(item), ~ ended, Accept(<<item>>)
    PROVE  /\ enqueued' \in Seq(Item) /\ log' \in Seq(Item)
           /\ UNCHANGED canceled
           /\ Len(log) \in Nat /\ Len(log') = Len(log) + 1
           /\ \A i \in 1 .. Len(log) : log'[i] = log[i]
           /\ log'[Len(log) + 1] = item
           /\ \A x : Taken(x)' <=> Taken(x)
           /\ ChannelIsLog'
<1>1. /\ enqueued' = enqueued \o <<item>> /\ log' = log \o <<item>>
      /\ UNCHANGED canceled /\ item \in Item
  BY DEF Accept, Fresh
<1>2. enqueued \in Seq(Item) /\ log \in Seq(Item)
  BY DEF TInv, TaskTypeOK
<1>3. /\ enqueued' \in Seq(Item) /\ Len(enqueued') = Len(enqueued) + 1
      /\ \A i \in 1 .. Len(enqueued) : enqueued'[i] = enqueued[i]
      /\ enqueued'[Len(enqueued) + 1] = item /\ Len(enqueued) \in Nat
  BY <1>1, <1>2, AppendFacts
<1>4. /\ log' \in Seq(Item) /\ Len(log') = Len(log) + 1
      /\ \A i \in 1 .. Len(log) : log'[i] = log[i]
      /\ log'[Len(log) + 1] = item /\ Len(log) \in Nat
  BY <1>1, <1>2, AppendFacts
<1>5. /\ Len(enqueued) <= Len(log)
      /\ \A i \in 1 .. Len(enqueued) : log[Len(log) - Len(enqueued) + i] = enqueued[i]
      /\ \A i, j \in 1 .. Len(log) : log[i] = log[j] => i = j
  BY DEF TInv, ChannelIsLog
<1>6. Len(log') - Len(enqueued') = Len(log) - Len(enqueued)
  BY <1>3, <1>4
<1>7. \A i \in 1 .. Len(log) - Len(enqueued) : i \in 1 .. Len(log)
  BY <1>3, <1>4
<1>8. \A x : Taken(x)' <=> Taken(x)
  BY <1>4, <1>6, <1>7 DEF Taken
<1>9. \A i \in 1 .. Len(enqueued') :
        log'[Len(log') - Len(enqueued') + i] = enqueued'[i]
  <2> SUFFICES ASSUME NEW i \in 1 .. Len(enqueued')
               PROVE  log'[Len(log) - Len(enqueued) + i] = enqueued'[i]
    BY <1>6
  <2>1. i \in 1 .. Len(enqueued) \/ i = Len(enqueued) + 1
    BY <1>3
  <2>2. CASE i \in 1 .. Len(enqueued)
    <3>1. Len(log) - Len(enqueued) + i \in 1 .. Len(log)
      BY <1>3, <1>4, <1>5, <2>2
    <3> QED
      BY <1>3, <1>4, <1>5, <2>2, <3>1
  <2>3. CASE i = Len(enqueued) + 1
    <3>1. Len(log) - Len(enqueued) + i = Len(log) + 1
      BY <1>3, <1>4, <2>3
    <3> QED
      BY <1>3, <1>4, <2>3, <3>1
  <2> QED
    BY <2>1, <2>2, <2>3
<1>10. \A i, j \in 1 .. Len(log') : log'[i] = log'[j] => i = j
  <2>1. \A i \in 1 .. Len(log) : log'[i] # item
    BY <1>4 DEF Fresh
  <2>2. \A i \in 1 .. Len(log') : i \in 1 .. Len(log) \/ i = Len(log) + 1
    BY <1>4
  <2> QED
    BY <1>4, <1>5, <2>1, <2>2
<1>11. Len(enqueued') <= Len(log')
  BY <1>3, <1>4, <1>5
<1> QED
  BY <1>1, <1>3, <1>4, <1>8, <1>9, <1>10, <1>11 DEF ChannelIsLog

\* What one more item in the log, and a change of the tasks, leave true.
LEMMA StillFiredAfterDone ==
    ASSUME TInv, NEW item, Fresh(item), Len(log) \in Nat,
           Len(log') = Len(log) + 1,
           \A i \in 1 .. Len(log) : log'[i] = log[i],
           log'[Len(log) + 1] = item,
           \A i \in 1 .. Len(log), w \in fired' : log[i] = OnEmpty(w) =>
                \A j \in 1 .. i, t \in Tasks : log[j] = Task(t) => t \in done',
           \A w \in fired' : \E i \in 1 .. Len(log) : log[i] = OnEmpty(w)
    PROVE  FiredAfterDone'
<1> SUFFICES ASSUME NEW i \in 1 .. Len(log'), NEW w \in fired', log'[i] = OnEmpty(w),
                    NEW j \in 1 .. i, NEW t \in Tasks, log'[j] = Task(t)
             PROVE  t \in done'
  BY DEF FiredAfterDone
<1>1. i \in 1 .. Len(log) \/ i = Len(log) + 1
  OBVIOUS
<1>2. i # Len(log) + 1
  BY DEF Fresh
<1>3. j \in 1 .. Len(log) /\ i \in 1 .. Len(log)
  BY <1>1, <1>2
<1> QED
  BY <1>3

\* add, terminate or on_empty between two polls.
LEMMA PushInv == ASSUME TInv, NEW item, Fresh(item), Push(item) PROVE TInv'
<1>1. /\ ~ polling /\ Accept(<<item>>)
      /\ UNCHANGED <<in_progress, stopping, waiting, fired, ready, done, polling,
                     ended>>
  BY DEF Push
<1>2. log \in Seq(Item) /\ enqueued \in Seq(Item) /\ Len(log) \in Nat /\ Len(enqueued) \in Nat
  BY DEF TInv, TaskTypeOK
<1>3. CASE ~ ended
  <2>1. /\ enqueued' \in Seq(Item) /\ log' \in Seq(Item)
        /\ UNCHANGED canceled
        /\ Len(log') = Len(log) + 1
        /\ \A i \in 1 .. Len(log) : log'[i] = log[i]
        /\ log'[Len(log) + 1] = item
        /\ \A x : Taken(x)' <=> Taken(x)
        /\ ChannelIsLog'
    BY <1>1, <1>3, AcceptOne
  <2>2. TaskTypeOK'
    BY <1>1, <2>1 DEF TInv, TaskTypeOK
  <2>3. TakenExact'
    BY <1>1, <2>1 DEF TInv, TakenExact
  <2>4. CanceledNotPushed'
    <3> SUFFICES ASSUME NEW w \in canceled, NEW i \in 1 .. Len(log')
                 PROVE  log'[i] # OnEmpty(w)
      BY <2>1 DEF CanceledNotPushed
    <3>1. i \in 1 .. Len(log) \/ i = Len(log) + 1
      BY <1>2, <2>1
    <3>2. item # OnEmpty(w)
      BY DEF Fresh, TInv, TaskTypeOK
    <3> QED
      BY <1>3, <2>1, <3>1, <3>2 DEF TInv, CanceledNotPushed
  <2>5. \A w \in fired : \E i \in 1 .. Len(log) : log[i] = OnEmpty(w)
    BY <1>2 DEF TInv, TakenExact, Taken
  <2>6. FiredAfterDone'
    BY <1>1, <1>2, <2>1, <2>5, StillFiredAfterDone DEF TInv, FiredAfterDone
  <2> QED
    BY <1>1, <2>1, <2>2, <2>3, <2>4, <2>6 DEF TInv
<1>4. CASE ended
  <2>1. UNCHANGED <<enqueued, log>> /\ canceled' = canceled \cup WaitersIn(<<item>>)
    BY <1>1, <1>4 DEF Accept
  <2>2. \A w \in WaitersIn(<<item>>) : w \in Waiters /\ item = OnEmpty(w)
    BY DEF WaitersIn, ToSet
  <2>3. \A w \in fired \cup waiting : item # OnEmpty(w)
    BY <1>2 DEF TInv, TakenExact, Taken, Fresh
  <2>4. TaskTypeOK'
    BY <1>1, <2>1, <2>2, <2>3 DEF TInv, TaskTypeOK
  <2>5. \A x : Taken(x)' <=> Taken(x)
    BY <2>1 DEF Taken
  <2>6. TakenExact' /\ ChannelIsLog' /\ FiredAfterDone'
    BY <1>1, <2>1, <2>5 DEF TInv, TakenExact, ChannelIsLog, FiredAfterDone
  <2>7. CanceledNotPushed'
    BY <1>1, <1>4 DEF CanceledNotPushed
  <2> QED
    BY <1>1, <2>4, <2>6, <2>7 DEF TInv
<1> QED
  BY <1>3, <1>4

\* The event a task waits for has happened.
LEMMA ReadyInv == ASSUME TInv, NEW t \in Tasks, BecomeReady(t) PROVE TInv'
<1>1. /\ ready' = ready \cup {t}
      /\ UNCHANGED <<enqueued, in_progress, stopping, waiting, fired, canceled,
                     done, polling, ended, log>>
  BY DEF BecomeReady
<1>2. TaskTypeOK'
  BY <1>1 DEF TInv, TaskTypeOK
<1> QED
  BY <1>1, <1>2 DEF TInv, ChannelIsLog, TakenExact, Taken, CanceledNotPushed,
       FiredAfterDone

\* poll empties the channel.
LEMMA StartPollInv == ASSUME TInv, StartPoll PROVE TInv'
<1>1. /\ ~ ended /\ polling' = TRUE
      /\ in_progress' = in_progress \cup TasksIn(enqueued)
      /\ waiting' = waiting \cup WaitersIn(enqueued)
      /\ stopping' = (stopping \/ TerminateItem \in ToSet(enqueued))
      /\ enqueued' = << >>
      /\ UNCHANGED <<fired, canceled, ready, done, ended, log>>
  BY DEF StartPoll
<1>2. /\ log \in Seq(Item) /\ Len(log) \in Nat /\ Len(enqueued') = 0
      /\ Len(enqueued) \in Nat
  BY <1>1 DEF TInv, TaskTypeOK
<1>3. \A x : Taken(x)' <=> \E i \in 1 .. Len(log) : log[i] = x
  <2>1. Len(log') - Len(enqueued') = Len(log)
    BY <1>1, <1>2
  <2> QED
    BY <1>1, <2>1 DEF Taken
<1>4. \A x : Taken(x)' <=> Taken(x) \/ x \in ToSet(enqueued)
  <2>1. \A x : Taken(x) => \E i \in 1 .. Len(log) : log[i] = x
    BY <1>2 DEF Taken
  <2> QED
    BY <1>3, <2>1, EnqueuedNotTaken
<1>5. \A x \in ToSet(enqueued) : ~ Taken(x)
  BY EnqueuedNotTaken
<1>6. \A t \in TasksIn(enqueued) : t \in Tasks /\ t \notin done
  BY <1>5 DEF TasksIn, TInv, TakenExact
<1>7. \A w \in WaitersIn(enqueued) : w \in Waiters /\ w \notin fired /\ w \notin canceled
  <2>1. \A w \in WaitersIn(enqueued) : w \in Waiters /\ w \notin fired
    BY <1>5 DEF WaitersIn, TInv, TakenExact
  <2>2. \A w \in WaitersIn(enqueued) : \E i \in 1 .. Len(log) : log[i] = OnEmpty(w)
    BY EnqueuedNotTaken DEF WaitersIn
  <2> QED
    BY <1>1, <2>1, <2>2 DEF TInv, CanceledNotPushed
<1>8. TaskTypeOK'
  <2>1. enqueued' \in Seq(Item)
    BY <1>1
  <2>2. stopping' \in BOOLEAN /\ polling' \in BOOLEAN
    BY <1>1 DEF TInv, TaskTypeOK
  <2> QED
    BY <1>1, <1>6, <1>7, <2>1, <2>2 DEF TInv, TaskTypeOK
<1>9. TakenExact'
  <2>1. \A t \in in_progress' \cup done' : Taken(Task(t))'
    BY <1>1, <1>4 DEF TInv, TakenExact, TasksIn
  <2>2. \A t \in Tasks : Taken(Task(t))' => t \in in_progress' \cup done'
    BY <1>1, <1>4 DEF TInv, TakenExact, TasksIn
  <2>3. \A w \in waiting' \cup fired' : Taken(OnEmpty(w))'
    BY <1>1, <1>4 DEF TInv, TakenExact, WaitersIn
  <2> QED
    BY <2>1, <2>2, <2>3 DEF TakenExact
<1>10. ChannelIsLog'
  BY <1>1, <1>2 DEF TInv, ChannelIsLog
<1> QED
  BY <1>1, <1>8, <1>9, <1>10 DEF TInv, CanceledNotPushed, FiredAfterDone

\* A task finishes: whoever is told then waits behind finished tasks only.
LEMMA CompleteInv ==
    ASSUME TInv, NEW t \in Tasks, NEW more, Complete(t, more),
           \/ more = << >>
           \/ \E item : more = <<item>> /\ Fresh(item)
    PROVE  TInv'
<1>1. /\ polling /\ t \in in_progress /\ t \in ready
      /\ in_progress' = in_progress \ {t}
      /\ done' = done \cup {t}
      /\ fired' = fired \cup Fulfilled(in_progress \ {t})
      /\ waiting' = waiting \ Fulfilled(in_progress \ {t})
      /\ Accept(more)
      /\ UNCHANGED <<stopping, ready, polling, ended>>
  BY DEF Complete
<1>2. ~ ended /\ log \in Seq(Item) /\ Len(log) \in Nat /\ Len(enqueued) \in Nat
  BY <1>1 DEF TInv, TaskTypeOK
<1>3. \A w \in fired' : w \in fired \/ (w \in waiting /\ in_progress \subseteq {t})
  BY <1>1 DEF Fulfilled
<1>4. /\ waiting' \subseteq waiting /\ fired' \subseteq fired \cup waiting
      /\ \A w \in fired' : w \notin waiting'
  BY <1>1 DEF Fulfilled, TInv, TaskTypeOK
<1>5. \A i \in 1 .. Len(log), w \in fired' : log[i] = OnEmpty(w) =>
        \A j \in 1 .. i, u \in Tasks : log[j] = Task(u) => u \in done'
  <2> SUFFICES ASSUME NEW i \in 1 .. Len(log), NEW w \in fired', log[i] = OnEmpty(w),
                      NEW j \in 1 .. i, NEW u \in Tasks, log[j] = Task(u)
               PROVE  u \in done'
    OBVIOUS
  <2>1. CASE w \in fired
    BY <1>1, <2>1 DEF TInv, FiredAfterDone
  <2>2. CASE w \in waiting /\ in_progress \subseteq {t}
    <3>1. PICK k \in 1 .. Len(log) - Len(enqueued) : log[k] = OnEmpty(w)
      BY <2>2 DEF TInv, TakenExact, Taken
    <3>2. i = k
      BY <1>2, <3>1 DEF TInv, ChannelIsLog
    <3>3. j \in 1 .. Len(log) - Len(enqueued)
      BY <1>2, <3>1, <3>2
    <3>4. Taken(Task(u))
      BY <3>3 DEF Taken
    <3>5. u \in in_progress \cup done
      BY <1>2, <3>4 DEF TInv, TakenExact
    <3> QED
      BY <1>1, <2>2, <3>5
  <2> QED
    BY <1>3, <2>1, <2>2
<1>6. \A w \in fired' : \E i \in 1 .. Len(log) : log[i] = OnEmpty(w)
  BY <1>2, <1>4 DEF TInv, TakenExact, Taken
<1>7. ASSUME enqueued' \in Seq(Item), log' \in Seq(Item), UNCHANGED canceled,
             \A x : Taken(x)' <=> Taken(x)
      PROVE  TaskTypeOK' /\ TakenExact'
  <2>1. TaskTypeOK'
    BY <1>1, <1>4, <1>7 DEF TInv, TaskTypeOK
  <2>2. TakenExact'
    BY <1>1, <1>4, <1>7 DEF TInv, TakenExact
  <2> QED
    BY <2>1, <2>2
<1>8. CASE more = << >>
  <2>1. UNCHANGED <<enqueued, log, canceled>>
    BY <1>1, <1>2, <1>8, AppendNothing DEF Accept, TInv, TaskTypeOK
  <2>2. \A x : Taken(x)' <=> Taken(x)
    BY <2>1 DEF Taken
  <2>3. TaskTypeOK' /\ TakenExact'
    BY <1>7, <2>1, <2>2 DEF TInv, TaskTypeOK
  <2>4. ChannelIsLog' /\ CanceledNotPushed'
    BY <1>1, <2>1 DEF TInv, ChannelIsLog, CanceledNotPushed
  <2>5. FiredAfterDone'
    BY <1>5, <2>1 DEF FiredAfterDone
  <2> QED
    BY <1>1, <1>2, <2>3, <2>4, <2>5 DEF TInv
<1>9. CASE \E item : more = <<item>> /\ Fresh(item)
  <2>0. PICK item : more = <<item>> /\ Fresh(item)
    BY <1>9
  <2>1. /\ enqueued' \in Seq(Item) /\ log' \in Seq(Item)
        /\ UNCHANGED canceled
        /\ Len(log') = Len(log) + 1
        /\ \A i \in 1 .. Len(log) : log'[i] = log[i]
        /\ log'[Len(log) + 1] = item
        /\ \A x : Taken(x)' <=> Taken(x)
        /\ ChannelIsLog'
    BY <1>1, <1>2, <2>0, AcceptOne
  <2>2. TaskTypeOK' /\ TakenExact'
    BY <1>7, <2>1
  <2>3. CanceledNotPushed'
    <3> SUFFICES ASSUME NEW w \in canceled, NEW i \in 1 .. Len(log')
                 PROVE  log'[i] # OnEmpty(w)
      BY <2>1 DEF CanceledNotPushed
    <3>1. i \in 1 .. Len(log) \/ i = Len(log) + 1
      BY <1>2, <2>1
    <3>2. item # OnEmpty(w)
      BY <2>0 DEF Fresh, TInv, TaskTypeOK
    <3> QED
      BY <1>2, <2>1, <3>1, <3>2 DEF TInv, CanceledNotPushed
  <2>4. FiredAfterDone'
    BY <1>2, <1>5, <1>6, <2>0, <2>1, StillFiredAfterDone
  <2> QED
    BY <1>1, <1>2, <2>1, <2>2, <2>3, <2>4 DEF TInv
<1> QED
  BY <1>8, <1>9

\* The set is gone.
LEMMA GoneInv == ASSUME TInv, Gone PROVE TInv'
<1>1. /\ ended' = TRUE /\ polling' = FALSE
      /\ in_progress' = {} /\ stopping' = FALSE /\ enqueued' = << >>
      /\ waiting' = {}
      /\ canceled' = canceled \cup waiting \cup WaitersIn(enqueued)
      /\ UNCHANGED <<fired, ready, done, log>>
  BY DEF Gone
<1>2. /\ log \in Seq(Item) /\ Len(log) \in Nat /\ Len(enqueued') = 0
      /\ Len(enqueued) \in Nat
  BY <1>1 DEF TInv, TaskTypeOK
<1>3. \A x : Taken(x) => Taken(x)'
  <2>1. Len(log') - Len(enqueued') = Len(log)
    BY <1>1, <1>2
  <2>2. \A i \in 1 .. Len(log) - Len(enqueued) : i \in 1 .. Len(log)
    BY <1>2
  <2> QED
    BY <1>1, <2>1, <2>2 DEF Taken
<1>4. \A w \in WaitersIn(enqueued) : w \in Waiters /\ w \notin fired
  BY EnqueuedNotTaken DEF WaitersIn, TInv, TakenExact
<1>5. TaskTypeOK'
  <2>1. enqueued' \in Seq(Item)
    BY <1>1
  <2> QED
    BY <1>1, <1>4, <2>1 DEF TInv, TaskTypeOK
<1>6. TakenExact'
  BY <1>1, <1>3 DEF TInv, TakenExact
<1>7. ChannelIsLog'
  BY <1>1, <1>2 DEF TInv, ChannelIsLog
<1> QED
  BY <1>1, <1>5, <1>6, <1>7 DEF TInv, CanceledNotPushed, FiredAfterDone

\* poll returns.
LEMMA EndPollInv == ASSUME TInv, EndPoll PROVE TInv'
<1>1. /\ polling' = FALSE
      /\ UNCHANGED <<enqueued, in_progress, stopping, waiting, fired, canceled,
                     ready, done, ended, log>>
  BY DEF EndPoll
<1>2. TaskTypeOK'
  BY <1>1 DEF TInv, TaskTypeOK
<1> QED
  BY <1>1, <1>2 DEF TInv, ChannelIsLog, TakenExact, Taken, CanceledNotPushed,
       FiredAfterDone

\* Nothing happens to the set.
LEMMA TaskStutter == ASSUME TInv, UNCHANGED taskvars PROVE TInv'
<1>1. TaskTypeOK'
  BY DEF TInv, TaskTypeOK, taskvars
<1> QED
  BY <1>1 DEF taskvars, TInv, ChannelIsLog, TakenExact, Taken, CanceledNotPushed,
       FiredAfterDone

\* Every step of a set with any owner.
LEMMA TaskSetNextInv == ASSUME TInv, [TaskSetNext]_taskvars PROVE TInv'
<1>1. ASSUME NEW item \in Item, Unused(item), Push(item) PROVE TInv'
  BY <1>1, UnusedIsFresh, PushInv
<1>2. ASSUME NEW t \in Tasks, NEW more \in Pushes, Complete(t, more) PROVE TInv'
  <2>1. more = << >> \/ \E item : more = <<item>> /\ Fresh(item)
    BY UnusedIsFresh DEF Pushes
  <2> QED
    BY <1>2, <2>1, CompleteInv
<1>3. FinishTerminate \/ DropTaskSet => TInv'
  BY GoneInv DEF FinishTerminate, DropTaskSet
<1> QED
  BY <1>1, <1>2, <1>3, ReadyInv, StartPollInv, EndPollInv, TaskStutter
     DEF TaskSetNext

\* By places in the log or by the log's beginnings.
LEMMA NotEarlyByPlace == TInv => EmptyMeansDone
<1> SUFFICES ASSUME TInv, NEW i \in DOMAIN log, NEW w \in fired,
                    log[i] = OnEmpty(w),
                    NEW t \in TasksIn(SubSeq(log, 1, i))
             PROVE  t \in done
  BY DEF EmptyMeansDone
<1>1. /\ log \in Seq(Item) /\ Len(log) \in Nat /\ i \in 1 .. Len(log)
  BY ToSetFacts DEF TInv, TaskTypeOK
<1>2. /\ SubSeq(log, 1, i) \in Seq(Item) /\ Len(SubSeq(log, 1, i)) = i
      /\ \A j \in 1 .. i : SubSeq(log, 1, i)[j] = log[j]
  BY <1>1
<1>3. t \in Tasks /\ \E j \in 1 .. i : SubSeq(log, 1, i)[j] = Task(t)
  <2> DEFINE s == SubSeq(log, 1, i)
  <2>1. t \in Tasks /\ Task(t) \in ToSet(s)
    BY DEF TasksIn
  <2>2. \A x : x \in ToSet(s) <=> \E j \in 1 .. Len(s) : s[j] = x
    <3>1. s \in Seq(Item)
      BY <1>2
    <3> HIDE DEF s
    <3> QED
      BY <3>1, ToSetFacts
  <2>3. Len(s) = i
    BY <1>2
  <2> HIDE DEF s
  <2>4. \E j \in 1 .. i : s[j] = Task(t)
    BY <2>1, <2>2, <2>3
  <2> QED
    BY <2>1, <2>4 DEF s
<1> QED
  BY <1>1, <1>2, <1>3 DEF TInv, FiredAfterDone

\* on_empty never tells its caller too early, whatever the owner pushes and
\* whenever it drops the set.
THEOREM TaskSetNotEarly == TaskSetSpec => []EmptyMeansDone
<1>1. TInv /\ [TaskSetNext]_taskvars => TInv'
  BY TaskSetNextInv
<1> QED
  BY TaskInitInv, <1>1, NotEarlyByPlace, PTL DEF TaskSetSpec

-----------------------------------------------------------------------------
(* The flow controller *)

Logged(x) == \E i \in 1 .. Len(log) : log[i] = x

\* A waiter kept until the acks are in has not been pushed or dropped, and
\* whatever was pushed was sent.
NotPushedYet ==
    /\ empty_fulfiller # NoWaiter =>
            ~ Logged(OnEmpty(empty_fulfiller)) /\ empty_fulfiller \notin canceled
    /\ \A m \in Tasks : Logged(Task(m)) => sent[m] # "none"

\* in_flight covers what waits for an ack; after a failure it may be more,
\* because the failed message is not subtracted.
InFlightCovers ==
    /\ IsFiniteSet(Units(Unacked))
    /\ Cardinality(Units(Unacked)) <= in_flight
    /\ InFlightExact

\* A patient caller that is not blocked has less than the window and one of
\* the largest messages in flight.
RoomForOne ==
    patient /\ ~ failed /\ blocked = {} =>
        in_flight = 0 \/ in_flight < Window + max_message_size

\* Whoever is blocked has sent.
BlockedSent == \A m \in blocked : sent[m] # "none"

FInv ==
    /\ TInv
    /\ TypeOK
    /\ BlockedSent
    /\ NotPushedYet
    /\ InFlightCovers
    /\ RoomForOne
    /\ WindowRespected

\* One more message has so many more units.
LEMMA UnitsAdd ==
    ASSUME NEW S \in SUBSET Tasks, NEW m \in Tasks \ S, IsFiniteSet(Units(S))
    PROVE  /\ IsFiniteSet(Units(S \cup {m}))
           /\ Cardinality(Units(S \cup {m})) = Cardinality(Units(S)) + Size[m]
           /\ Cardinality(Units(S)) \in Nat
<1> DEFINE own == {m} \X (1 .. Size[m])
<1>1. Size[m] \in Nat /\ Size[m] > 0
  BY SizeAssumption
<1>2. IsFiniteSet(1 .. Size[m]) /\ Cardinality(1 .. Size[m]) = Size[m]
  <2>1. /\ IsFiniteSet(1 .. Size[m])
        /\ Cardinality(1 .. Size[m]) = IF 1 > Size[m] THEN 0 ELSE Size[m] - 1 + 1
    BY <1>1, 1 \in Int, Size[m] \in Int, FS_Interval, ZenonT(30)
  <2> QED
    BY <1>1, <2>1
<1>3. IsFiniteSet(own) /\ Cardinality(own) = Size[m]
  <2>1. IsFiniteSet({m}) /\ Cardinality({m}) = 1
    BY FS_Singleton
  <2>2. IsFiniteSet(own) /\ Cardinality(own) = 1 * Cardinality(1 .. Size[m])
    BY <1>2, <2>1, FS_Product
  <2> QED
    BY <1>1, <1>2, <2>2
<1>4. Units(S \cup {m}) = Units(S) \cup own
  BY DEF Units
<1>5. Units(S) \cap own = {}
  BY DEF Units
<1> HIDE DEF own
<1>6. /\ IsFiniteSet(Units(S) \cup own)
      /\ Cardinality(Units(S) \cup own) =
            Cardinality(Units(S)) + Cardinality(own) - Cardinality(Units(S) \cap own)
  BY <1>3, FS_Union
<1>7. Cardinality({}) = 0 /\ Cardinality(Units(S)) \in Nat
  BY FS_EmptySet, FS_CardinalityType
<1>8. Cardinality(Units(S) \cup own) = Cardinality(Units(S)) + Size[m] - 0
  BY <1>3, <1>5, <1>6, <1>7
<1>9. Cardinality(Units(S) \cup own) = Cardinality(Units(S)) + Size[m]
  BY <1>1, <1>7, <1>8
<1> QED
  BY <1>4, <1>6, <1>7, <1>9

\* One message less.
LEMMA UnitsRemove ==
    ASSUME NEW S \in SUBSET Tasks, NEW m \in S, IsFiniteSet(Units(S))
    PROVE  /\ IsFiniteSet(Units(S \ {m}))
           /\ Cardinality(Units(S)) = Cardinality(Units(S \ {m})) + Size[m]
           /\ Cardinality(Units(S \ {m})) \in Nat
<1>1. Units(S \ {m}) \subseteq Units(S)
  BY DEF Units
<1>2. IsFiniteSet(Units(S \ {m}))
  BY <1>1, FS_Subset
<1>3. (S \ {m}) \cup {m} = S /\ m \in Tasks \ (S \ {m}) /\ S \ {m} \in SUBSET Tasks
  OBVIOUS
<1> QED
  BY <1>2, <1>3, UnitsAdd

\* What pushing an item does to the log and to the dropped waiters.
LEMMA AcceptLogs ==
    ASSUME TInv, NEW item, Fresh(item), Accept(<<item>>)
    PROVE  /\ \A x : Logged(x)' => Logged(x) \/ x = item
           /\ \A w \in canceled' : w \in canceled \/ item = OnEmpty(w)
<1>1. CASE ~ ended
  <2>1. /\ UNCHANGED canceled
        /\ Len(log) \in Nat /\ Len(log') = Len(log) + 1
        /\ \A i \in 1 .. Len(log) : log'[i] = log[i]
        /\ log'[Len(log) + 1] = item
    BY <1>1, AcceptOne
  <2>2. \A i \in 1 .. Len(log') : i \in 1 .. Len(log) \/ i = Len(log) + 1
    BY <2>1
  <2> QED
    BY <2>1, <2>2 DEF Logged
<1>2. CASE ended
  <2>1. UNCHANGED <<enqueued, log>> /\ canceled' = canceled \cup WaitersIn(<<item>>)
    BY <1>2 DEF Accept
  <2>2. \A w \in WaitersIn(<<item>>) : item = OnEmpty(w)
    BY DEF WaitersIn, ToSet
  <2> QED
    BY <2>1, <2>2 DEF Logged
<1> QED
  BY <1>1, <1>2

\* An item is fresh if it has not been logged.
LEMMA FreshItem ==
    ASSUME NEW item \in Item, ~ Logged(item),
           \A w \in Waiters : item = OnEmpty(w) => w \notin canceled
    PROVE  Fresh(item)
  BY DEF Fresh, Logged

\* So does a new flow controller.
LEMMA InitInv == Init => FInv
<1> SUFFICES ASSUME Init PROVE FInv
  OBVIOUS
<1>1. TInv
  BY TaskInitInv DEF Init
<1>2. TypeOK
  <2>1. TaskTypeOK
    BY <1>1 DEF TInv
  <2>2. failed \in BOOLEAN /\ patient \in BOOLEAN
    BY DEF Init
  <2> QED
    BY <2>1, <2>2 DEF Init, TypeOK
<1>3. NotPushedYet
  <2>1. Len(log) = 0
    BY DEF Init, TaskInit
  <2> QED
    BY <2>1 DEF Init, NotPushedYet, Logged
<1>4. InFlightCovers
  <2>1. Unacked = {}
    BY DEF Init, Unacked
  <2>2. Units(Unacked) = {}
    BY <2>1 DEF Units
  <2>3. in_flight = 0
    BY DEF Init
  <2> QED
    BY <2>2, <2>3, FS_EmptySet DEF InFlightCovers, InFlightExact
<1>5. RoomForOne /\ WindowRespected /\ BlockedSent
  BY DEF Init, RoomForOne, WindowRespected, BlockedSent
<1> QED
  BY <1>1, <1>2, <1>3, <1>4, <1>5 DEF FInv

\* The larger of two sizes.
LEMMA Larger ==
    ASSUME NEW a \in Nat, NEW b \in Nat
    PROVE  Max({a, b}) \in Nat /\ Max({a, b}) >= a /\ Max({a, b}) >= b
<1>1. \E x \in {a, b} : \A y \in {a, b} : x >= y
  OBVIOUS
<1> QED
  BY <1>1 DEF Max

\* send.
LEMMA SendInv == ASSUME FInv, NEW m \in Tasks, Send(m) PROVE FInv'
<1> DEFINE flying == in_flight + Size[m]
           largest == Max({Size[m], max_message_size})
<1>1. /\ sent[m] = "none"
      /\ patient' = (patient /\ blocked = {})
      /\ Push(Task(m))
      /\ in_flight' = flying /\ max_message_size' = largest
      /\ UNCHANGED <<failed, empty_fulfiller, acks>>
  BY DEF Send
<1>2. Size[m] \in Nat /\ Size[m] > 0 /\ in_flight \in Nat /\ max_message_size \in Nat
  BY SizeAssumption DEF FInv, TypeOK
<1>3. largest \in Nat /\ largest >= Size[m] /\ largest >= max_message_size
  BY <1>2, Larger
<1> HIDE DEF largest
<1>4. \/ /\ failed /\ sent' = [sent EXCEPT ![m] = "err"] /\ UNCHANGED blocked
      \/ /\ ~ failed /\ IsReady(flying, largest)
         /\ sent' = [sent EXCEPT ![m] = "ok"] /\ UNCHANGED blocked
      \/ /\ ~ failed /\ blocked' = blocked \cup {m}
         /\ sent' = [sent EXCEPT ![m] = "blocked"]
  BY DEF Send, largest
<1>5. /\ sent' \in [Tasks -> {"none", "ok", "blocked", "err"}]
      /\ sent'[m] # "none" /\ \A n \in Tasks \ {m} : sent'[n] = sent[n]
      /\ blocked' \subseteq Tasks
  BY <1>4 DEF FInv, TypeOK
<1>6. Fresh(Task(m))
  <2>1. ~ Logged(Task(m))
    BY <1>1 DEF FInv, NotPushedYet
  <2> QED
    BY <2>1, FreshItem, Items
<1>7. TInv'
  BY <1>1, <1>6, PushInv DEF FInv
<1>8. Accept(<<Task(m)>>) /\ UNCHANGED <<ready, done>>
  BY <1>1 DEF Push
<1>9. TypeOK'
  <2>1. TaskTypeOK'
    BY <1>7 DEF TInv
  <2>2. patient' \in BOOLEAN
    BY <1>1 DEF FInv, TypeOK
  <2>3. in_flight' \in Nat /\ max_message_size' \in Nat
    BY <1>1, <1>2, <1>3
  <2> QED
    BY <1>1, <1>5, <1>8, <2>1, <2>2, <2>3 DEF FInv, TypeOK
<1>10. NotPushedYet'
  <2>1. /\ \A x : Logged(x)' => Logged(x) \/ x = Task(m)
        /\ \A w \in canceled' : w \in canceled
    BY <1>6, <1>8, AcceptLogs, Items DEF FInv
  <2>2. empty_fulfiller' # NoWaiter =>
            ~ Logged(OnEmpty(empty_fulfiller))' /\ empty_fulfiller' \notin canceled'
    BY <1>1, <2>1, Items DEF FInv, NotPushedYet
  <2>3. \A n \in Tasks : Logged(Task(n))' => sent'[n] # "none"
    BY <1>5, <2>1, Items DEF FInv, NotPushedYet
  <2> QED
    BY <2>2, <2>3 DEF NotPushedYet
<1>11. InFlightCovers'
  <2>1. m \notin done
    <3>1. Taken(Task(m)) => Logged(Task(m))
      BY DEF Taken, Logged, FInv, TInv, TaskTypeOK, ChannelIsLog
    <3> QED
      BY <1>1, <3>1 DEF FInv, NotPushedYet, TInv, TakenExact
  <2>2. Unacked' = Unacked \cup {m} /\ m \notin Unacked /\ Unacked \in SUBSET Tasks
    BY <1>1, <1>5, <1>8, <2>1 DEF Unacked
  <2>3. /\ IsFiniteSet(Units(Unacked')) /\ Cardinality(Units(Unacked)) \in Nat
        /\ Cardinality(Units(Unacked')) = Cardinality(Units(Unacked)) + Size[m]
    <3>1. IsFiniteSet(Units(Unacked))
      BY DEF FInv, InFlightCovers
    <3> QED
      BY <2>2, <3>1, UnitsAdd
  <2>4. Units(Unacked)' = Units(Unacked')
    BY DEF Units
  <2>5. /\ Cardinality(Units(Unacked)) <= in_flight
        /\ ~ failed => in_flight = Cardinality(Units(Unacked))
    BY DEF FInv, InFlightCovers, InFlightExact
  <2>6. /\ Cardinality(Units(Unacked')) <= in_flight'
        /\ ~ failed => in_flight' = Cardinality(Units(Unacked'))
    BY <1>1, <1>2, <2>3, <2>5
  <2> QED
    BY <1>1, <2>3, <2>4, <2>6 DEF InFlightCovers, InFlightExact
<1>12. RoomForOne'
  <2> SUFFICES ASSUME ~ failed, blocked' = {}
               PROVE  in_flight' < Window + max_message_size'
    BY <1>1 DEF RoomForOne
  <2>1. IsReady(flying, largest)
    BY <1>4
  <2> QED
    BY <1>1, <2>1 DEF IsReady
<1>13. WindowRespected'
  <2> SUFFICES ASSUME patient, blocked = {}, ~ failed
               PROVE  flying < Window + 2 * largest
    BY <1>1 DEF WindowRespected
  <2>1. in_flight = 0 \/ in_flight < Window + max_message_size
    BY DEF FInv, RoomForOne
  <2> QED
    BY <1>2, <1>3, <2>1, WindowAssumption
<1>14. BlockedSent'
  BY <1>4, <1>5 DEF FInv, BlockedSent, TypeOK
<1> QED
  BY <1>7, <1>9, <1>10, <1>11, <1>12, <1>13, <1>14 DEF FInv

\* The peer answers.
LEMMA AnsweredInv ==
    ASSUME FInv, NEW m \in Tasks, NEW ok \in BOOLEAN, Answered(m, ok)
    PROVE  FInv'
<1>1. /\ BecomeReady(m) /\ acks' \subseteq acks \cup {m}
      /\ UNCHANGED <<in_flight, max_message_size, failed, blocked, sent,
                     empty_fulfiller, patient>>
      /\ ready' = ready \cup {m} /\ UNCHANGED <<done, log, canceled>>
  BY DEF Answered, BecomeReady
<1>2. TInv'
  BY <1>1, ReadyInv DEF FInv
<1>3. TypeOK'
  BY <1>1, <1>2 DEF TInv, FInv, TypeOK
<1>4. NotPushedYet' /\ RoomForOne' /\ WindowRespected' /\ BlockedSent'
  BY <1>1 DEF FInv, NotPushedYet, Logged, RoomForOne, WindowRespected, BlockedSent
<1>5. InFlightCovers'
  BY <1>1 DEF FInv, InFlightCovers, InFlightExact, Unacked, Units
<1> QED
  BY <1>2, <1>3, <1>4, <1>5 DEF FInv

\* The message whose task finishes had not been counted as acked.
LEMMA FinishedWasUnacked ==
    ASSUME FInv, NEW m \in Tasks, NEW more, Complete(m, more)
    PROVE  /\ m \in Unacked /\ done' = done \cup {m}
           /\ IsFiniteSet(Units(Unacked \ {m}))
           /\ Cardinality(Units(Unacked)) = Cardinality(Units(Unacked \ {m})) + Size[m]
           /\ Cardinality(Units(Unacked \ {m})) \in Nat
           /\ Size[m] \in Nat
<1>1. m \in in_progress /\ done' = done \cup {m}
  BY DEF Complete
<1>2. Taken(Task(m)) => Logged(Task(m))
  BY DEF Taken, Logged, FInv, TInv, TaskTypeOK, ChannelIsLog
<1>3. m \in Unacked /\ Unacked \in SUBSET Tasks
  BY <1>1, <1>2 DEF FInv, TInv, TakenExact, NotPushedYet, Unacked, TaskTypeOK
<1>4. IsFiniteSet(Units(Unacked)) /\ Size[m] \in Nat
  BY SizeAssumption DEF FInv, InFlightCovers
<1> QED
  BY <1>1, <1>3, <1>4, UnitsRemove

\* An ack is counted: blocked sends go on if there is room.
LEMMA AckedInv == ASSUME FInv, NEW m \in Tasks, Acked(m) PROVE FInv'
<1> DEFINE tell == ~ failed /\ AfterAck(m) = 0 /\ empty_fulfiller # NoWaiter
           told == IF tell THEN <<OnEmpty(empty_fulfiller)>> ELSE << >>
<1>1. /\ m \in acks /\ Complete(m, told)
      /\ in_flight' = in_flight - Size[m]
      /\ blocked' = blocked \ Unblocked(m)
      /\ sent' = [s \in Tasks |-> IF s \in Unblocked(m) THEN "ok" ELSE sent[s]]
      /\ empty_fulfiller' = IF told = << >> THEN empty_fulfiller ELSE NoWaiter
      /\ UNCHANGED <<max_message_size, failed, acks, patient>>
  BY DEF Acked, AfterAck
<1>2. /\ m \in Unacked /\ done' = done \cup {m}
      /\ IsFiniteSet(Units(Unacked \ {m}))
      /\ Cardinality(Units(Unacked)) = Cardinality(Units(Unacked \ {m})) + Size[m]
      /\ Cardinality(Units(Unacked \ {m})) \in Nat
      /\ Size[m] \in Nat
  BY <1>1, FinishedWasUnacked
<1>3. /\ in_flight \in Nat /\ Cardinality(Units(Unacked)) <= in_flight
      /\ ~ failed => in_flight = Cardinality(Units(Unacked))
  BY DEF FInv, TypeOK, InFlightCovers, InFlightExact
<1>4. /\ in_flight' \in Nat /\ in_flight' <= in_flight
      /\ Cardinality(Units(Unacked \ {m})) <= in_flight'
      /\ ~ failed => in_flight' = Cardinality(Units(Unacked \ {m}))
  BY <1>1, <1>2, <1>3
<1>5. tell => Fresh(OnEmpty(empty_fulfiller)) /\ empty_fulfiller \in Waiters
  <2> SUFFICES ASSUME tell
               PROVE  Fresh(OnEmpty(empty_fulfiller)) /\ empty_fulfiller \in Waiters
    OBVIOUS
  <2>1. /\ empty_fulfiller \in Waiters /\ empty_fulfiller \notin canceled
        /\ ~ Logged(OnEmpty(empty_fulfiller))
    BY DEF FInv, TypeOK, NotPushedYet
  <2> QED
    BY <2>1, FreshItem, Items
<1>6. told = << >> \/ \E item : told = <<item>> /\ Fresh(item)
  BY <1>5
<1>7. TInv'
  BY <1>1, <1>6, CompleteInv DEF FInv
<1>8. \A s \in Tasks : sent'[s] = "none" <=> sent[s] = "none"
  <2>1. \A s \in blocked : s \in Tasks => sent[s] # "none"
    BY DEF FInv, BlockedSent
  <2> QED
    BY <1>1, <2>1 DEF Unblocked
<1>9. /\ sent' \in [Tasks -> {"none", "ok", "blocked", "err"}]
      /\ blocked' \subseteq blocked
  BY <1>1 DEF FInv, TypeOK
<1>10. ready' = ready /\ (told = << >> <=> ~ tell)
  BY <1>1 DEF Complete
<1>11. TypeOK'
  <2>1. TaskTypeOK'
    BY <1>7 DEF TInv
  <2>2. empty_fulfiller' \in Waiters \cup {NoWaiter}
    BY <1>1 DEF FInv, TypeOK
  <2>3. blocked' \subseteq Tasks
    BY <1>9 DEF FInv, TypeOK
  <2> QED
    BY <1>1, <1>4, <1>9, <1>10, <2>1, <2>2, <2>3 DEF FInv, TypeOK
<1>12. NotPushedYet'
  <2>1. ~ polling \/ ~ ended
    BY DEF FInv, TInv
  <2>2. Accept(told)
    BY <1>1 DEF Complete
  <2>3. CASE tell
    <3>1. \A x : Logged(x)' => Logged(x) \/ x = OnEmpty(empty_fulfiller)
      BY <1>5, <2>2, <2>3, AcceptLogs DEF FInv
    <3>2. empty_fulfiller' = NoWaiter
      BY <1>1, <1>10, <2>3
    <3> QED
      BY <1>8, <3>1, <3>2, Items DEF FInv, NotPushedYet
  <2>4. CASE ~ tell
    <3>1. UNCHANGED <<log, canceled>>
      <4>1. ~ ended
        BY <1>1 DEF Complete, FInv, TInv
      <4> QED
        BY <2>2, <2>4, <4>1, AppendNothing DEF Accept, FInv, TInv, TaskTypeOK
    <3>2. empty_fulfiller' = empty_fulfiller
      BY <1>1, <1>10, <2>4
    <3> QED
      BY <1>8, <3>1, <3>2 DEF FInv, NotPushedYet, Logged
  <2> QED
    BY <2>3, <2>4
<1>13. InFlightCovers'
  <2>1. Unacked' = Unacked \ {m}
    BY <1>2, <1>8 DEF Unacked
  <2>2. Units(Unacked)' = Units(Unacked \ {m})
    BY <2>1 DEF Units
  <2> QED
    BY <1>1, <1>2, <1>4, <2>2 DEF InFlightCovers, InFlightExact
<1>14. RoomForOne'
  <2> SUFFICES ASSUME patient, ~ failed, blocked' = {}, in_flight' # 0
               PROVE  in_flight' < Window + max_message_size
    BY <1>1 DEF RoomForOne
  <2>1. CASE Unblocked(m) = {}
    <3>1. blocked = {}
      BY <1>1, <2>1
    <3>2. in_flight = 0 \/ in_flight < Window + max_message_size
      BY <3>1 DEF FInv, RoomForOne
    <3>3. max_message_size \in Nat
      BY DEF FInv, TypeOK
    <3> QED
      BY <1>3, <1>4, <3>2, <3>3, WindowAssumption
  <2>2. CASE Unblocked(m) # {}
    <3>1. IsReady(AfterAck(m), max_message_size)
      BY <2>2 DEF Unblocked
    <3> QED
      BY <1>1, <3>1 DEF IsReady, AfterAck
  <2> QED
    BY <2>1, <2>2
<1>15. WindowRespected'
  <2> SUFFICES ASSUME patient, ~ failed, max_message_size > 0
               PROVE  in_flight' < Window + 2 * max_message_size
    BY <1>1 DEF WindowRespected
  <2>1. in_flight < Window + 2 * max_message_size /\ max_message_size \in Nat
    BY DEF FInv, WindowRespected, TypeOK
  <2> QED
    BY <1>3, <1>4, <2>1, WindowAssumption
<1>16. BlockedSent'
  BY <1>1, <1>8, <1>9 DEF FInv, BlockedSent, TypeOK
<1> QED
  BY <1>7, <1>11, <1>12, <1>13, <1>14, <1>15, <1>16 DEF FInv

\* The task of a message whose ack has failed.
LEMMA AckFailsInv == ASSUME FInv, NEW m \in Tasks, AckFails(m) PROVE FInv'
<1>1. /\ Complete(m, << >>) /\ failed' = TRUE /\ blocked' = {}
      /\ sent' = [s \in Tasks |-> IF s \in blocked THEN "err" ELSE sent[s]]
      /\ UNCHANGED <<in_flight, max_message_size, empty_fulfiller, acks, patient>>
  BY DEF AckFails
<1>2. /\ m \in Unacked /\ done' = done \cup {m}
      /\ IsFiniteSet(Units(Unacked \ {m}))
      /\ Cardinality(Units(Unacked)) = Cardinality(Units(Unacked \ {m})) + Size[m]
      /\ Cardinality(Units(Unacked \ {m})) \in Nat
      /\ Size[m] \in Nat
  BY <1>1, FinishedWasUnacked
<1>3. TInv'
  BY <1>1, CompleteInv DEF FInv
<1>4. \A s \in Tasks : sent'[s] = "none" <=> sent[s] = "none"
  BY <1>1 DEF FInv, BlockedSent
<1>5. sent' \in [Tasks -> {"none", "ok", "blocked", "err"}]
  BY <1>1 DEF FInv, TypeOK
<1>6. UNCHANGED <<log, canceled, ready>>
  <2>1. ~ ended /\ Accept(<< >>) /\ ready' = ready
    BY <1>1 DEF Complete, FInv, TInv
  <2> QED
    BY <2>1, AppendNothing DEF Accept, FInv, TInv, TaskTypeOK
<1>7. TypeOK'
  <2>1. TaskTypeOK'
    BY <1>3 DEF TInv
  <2>2. failed' \in BOOLEAN
    BY <1>1
  <2> QED
    BY <1>1, <1>5, <1>6, <2>1, <2>2 DEF FInv, TypeOK
<1>8. NotPushedYet'
  BY <1>1, <1>4, <1>6 DEF FInv, NotPushedYet, Logged
<1>9. InFlightCovers'
  <2>1. Unacked' = Unacked \ {m}
    BY <1>2, <1>4 DEF Unacked
  <2>2. Units(Unacked)' = Units(Unacked \ {m})
    BY <2>1 DEF Units
  <2>3. in_flight \in Nat /\ Cardinality(Units(Unacked)) <= in_flight
    BY DEF FInv, TypeOK, InFlightCovers
  <2>4. Cardinality(Units(Unacked \ {m})) <= in_flight
    BY <1>2, <2>3
  <2> QED
    BY <1>1, <1>2, <2>2, <2>4 DEF InFlightCovers, InFlightExact
<1>10. RoomForOne' /\ WindowRespected' /\ BlockedSent'
  BY <1>1 DEF RoomForOne, WindowRespected, BlockedSent
<1> QED
  BY <1>3, <1>7, <1>8, <1>9, <1>10 DEF FInv

\* wait_all_acked with blocked sends.
LEMMA WaitBlockedInv == ASSUME FInv, NEW w \in Waiters, WaitBlocked(w) PROVE FInv'
<1>1. /\ Unused(OnEmpty(w)) /\ empty_fulfiller # w
      /\ empty_fulfiller' = w
      /\ canceled' = IF empty_fulfiller = NoWaiter THEN canceled
                     ELSE canceled \cup {empty_fulfiller}
      /\ UNCHANGED <<enqueued, in_progress, stopping, waiting, fired, ready, done,
                     polling, ended, log, in_flight, max_message_size, failed,
                     blocked, sent, acks, patient>>
  BY DEF WaitBlocked
<1>2. ~ Logged(OnEmpty(w)) /\ w \notin canceled
  <2>1. Fresh(OnEmpty(w))
    BY <1>1, UnusedIsFresh, Items DEF FInv
  <2> QED
    BY <2>1 DEF Fresh, Logged
<1>3. \A v \in canceled' : \/ v \in canceled
                           \/ /\ v = empty_fulfiller /\ v # NoWaiter
                              /\ v \in Waiters /\ ~ Logged(OnEmpty(v))
  BY <1>1 DEF FInv, NotPushedYet, TypeOK
<1>4. \A v : Taken(OnEmpty(v)) => Logged(OnEmpty(v))
  BY DEF Taken, Logged, FInv, TInv, TaskTypeOK, ChannelIsLog
<1>5. TaskTypeOK'
  <2>1. \A v \in waiting \cup fired : Logged(OnEmpty(v))
    BY <1>4 DEF FInv, TInv, TakenExact
  <2>2. \A v \in canceled' : v \in Waiters /\ v \notin waiting /\ v \notin fired
    BY <1>3, <2>1 DEF FInv, TInv, TaskTypeOK
  <2> QED
    BY <1>1, <2>2 DEF FInv, TInv, TaskTypeOK
<1>6. TInv'
  <2>1. CanceledNotPushed'
    BY <1>1, <1>3 DEF FInv, TInv, CanceledNotPushed, Logged
  <2> QED
    BY <1>1, <1>5, <2>1 DEF FInv, TInv, ChannelIsLog, TakenExact, Taken, FiredAfterDone
<1>7. TypeOK'
  BY <1>1, <1>5 DEF FInv, TypeOK
<1>8. NotPushedYet'
  <2>1. w \notin canceled'
    BY <1>1, <1>2
  <2>2. \A x : Logged(x)' <=> Logged(x)
    BY <1>1 DEF Logged
  <2> QED
    BY <1>1, <1>2, <2>1, <2>2 DEF FInv, NotPushedYet
<1>9. InFlightCovers' /\ RoomForOne' /\ WindowRespected' /\ BlockedSent'
  BY <1>1 DEF FInv, InFlightCovers, InFlightExact, Unacked, Units, RoomForOne,
       WindowRespected, BlockedSent
<1> QED
  BY <1>6, <1>7, <1>8, <1>9 DEF FInv

\* wait_all_acked without blocked sends, and polls: the controller's own
\* state stays, and its waiter is neither pushed nor dropped.
LEMMA FlowStays ==
    ASSUME FInv, TInv', UNCHANGED flowvars, UNCHANGED done, ready' = ready,
           \A m \in Tasks : Logged(Task(m))' => Logged(Task(m)),
           empty_fulfiller # NoWaiter =>
                /\ ~ Logged(OnEmpty(empty_fulfiller))'
                /\ empty_fulfiller \notin canceled'
    PROVE  FInv'
<1>1. TypeOK'
  BY DEF TInv, FInv, TypeOK, flowvars
<1>2. NotPushedYet'
  BY DEF FInv, NotPushedYet, flowvars
<1>3. InFlightCovers' /\ RoomForOne' /\ WindowRespected' /\ BlockedSent'
  BY DEF FInv, InFlightCovers, InFlightExact, Unacked, Units, RoomForOne,
       WindowRespected, BlockedSent, flowvars
<1> QED
  BY <1>1, <1>2, <1>3 DEF FInv

\* wait_all_acked without blocked sends.
LEMMA WaitEmptyInv == ASSUME FInv, NEW w \in Waiters, WaitEmpty(w) PROVE FInv'
<1>1. /\ Unused(OnEmpty(w)) /\ empty_fulfiller # w
      /\ Push(OnEmpty(w)) /\ UNCHANGED flowvars
  BY DEF WaitEmpty
<1>2. Fresh(OnEmpty(w))
  BY <1>1, UnusedIsFresh, Items DEF FInv
<1>3. TInv'
  BY <1>1, <1>2, PushInv DEF FInv
<1>4. Accept(<<OnEmpty(w)>>) /\ UNCHANGED <<ready, done>>
  BY <1>1 DEF Push
<1>5. /\ \A x : Logged(x)' => Logged(x) \/ x = OnEmpty(w)
      /\ \A v \in canceled' : v \in canceled \/ v = w
  BY <1>2, <1>4, AcceptLogs, Items DEF FInv
<1>6. \A m \in Tasks : Logged(Task(m))' => Logged(Task(m))
  BY <1>5, Items
<1>7. empty_fulfiller # NoWaiter =>
        ~ Logged(OnEmpty(empty_fulfiller))' /\ empty_fulfiller \notin canceled'
  BY <1>1, <1>5, Items DEF FInv, NotPushedYet, flowvars
<1> QED
  BY <1>1, <1>3, <1>4, <1>6, <1>7, FlowStays

\* The set is polled, or dropped.
LEMMA PollInv ==
    ASSUME FInv, StartPoll \/ EndPoll \/ DropTaskSet \/ UNCHANGED taskvars,
           UNCHANGED flowvars
    PROVE  FInv'
<1>1. TInv'
  BY StartPollInv, EndPollInv, GoneInv, TaskStutter DEF DropTaskSet, FInv
<1>2. /\ UNCHANGED <<log, done, ready>>
      /\ canceled' \subseteq canceled \cup waiting \cup WaitersIn(enqueued)
  BY DEF StartPoll, EndPoll, DropTaskSet, Gone, taskvars
<1>3. \A x : Logged(x)' <=> Logged(x)
  BY <1>2 DEF Logged
<1>4. \A w \in waiting \cup WaitersIn(enqueued) : Logged(OnEmpty(w))
  <2>1. \A w \in waiting : Logged(OnEmpty(w))
    BY DEF Taken, Logged, FInv, TInv, TaskTypeOK, ChannelIsLog, TakenExact
  <2>2. \A w \in WaitersIn(enqueued) : Logged(OnEmpty(w))
    BY EnqueuedNotTaken DEF WaitersIn, Logged, FInv
  <2> QED
    BY <2>1, <2>2
<1>5. empty_fulfiller # NoWaiter =>
        ~ Logged(OnEmpty(empty_fulfiller))' /\ empty_fulfiller \notin canceled'
  BY <1>2, <1>3, <1>4 DEF FInv, NotPushedYet, flowvars
<1> QED
  BY <1>1, <1>2, <1>3, <1>5, FlowStays

-----------------------------------------------------------------------------
(* The theorems about the flow controller *)

\* Every step of the controller keeps the invariant.
LEMMA NextInv == ASSUME FInv, [Next]_vars PROVE FInv'
<1>1. ASSUME NEW m \in Tasks, Send(m) \/ Acked(m) \/ AckFails(m) PROVE FInv'
  BY <1>1, SendInv, AckedInv, AckFailsInv
<1>2. ASSUME NEW m \in Tasks, NEW ok \in BOOLEAN, Answered(m, ok) PROVE FInv'
  BY <1>2, AnsweredInv
<1>3. ASSUME NEW w \in Waiters, WaitBlocked(w) \/ WaitEmpty(w) PROVE FInv'
  BY <1>3, WaitBlockedInv, WaitEmptyInv
<1>4. CASE \/ StartPoll /\ UNCHANGED flowvars
           \/ EndPoll /\ UNCHANGED flowvars
           \/ DropTaskSet /\ UNCHANGED flowvars
           \/ UNCHANGED vars
  BY <1>4, PollInv DEF vars
<1> QED
  BY <1>1, <1>2, <1>3, <1>4 DEF Next

\* So the invariant holds in every reachable state.
LEMMA Invariance == Spec => []FInv
<1>1. FInv /\ [Next]_vars => FInv'
  BY NextInv
<1> QED
  BY InitInv, <1>1, PTL DEF Spec

\* The state keeps its type: in_flight, an unsigned number in the code, is
\* never below zero, whichever acks succeed or fail.
THEOREM TypeCorrect == Spec => []TypeOK
<1>1. FInv => TypeOK
  BY DEF FInv
<1> QED
  BY Invariance, <1>1, PTL

\* wait_all_acked never answers too early: it relies on on_empty of the set
\* the controller owns.
THEOREM NotEarly == Spec => []EmptyMeansDone
<1>1. FInv => EmptyMeansDone
  BY NotEarlyByPlace DEF FInv
<1> QED
  BY Invariance, <1>1, PTL

\* Until a call fails, in_flight is exactly the size of the messages that
\* wait for their ack.
THEOREM InFlight == Spec => []InFlightExact
<1>1. FInv => InFlightExact
  BY DEF FInv, InFlightCovers
<1> QED
  BY Invariance, <1>1, PTL

\* A caller that waits for each send has less in flight than the window and
\* two of its largest messages, for any sizes and any window.
THEOREM WindowBound == Spec => []WindowRespected
<1>1. FInv => WindowRespected
  BY DEF FInv
<1> QED
  BY Invariance, <1>1, PTL
=============================================================================
