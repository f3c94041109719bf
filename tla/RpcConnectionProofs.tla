------------------------- MODULE RpcConnectionProofs -------------------------
(***************************************************************************)
(* Proofs about RpcConnection, for every set of capabilities, every bound  *)
(* and every choice of vats that quit or lose their stream:                *)
(*   - TypeCorrect: the state keeps its type;                              *)
(*   - ExportsMatchWhileConnected, PanicsAreExplained: exports_by_cap is   *)
(*     the inverse of exports until disconnect, so that write_descriptor   *)
(*     does not panic before; and a missing client was received twice;     *)
(*   - DisconnectSettlesCalls: disconnect leaves no caller waiting;        *)
(*   - NoConfusion, FreeIdsReusable: question ids are reused, and still no *)
(*     message is taken to be about another call than its sender meant;    *)
(*   - QueuedCallsProgress: a wanted call is never left queued on one that *)
(*     nobody runs.                                                        *)
(* The first three have one lemma per action, or per way an action can     *)
(* touch the tables the invariant is about.                                *)
(*                                                                         *)
(* Those about ids rest on one invariant for each question id (SlotOK).    *)
(* It is about the entry of the caller, the entry of the callee and the    *)
(* messages on their way in both directions, and is stated and kept for    *)
(* these alone, as a predicate of values: each lemma changes some of them  *)
(* the way one handler does, and the actions are put together from these.  *)
(***************************************************************************)
EXTENDS RpcConnection, TLAPS, WellFoundedInduction, FiniteSetTheorems

\* A table with a free slot has a least free id (ExportTable::push).
LEMMA FreeIdIsFree ==
    ASSUME NEW n \in Nat, NEW t, DOMAIN t = 0 .. n - 1, HasFree(t)
    PROVE  /\ FreeId(t) \in 0 .. n - 1
           /\ t[FreeId(t)] = None
           /\ \A j \in 0 .. n - 1 : j < FreeId(t) => t[j] # None
<1> DEFINE T == {id \in 0 .. n - 1 : t[id] = None}
           R == OpToRel(<, Nat)
<1>1. T \subseteq Nat /\ T # {}
  BY DEF HasFree
<1>2. \E x \in T : \A y \in T : ~ (<<y, x>> \in R)
  <2> HIDE DEF T, R
  <2>1. IsWellFoundedOn(R, Nat)
    BY NatLessThanWellFounded DEF R
  <2> QED
    BY <1>1, <2>1, WFMin
<1>3. PICK x \in T : \A y \in T : ~ (<<y, x>> \in R)
  BY <1>2
<1>4. \A y \in T : ~ (y < x)
  BY <1>3, <1>1 DEF OpToRel
<1>5. \E id \in DOMAIN t : /\ t[id] = None
                           /\ \A j \in DOMAIN t : j < id => t[j] # None
  BY <1>4
<1> QED
  BY <1>5 DEF FreeId

-----------------------------------------------------------------------------
(* The types of the operators *)

Channels == [Vats -> Seq(Message)]

\* The peer of a vat is the other vat.
LEMMA PeerType == ASSUME NEW v \in Vats PROVE Peer(v) \in Vats /\ Peer(v) # v
  BY DEF Vats, Peer

\* The empty slot is no id, no capability and no table entry.
LEMMA NoneFacts ==
    /\ None \notin Int /\ None \notin Nat /\ None \notin Caps
    /\ None \notin Question /\ None \notin Answer /\ None \notin Export
    /\ None \notin [target : Target, arg : Argument]
    /\ None \notin PanicSites
    /\ None \notin QuestionIds /\ None \notin ExportIds
  BY NoneAssumption, BoundsAssumption DEF QuestionIds, ExportIds

\* The id push gives a question is one of the question table.
LEMMA FreeQuestionId ==
    ASSUME TypeOK, NEW v \in Vats, HasFree(questions[v])
    PROVE  FreeId(questions[v]) \in QuestionIds
<1>1. DOMAIN questions[v] = 0 .. MaxQuestions - 1
  BY DEF TypeOK, QuestionIds
<1> QED
  BY <1>1, FreeIdIsFree, BoundsAssumption DEF QuestionIds

\* The id push gives an export is an empty slot of the export table.
LEMMA FreeExportId ==
    ASSUME TypeOK, NEW v \in Vats, HasFree(exports[v])
    PROVE  FreeId(exports[v]) \in ExportIds /\ exports[v][FreeId(exports[v])] = None
<1>1. DOMAIN exports[v] = 0 .. MaxExports - 1
  BY DEF TypeOK, ExportIds
<1> QED
  BY <1>1, FreeIdIsFree, BoundsAssumption DEF ExportIds

\* Sending keeps the channels typed.
LEMMA TransmitType ==
    ASSUME NEW ch \in Channels, NEW v \in Vats, NEW m \in Message
    PROVE  Transmit(ch, v, m) \in Channels
  BY DEF Channels, Transmit

\* The channels stay typed when a message is taken or the rest dropped.
LEMMA ChannelTypes ==
    ASSUME TypeOK, NEW v \in Vats
    PROVE  /\ chan \in Channels
           /\ Drained(v) \in Channels
           /\ chan[Peer(v)] # << >> => /\ Incoming(v) \in Message
                                       /\ Remaining(v) \in Channels
  BY PeerType DEF TypeOK, Channels, Drained, Incoming, Remaining

\* write_descriptor gives a well-formed descriptor and keeps the tables
\* typed; where the export table has room, its id is one of the table's.
LEMMA WriteDescriptorType ==
    ASSUME TypeOK, NEW v \in Vats, NEW arg \in Argument, RoomToExport(v, arg)
    PROVE  LET w == WriteDescriptor(v, arg)
           IN  /\ w.exports \in [ExportIds -> Export \cup {None}]
               /\ w.byCap \in [Caps -> ExportIds \cup {None}]
               /\ w.panic \in BOOLEAN
               /\ w.desc \in Descriptor
<1> DEFINE w == WriteDescriptor(v, arg)
<1>0. 0 \in ExportIds
  BY BoundsAssumption DEF ExportIds
<1>1. CASE arg.kind = "none"
  BY <1>0, <1>1 DEF WriteDescriptor, TypeOK, Descriptor
<1>2. CASE arg.kind = "import"
  BY <1>0, <1>2 DEF WriteDescriptor, TypeOK, Descriptor, Argument
<1>3. CASE arg.kind = "local" /\ exportsByCap[v][arg.id] # None
  <2>1. arg.id \in Caps
    BY <1>3 DEF Argument
  <2>2. exportsByCap[v][arg.id] \in ExportIds
    BY <2>1, <1>3 DEF TypeOK
  <2>3. CASE exports[v][exportsByCap[v][arg.id]] = None
    BY <1>0, <1>3, <2>3 DEF WriteDescriptor, TypeOK, Descriptor
  <2>4. CASE exports[v][exportsByCap[v][arg.id]] # None
    <3>1. exports[v][exportsByCap[v][arg.id]] \in Export
      BY <2>2, <2>4 DEF TypeOK
    <3>2. [exports[v][exportsByCap[v][arg.id]] EXCEPT !.refcount = @ + 1] \in Export
      BY <3>1 DEF Export
    <3> QED
      BY <1>0, <1>3, <2>2, <2>4, <3>2 DEF WriteDescriptor, TypeOK, Descriptor
  <2> QED
    BY <2>3, <2>4
<1>4. CASE arg.kind = "local" /\ exportsByCap[v][arg.id] = None
  <2>1. arg.id \in Caps
    BY <1>4 DEF Argument
  <2>2. FreeId(exports[v]) \in ExportIds
    BY <1>4, FreeExportId DEF RoomToExport
  <2>3. [refcount |-> 1, cap |-> arg.id] \in Export
    BY <2>1 DEF Export
  <2> QED
    BY <1>0, <1>4, <2>1, <2>2, <2>3 DEF WriteDescriptor, TypeOK, Descriptor
<1> QED
  BY <1>1, <1>2, <1>3, <1>4 DEF Argument

\* receive_cap keeps the import table typed.
LEMMA ReceiveCapType ==
    ASSUME TypeOK, NEW v \in Vats, NEW desc \in Descriptor
    PROVE  ReceiveCap(v, desc) \in [Vats -> [ExportIds -> Nat \cup {None}]]
  BY NoneFacts DEF TypeOK, ReceiveCap, Descriptor

\* So does finding a received capability in client_downcast_map.
LEMMA ClientFoundType ==
    ASSUME TypeOK, NEW v \in Vats, NEW desc \in Descriptor
    PROVE  ClientFound(v, desc) \in [Vats -> SUBSET ExportIds]
  BY DEF ClientFound, TypeOK

\* release_export erases an export or leaves it a positive count.
LEMMA ReleaseType ==
    ASSUME TypeOK, NEW v \in Vats, NEW id \in ExportIds, NEW n \in Nat,
           MayRelease(v, id, n), Release(v, id, n)
    PROVE  /\ exports' \in [Vats -> [ExportIds -> Export \cup {None}]]
           /\ exportsByCap' \in [Vats -> [Caps -> ExportIds \cup {None}]]
<1> DEFINE export == exports[v][id]
<1>1. export \in Export /\ n <= export.refcount
  BY DEF TypeOK, MayRelease
<1>2. export.refcount \in Nat /\ export.cap \in Caps
  BY <1>1 DEF Export
<1>3. CASE export.refcount = n
  <2>1. /\ exports' = [exports EXCEPT ![v][id] = None]
        /\ exportsByCap' = [exportsByCap EXCEPT ![v][export.cap] = None]
    BY <1>3 DEF Release
  <2> HIDE DEF export
  <2> QED
    BY <1>2, <2>1 DEF TypeOK
<1>4. CASE export.refcount # n
  <2>1. Lowered(export, n) \in Export
    BY <1>1, <1>4 DEF Lowered, Export
  <2>2. /\ exports' = [exports EXCEPT ![v][id] = Lowered(export, n)]
        /\ exportsByCap' = exportsByCap
    BY <1>4 DEF Release
  <2> HIDE DEF export
  <2> QED
    BY <2>1, <2>2 DEF TypeOK
<1> QED
  BY <1>3, <1>4

\* Rejecting a question keeps its type.
LEMMA RejectedType ==
    ASSUME NEW question \in Question \cup {None}
    PROVE  Rejected(question) \in Question \cup {None}
<1>1. CASE question = None
  BY <1>1 DEF Rejected
<1>2. CASE question \in Question
  <2>1. [question EXCEPT !.pending = FALSE] \in Question
    BY <1>2 DEF Question
  <2> QED
    BY <1>2, <2>1 DEF Rejected
<1> QED
  BY <1>1, <1>2

\* disconnect keeps the tables it clears and rejects typed.
LEMMA DisconnectType ==
    ASSUME TypeOK, NEW v \in Vats, NEW ch \in Channels, Disconnect(v, ch)
    PROVE  /\ connected' \in [Vats -> BOOLEAN]
           /\ chan' \in [Vats -> Seq(Message)]
           /\ questions' \in [Vats -> [QuestionIds -> Question \cup {None}]]
           /\ exports' \in [Vats -> [ExportIds -> Export \cup {None}]]
<1>1. AbortMsg \in Message
  BY DEF AbortMsg, Message
<1>2. Transmit(ch, v, AbortMsg) \in Channels
  BY <1>1, TransmitType
<1>3. \A q \in QuestionIds : Rejected(questions[v][q]) \in Question \cup {None}
  BY RejectedType DEF TypeOK
<1>4. CASE connected[v]
  <2> DEFINE rejected == [q \in QuestionIds |-> Rejected(questions[v][q])]
             cleared == [e \in ExportIds |-> None]
  <2>1. /\ connected' = [connected EXCEPT ![v] = FALSE]
        /\ questions' = [questions EXCEPT ![v] = rejected]
        /\ exports' = [exports EXCEPT ![v] = cleared]
        /\ chan' = Transmit(ch, v, AbortMsg)
    BY <1>4 DEF Disconnect
  <2>2. rejected \in [QuestionIds -> Question \cup {None}]
    BY <1>3
  <2>3. cleared \in [ExportIds -> Export \cup {None}]
    OBVIOUS
  <2> HIDE DEF rejected, cleared
  <2> QED
    BY <1>2, <2>1, <2>2, <2>3 DEF TypeOK, Channels
<1>5. CASE ~connected[v]
  BY <1>5 DEF TypeOK, Disconnect, Channels
<1> QED
  BY <1>4, <1>5

\* So does a handler that returns an error.
LEMMA FailType ==
    ASSUME TypeOK, NEW v \in Vats, Fail(v)
    PROVE  /\ connected' \in [Vats -> BOOLEAN]
           /\ loop' \in [Vats -> BOOLEAN]
           /\ chan' \in [Vats -> Seq(Message)]
           /\ questions' \in [Vats -> [QuestionIds -> Question \cup {None}]]
           /\ exports' \in [Vats -> [ExportIds -> Export \cup {None}]]
           /\ err' \in [Vats -> BOOLEAN]
<1>1. Disconnect(v, Drained(v)) /\ Drained(v) \in Channels
  BY ChannelTypes DEF Fail
<1>2. loop' \in [Vats -> BOOLEAN] /\ err' \in [Vats -> BOOLEAN]
  BY DEF TypeOK, Fail, EndLoop
<1> QED
  BY <1>1, <1>2, DisconnectType

\* Entering a question keeps the table and the call count typed.
LEMMA AskType ==
    ASSUME TypeOK, NEW v \in Vats, MayAsk(v), Ask(v)
    PROVE  /\ questions' \in [Vats -> [QuestionIds -> Question \cup {None}]]
           /\ issued' \in [Vats -> Nat]
<1>1. FreeId(questions[v]) \in QuestionIds
  BY FreeQuestionId DEF MayAsk
<1>2. NewQuestion(v) \in Question
  BY DEF NewQuestion, Question, TypeOK
<1> QED
  BY <1>1, <1>2 DEF Ask, TypeOK

-----------------------------------------------------------------------------
(* Type correctness: one lemma per group of actions *)

\* A new ConnectionState is well typed.
LEMMA InitType == Init => TypeOK
<1> SUFFICES ASSUME Init PROVE TypeOK
  OBVIOUS
<1> QED
  BY BoundsAssumption DEF Init, InitFrom, TypeOK, Vats

\* The capabilities and targets an application can use are well formed.
LEMMA ApplicationChoices ==
    ASSUME TypeOK, NEW v \in Vats
    PROVE  Targets(v) \subseteq Target /\ Arguments(v) \subseteq Argument
<1>1. \A q \in QuestionIds : questions[v][q] # None => questions[v][q].call \in Nat
  BY DEF TypeOK, Question
<1>2. Targets(v) \subseteq Target
  BY <1>1 DEF Targets, Target
<1>3. Arguments(v) \subseteq Argument
  BY DEF Arguments, Argument
<1> QED
  BY <1>2, <1>3

\* ConnectionState::bootstrap keeps the state typed, panicking or not.
LEMMA BootstrapType ==
    ASSUME TypeOK, NEW v \in Vats, Bootstrap(v) PROVE TypeOK'
<1>1. CASE connected[v]
  <2> DEFINE m == [t |-> "bootstrap", q |-> FreeId(questions[v]),
                   call |-> issued[v] + 1]
  <2>1. MayAsk(v) /\ Ask(v) /\ chan' = Transmit(chan, v, m)
    BY <1>1 DEF Bootstrap
  <2>2. m \in Message
    BY <2>1, FreeQuestionId DEF MayAsk, Message, TypeOK
  <2>3. chan' \in Channels
    <3> HIDE DEF m
    <3> QED BY <2>1, <2>2, TransmitType, ChannelTypes
  <2> QED
    BY <1>1, <2>1, <2>3, AskType DEF Bootstrap, TypeOK, Channels
<1>2. CASE ~connected[v]
  BY <1>2 DEF Bootstrap, TypeOK, Panic, PanicSites
<1> QED
  BY <1>1, <1>2

\* So does building a request.
LEMMA BuildRequestType ==
    ASSUME TypeOK, NEW v \in Vats, NEW target \in Targets(v),
           NEW arg \in Arguments(v), BuildRequest(v, target, arg)
    PROVE  TypeOK'
<1>1. target \in Target /\ arg \in Argument
  BY ApplicationChoices
<1> QED
  BY <1>1 DEF BuildRequest, TypeOK

\* So does send_internal, whether or not write_descriptor panics.
LEMMA SendRequestType ==
    ASSUME TypeOK, NEW v \in Vats, SendRequest(v) PROVE TypeOK'
<1> DEFINE w == WriteDescriptor(v, built[v].arg)
           m == [t |-> "call", q |-> FreeId(questions[v]),
                 call |-> issued[v] + 1, target |-> built[v].target,
                 cap |-> w.desc]
<1>1. /\ built[v].target \in Target /\ built[v].arg \in Argument
      /\ MayAsk(v) /\ RoomToExport(v, built[v].arg)
  BY DEF SendRequest, TypeOK
<1>2. /\ w.exports \in [ExportIds -> Export \cup {None}]
      /\ w.byCap \in [Caps -> ExportIds \cup {None}]
      /\ w.panic \in BOOLEAN
      /\ w.desc \in Descriptor
  BY <1>1, WriteDescriptorType
<1>3. built' = [built EXCEPT ![v] = None]
  BY DEF SendRequest
<1>4. CASE w.panic
  <2>1. /\ panic' = [panic EXCEPT ![v] = "write_descriptor"]
        /\ UNCHANGED <<questions, issued, chan, exports, exportsByCap>>
        /\ UNCHANGED <<connected, loop, answers, imports, stale, err>>
    BY <1>4 DEF SendRequest, Panic
  <2> QED
    BY <1>3, <2>1 DEF TypeOK, PanicSites
<1>5. CASE ~w.panic
  <2>1. /\ exports' = [exports EXCEPT ![v] = w.exports]
        /\ exportsByCap' = [exportsByCap EXCEPT ![v] = w.byCap]
        /\ Ask(v) /\ chan' = Transmit(chan, v, m)
        /\ UNCHANGED <<connected, loop, answers, imports, stale, err, panic>>
    BY <1>5 DEF SendRequest
  <2>2. m \in Message
    <3> HIDE DEF w
    <3> QED BY <1>1, <1>2, FreeQuestionId DEF MayAsk, Message, TypeOK
  <2>3. chan' \in Channels
    <3> HIDE DEF m
    <3> QED BY <2>1, <2>2, TransmitType, ChannelTypes
  <2> HIDE DEF m, w
  <2> QED
    BY <1>1, <1>2, <1>3, <2>1, <2>3, AskType DEF TypeOK, Channels
<1> QED
  BY <1>2, <1>4, <1>5

\* So does QuestionRef::drop.
LEMMA DropQuestionRefType ==
    ASSUME TypeOK, NEW v \in Vats, NEW q \in QuestionIds, DropQuestionRef(v, q)
    PROVE  TypeOK'
<1> DEFINE question == questions[v][q]
           m == [t |-> "finish", q |-> q, call |-> question.call,
                 release |-> ReleaseResultCaps(question)]
<1>1. question \in Question
  BY DEF DropQuestionRef, TypeOK
<1>2. Dropped(question) \in Question \cup {None}
  <2> HIDE DEF question
  <2> QED BY <1>1 DEF Dropped, Question
<1>3. m \in Message
  <2> HIDE DEF question
  <2> QED BY <1>1 DEF Message, ReleaseResultCaps, Question
<1>4. Transmit(chan, v, m) \in Channels /\ chan \in Channels
  BY <1>3, TransmitType, ChannelTypes
<1>5. /\ chan' \in {chan, Transmit(chan, v, m)}
      /\ questions' = [questions EXCEPT ![v][q] = Dropped(question)]
      /\ UNCHANGED <<connected, loop, answers, exports, exportsByCap, imports,
                     stale, built, issued, err, panic>>
  BY DEF DropQuestionRef
<1> HIDE DEF m, question
<1> QED
  BY <1>2, <1>4, <1>5 DEF TypeOK, Channels

\* So does ImportClient::drop.
LEMMA DropImportType ==
    ASSUME TypeOK, NEW v \in Vats, NEW e \in ExportIds, DropImport(v, e)
    PROVE  TypeOK'
<1> DEFINE m == [t |-> "release", id |-> e, n |-> imports[v][e]]
<1>1. m \in Message
  BY DEF DropImport, TypeOK, Message
<1>2. chan' \in Channels
  BY <1>1, TransmitType, ChannelTypes DEF DropImport
<1> QED
  BY <1>2 DEF DropImport, TypeOK, Channels

\* So does the Disconnector.
LEMMA DisconnectorType ==
    ASSUME TypeOK, NEW v \in Vats, Disconnector(v) PROVE TypeOK'
<1>1. Disconnect(v, chan) /\ chan \in Channels
  BY ChannelTypes DEF Disconnector
<1> QED
  BY <1>1, DisconnectType DEF Disconnector, TypeOK

\* So does the end of the stream under message_loop.
LEMMA ConnectionLostType ==
    ASSUME TypeOK, NEW v \in Vats, ConnectionLost(v) PROVE TypeOK'
<1>1. Disconnect(v, Drained(v)) /\ Drained(v) \in Channels
  BY ChannelTypes DEF ConnectionLost
<1>2. loop' \in [Vats -> BOOLEAN]
  BY DEF ConnectionLost, EndLoop, TypeOK
<1> QED
  BY <1>1, <1>2, DisconnectType DEF ConnectionLost, TypeOK

\* Replacing one answer keeps the table typed.
LEMMA AnswerUpdate ==
    ASSUME TypeOK, NEW v \in Vats, NEW q \in QuestionIds,
           NEW a \in Answer \cup {None},
           answers' = [answers EXCEPT ![v][q] = a]
    PROVE  answers' \in [Vats -> [QuestionIds -> Answer \cup {None}]]
  BY DEF TypeOK

\* The end of a cancelled call's task (eagerly_evaluate).
LEMMA CancelCallType ==
    ASSUME TypeOK, NEW v \in Vats, NEW q \in QuestionIds, CancelCall(v, q)
    PROVE  TypeOK'
<1> DEFINE a == answers[v][q]
           b == [a EXCEPT !.eager = FALSE]
<1>1. a \in Answer
  BY DEF CancelCall, Unreturned, TypeOK
<1>2. b \in Answer
  <2> HIDE DEF a
  <2> QED BY <1>1 DEF Answer
<1>3. /\ answers' = [answers EXCEPT ![v][q] = b]
      /\ UNCHANGED <<connected, loop, chan, questions, exports, exportsByCap,
                     imports, stale, built, issued, err, panic>>
  BY DEF CancelCall
<1> HIDE DEF b
<1>4. answers' \in [Vats -> [QuestionIds -> Answer \cup {None}]]
  BY <1>2, <1>3, AnswerUpdate
<1> QED
  BY <1>3, <1>4 DEF TypeOK

\* ensure_initialized.
LEMMA InitResultsType ==
    ASSUME TypeOK, NEW v \in Vats, NEW q \in QuestionIds, InitResults(v, q)
    PROVE  TypeOK'
<1> DEFINE a == answers[v][q]
           b == [a EXCEPT !.status = "init"]
<1>1. a \in Answer
  BY DEF InitResults, Executing, Unreturned, TypeOK
<1>2. b \in Answer
  <2> HIDE DEF a
  <2> QED BY <1>1 DEF Answer
<1>3. /\ answers' = [answers EXCEPT ![v][q] = b]
      /\ UNCHANGED <<connected, loop, chan, questions, exports, exportsByCap,
                     imports, stale, built, issued, err, panic>>
  BY DEF InitResults
<1> HIDE DEF b
<1>4. answers' \in [Vats -> [QuestionIds -> Answer \cup {None}]]
  BY <1>2, <1>3, AnswerUpdate
<1> QED
  BY <1>3, <1>4 DEF TypeOK

\* answer_has_sent_return keeps the answer table typed.
LEMMA SentReturnType ==
    ASSUME NEW as \in [QuestionIds -> Answer \cup {None}],
           NEW q \in QuestionIds, as[q] \in Answer, NEW finish \in BOOLEAN,
           NEW exp \in ExportIds \cup {None}, NEW ok \in BOOLEAN
    PROVE  SentReturn(as, q, finish, exp, ok) \in [QuestionIds -> Answer \cup {None}]
<1> DEFINE a == as[q]
           b == [a EXCEPT !.status = "returned", !.exp = exp, !.ok = ok]
<1>1. b \in Answer
  <2>1. a \in Answer OBVIOUS
  <2> HIDE DEF a
  <2> QED BY <2>1 DEF Answer
<1>2. SentReturn(as, q, finish, exp, ok) =
            [as EXCEPT ![q] = IF finish THEN None ELSE b]
  BY DEF SentReturn
<1> HIDE DEF b
<1> QED
  BY <1>1, <1>2

\* So does completing a pipeline.
LEMMA UnqueueType ==
    ASSUME NEW as \in [QuestionIds -> Answer \cup {None}],
           NEW q \in QuestionIds, NEW ok \in BOOLEAN
    PROVE  Unqueue(as, q, ok) \in [QuestionIds -> Answer \cup {None}]
<1> DEFINE f(r) == IF as[r] # None /\ q \in as[r].waits
                   THEN [as[r] EXCEPT !.waits = @ \ {q}, !.broken = @ \/ ~ok]
                   ELSE as[r]
<1>1. ASSUME NEW r \in QuestionIds PROVE f(r) \in Answer \cup {None}
  <2> DEFINE a == as[r]
  <2>1. CASE a = None
    BY <2>1
  <2>2. CASE a \in Answer
    <3> HIDE DEF a
    <3>1. [a EXCEPT !.waits = @ \ {q}, !.broken = @ \/ ~ok] \in Answer
      BY <2>2 DEF Answer
    <3> QED
      BY <2>2, <3>1 DEF a
  <2> QED
    BY <2>1, <2>2
<1>2. Unqueue(as, q, ok) = [r \in QuestionIds |-> f(r)]
  BY DEF Unqueue
<1> HIDE DEF f
<1> QED
  BY <1>1, <1>2

\* A call that returns is in the table, and the message it sends is well
\* formed.
LEMMA ReturnMsgType ==
    ASSUME TypeOK, NEW v \in Vats, NEW q \in QuestionIds, Unreturned(v, q),
           NEW which \in {"results", "exception", "canceled"},
           NEW cap \in Descriptor, NEW nofinish \in BOOLEAN
    PROVE  /\ answers[v] \in [QuestionIds -> Answer \cup {None}]
           /\ answers[v][q] \in Answer
           /\ ReturnMsg(v, q, which, cap, nofinish) \in Message
<1>1. answers[v][q] \in Answer /\ answers[v] \in [QuestionIds -> Answer \cup {None}]
  BY DEF TypeOK, Unreturned
<1>2. answers[v][q].call \in Nat
  BY <1>1 DEF Answer
<1> QED
  BY <1>1, <1>2 DEF ReturnMsg, Message

\* A payload without a capability is a descriptor too.
LEMMA NoCap == [kind |-> "none", id |-> 0] \in Descriptor
  BY BoundsAssumption DEF Descriptor, ExportIds

\* The three Returns without a capability, and the local one.
LEMMA ReturnCanceledType ==
    ASSUME TypeOK, NEW v \in Vats, NEW q \in QuestionIds, NEW ok \in BOOLEAN,
           ReturnCanceled(v, q, ok)
    PROVE  TypeOK'
<1> DEFINE m == ReturnMsg(v, q, "canceled", [kind |-> "none", id |-> 0], FALSE)
           as == SentReturn(answers[v], q, TRUE, None, ok)
           bs == Unqueue(as, q, ok)
<1>1. Unreturned(v, q)
  BY DEF ReturnCanceled, Executing
<1>2. /\ answers[v] \in [QuestionIds -> Answer \cup {None}]
      /\ answers[v][q] \in Answer
      /\ m \in Message
  BY <1>1, ReturnMsgType, NoCap
<1>3. as \in [QuestionIds -> Answer \cup {None}]
  BY <1>2, SentReturnType
<1>4. bs \in [QuestionIds -> Answer \cup {None}]
  <2> HIDE DEF as
  <2> QED BY <1>3, UnqueueType
<1>5. Transmit(chan, v, m) \in Channels
  <2> HIDE DEF m
  <2> QED BY <1>2, TransmitType, ChannelTypes
<1>6. /\ chan' = Transmit(chan, v, m)
      /\ answers' = [answers EXCEPT ![v] = bs]
      /\ UNCHANGED <<connected, loop, questions, exports, exportsByCap,
                     imports, stale, built, issued, err, panic>>
  BY DEF ReturnCanceled
<1> HIDE DEF m, bs
<1> QED
  BY <1>4, <1>5, <1>6 DEF TypeOK, Channels

\* A Return with an exception.
LEMMA ReturnExceptionType ==
    ASSUME TypeOK, NEW v \in Vats, NEW q \in QuestionIds, ReturnException(v, q)
    PROVE  TypeOK'
<1> DEFINE m == ReturnMsg(v, q, "exception", [kind |-> "none", id |-> 0], FALSE)
           as == SentReturn(answers[v], q, FALSE, None, FALSE)
           bs == Unqueue(as, q, FALSE)
<1>1. Unreturned(v, q)
  BY DEF ReturnException, Executing
<1>2. /\ answers[v] \in [QuestionIds -> Answer \cup {None}]
      /\ answers[v][q] \in Answer
      /\ m \in Message
  BY <1>1, ReturnMsgType, NoCap
<1>3. as \in [QuestionIds -> Answer \cup {None}]
  BY <1>2, SentReturnType
<1>4. bs \in [QuestionIds -> Answer \cup {None}]
  <2> HIDE DEF as
  <2> QED BY <1>3, UnqueueType
<1>5. Transmit(chan, v, m) \in Channels
  <2> HIDE DEF m
  <2> QED BY <1>2, TransmitType, ChannelTypes
<1>6. /\ chan' = Transmit(chan, v, m)
      /\ answers' = [answers EXCEPT ![v] = bs]
      /\ UNCHANGED <<connected, loop, questions, exports, exportsByCap,
                     imports, stale, built, issued, err, panic>>
  BY DEF ReturnException
<1> HIDE DEF m, bs
<1> QED
  BY <1>4, <1>5, <1>6 DEF TypeOK, Channels

\* Results kept locally after the connection was lost.
LEMMA ReturnRedirectedType ==
    ASSUME TypeOK, NEW v \in Vats, NEW q \in QuestionIds, NEW ok \in BOOLEAN,
           ReturnRedirected(v, q, ok)
    PROVE  TypeOK'
<1> DEFINE a == answers[v][q]
           b == [a EXCEPT !.status = "redirected"]
           as == [answers[v] EXCEPT ![q] = b]
           bs == Unqueue(as, q, ok)
<1>1. a \in Answer
  BY DEF ReturnRedirected, Executing, Unreturned, TypeOK
<1>2. b \in Answer
  <2> HIDE DEF a
  <2> QED BY <1>1 DEF Answer
<1>3. as \in [QuestionIds -> Answer \cup {None}]
  <2> HIDE DEF b
  <2> QED BY <1>2 DEF TypeOK
<1>4. bs \in [QuestionIds -> Answer \cup {None}]
  <2> HIDE DEF as
  <2> QED BY <1>3, UnqueueType
<1>5. /\ answers' = [answers EXCEPT ![v] = bs]
      /\ UNCHANGED <<connected, loop, chan, questions, exports, exportsByCap,
                     imports, stale, built, issued, err, panic>>
  BY DEF ReturnRedirected
<1> HIDE DEF bs
<1> QED
  BY <1>4, <1>5 DEF TypeOK

\* The Return that may export a capability.
LEMMA ReturnResultsType ==
    ASSUME TypeOK, NEW v \in Vats, NEW q \in QuestionIds,
           NEW arg \in Argument, ReturnResults(v, q, arg)
    PROVE  TypeOK'
<1> DEFINE w == WriteDescriptor(v, arg)
           nofinish == arg.kind = "none"
           exp == IF w.desc.kind = "senderHosted" THEN w.desc.id ELSE None
           m == ReturnMsg(v, q, "results", w.desc, nofinish)
           as == SentReturn(answers[v], q, nofinish, exp, ~nofinish)
           bs == Unqueue(as, q, ~nofinish)
<1>1. Unreturned(v, q) /\ RoomToExport(v, arg)
  BY DEF ReturnResults, Executing
<1>2. /\ w.exports \in [ExportIds -> Export \cup {None}]
      /\ w.byCap \in [Caps -> ExportIds \cup {None}]
      /\ w.panic \in BOOLEAN
      /\ w.desc \in Descriptor
  BY <1>1, WriteDescriptorType
<1>3. nofinish \in BOOLEAN /\ (~nofinish) \in BOOLEAN
  OBVIOUS
<1>4. exp \in ExportIds \cup {None}
  <2> HIDE DEF w
  <2> QED BY <1>2 DEF Descriptor
<1>5. CASE w.panic
  BY <1>5 DEF ReturnResults, TypeOK, Panic, PanicSites
<1>6. CASE ~w.panic
  <2>1. /\ exports' = [exports EXCEPT ![v] = w.exports]
        /\ exportsByCap' = [exportsByCap EXCEPT ![v] = w.byCap]
        /\ chan' = Transmit(chan, v, m)
        /\ answers' = [answers EXCEPT ![v] = bs]
        /\ UNCHANGED <<connected, loop, questions, imports, stale, built, issued,
                       err, panic>>
    BY <1>6 DEF ReturnResults
  <2> HIDE DEF w, nofinish
  <2>2. /\ answers[v] \in [QuestionIds -> Answer \cup {None}]
        /\ answers[v][q] \in Answer
        /\ m \in Message
    BY <1>1, <1>2, <1>3, ReturnMsgType
  <2> HIDE DEF exp, m
  <2>3. as \in [QuestionIds -> Answer \cup {None}]
    BY <1>3, <1>4, <2>2, SentReturnType
  <2> HIDE DEF as
  <2>4. bs \in [QuestionIds -> Answer \cup {None}]
    BY <1>3, <2>3, UnqueueType
  <2>5. Transmit(chan, v, m) \in Channels
    BY <2>2, TransmitType, ChannelTypes
  <2> HIDE DEF bs
  <2> QED
    BY <1>2, <2>1, <2>4, <2>5 DEF TypeOK, Channels
<1> QED
  BY <1>2, <1>5, <1>6

-----------------------------------------------------------------------------
(* Type correctness of the message handlers *)

\* A message being handled is well formed, and so are the channels without
\* it and the state of the loop.
LEMMA HandlingType ==
    ASSUME TypeOK, NEW v \in Vats, NEW types, CanHandle(v, types)
    PROVE  /\ Incoming(v) \in Message /\ Incoming(v).t \in types
           /\ Remaining(v) \in Channels /\ Drained(v) \in Channels
           /\ Handled(v) => loop' \in [Vats -> BOOLEAN]
<1>1. Handled(v) => loop' \in [Vats -> BOOLEAN]
  BY DEF Handled, TypeOK
<1> QED
  BY <1>1, ChannelTypes DEF CanHandle

\* handle_bootstrap keeps the state typed.
LEMMA HandleBootstrapType ==
    ASSUME TypeOK, NEW v \in Vats, HandleBootstrap(v) PROVE TypeOK'
<1> DEFINE m == Incoming(v)
           arg == [kind |-> "local", id |-> BootstrapCap]
           w == WriteDescriptor(v, arg)
           a == [call |-> m.call, finish |-> FALSE, status |-> "returned",
                 exp |-> w.desc.id, ok |-> TRUE, broken |-> FALSE,
                 waits |-> {}, eager |-> FALSE]
           r == [t |-> "return", q |-> m.q, call |-> m.call,
                 which |-> "results", cap |-> w.desc, nofinish |-> FALSE]
<1>1. /\ m \in Message /\ m.t = "bootstrap"
      /\ Remaining(v) \in Channels
      /\ Handled(v) => loop' \in [Vats -> BOOLEAN]
  BY HandlingType DEF HandleBootstrap
<1>2. m.q \in QuestionIds /\ m.call \in Nat
  <2> HIDE DEF m
  <2> QED BY <1>1 DEF Message
<1>3. UNCHANGED <<imports, stale, built, issued>>
  BY DEF HandleBootstrap
<1>4. CASE ~connected[v]
  <2>1. /\ Handled(v) /\ chan' = Remaining(v)
        /\ UNCHANGED <<connected, questions, answers, exports, exportsByCap,
                       err, panic>>
    BY <1>4 DEF HandleBootstrap
  <2> QED
    BY <1>1, <1>3, <2>1 DEF TypeOK, Channels
<1>5. CASE connected[v] /\ w.panic
  <2>1. /\ Panic(v, "write_descriptor")
        /\ UNCHANGED <<connected, loop, chan, questions, answers, exports,
                       exportsByCap, err>>
    BY <1>5 DEF HandleBootstrap
  <2> QED
    BY <1>3, <2>1 DEF TypeOK, Panic, PanicSites
<1>6. CASE connected[v] /\ ~w.panic /\ answers[v][m.q] # None
  <2>1. Fail(v) /\ UNCHANGED <<answers, exportsByCap, panic>>
    BY <1>6 DEF HandleBootstrap
  <2> QED
    BY <1>3, <2>1, FailType DEF TypeOK
<1>7. CASE connected[v] /\ ~w.panic /\ answers[v][m.q] = None
  <2>1. /\ RoomToExport(v, arg)
        /\ exports' = [exports EXCEPT ![v] = w.exports]
        /\ exportsByCap' = [exportsByCap EXCEPT ![v] = w.byCap]
        /\ answers' = [answers EXCEPT ![v][m.q] = a]
        /\ chan' = Transmit(Remaining(v), v, r)
        /\ Handled(v)
        /\ UNCHANGED <<connected, questions, err, panic>>
    BY <1>7 DEF HandleBootstrap
  <2>2. arg \in Argument
    BY CapsAssumption DEF Argument
  <2> HIDE DEF arg
  <2>3. /\ w.exports \in [ExportIds -> Export \cup {None}]
        /\ w.byCap \in [Caps -> ExportIds \cup {None}]
        /\ w.desc \in Descriptor
    BY <2>1, <2>2, WriteDescriptorType
  <2> HIDE DEF w, m
  <2>4. a \in Answer
    BY <1>2, <2>3 DEF Answer, Descriptor
  <2>5. r \in Message
    BY <1>2, <2>3 DEF Message
  <2> HIDE DEF a, r
  <2>6. chan' \in Channels
    BY <1>1, <2>1, <2>5, TransmitType
  <2>7. answers' \in [Vats -> [QuestionIds -> Answer \cup {None}]]
    BY <1>2, <2>1, <2>4, AnswerUpdate
  <2> QED
    BY <1>1, <1>3, <2>1, <2>3, <2>6, <2>7 DEF TypeOK, Channels
<1> QED
  BY <1>4, <1>5, <1>6, <1>7

\* A pipelined call is queued on calls of the table.
LEMMA QueuedOnType ==
    ASSUME TypeOK, NEW v \in Vats, NEW t \in QuestionIds
    PROVE  QueuedOn(v, t) \subseteq QuestionIds
<1>1. CASE ~PipelineBroken(v, t) /\ Unreturned(v, t)
  <2>1. answers[v][t] \in Answer
    BY <1>1 DEF TypeOK, Unreturned
  <2>2. answers[v][t].waits \subseteq QuestionIds
    BY <2>1 DEF Answer
  <2> QED BY <1>1, <2>2 DEF QueuedOn
<1>2. CASE ~(~PipelineBroken(v, t) /\ Unreturned(v, t))
  BY <1>2 DEF QueuedOn
<1> QED
  BY <1>1, <1>2

\* So does the Call handler.
LEMMA HandleCallType ==
    ASSUME TypeOK, NEW v \in Vats, HandleCall(v) PROVE TypeOK'
<1> DEFINE m == Incoming(v)
           pipelined == m.target.kind = "promisedAnswer"
           bad == \/ ~pipelined /\ exports[v][m.target.id] = None
                  \/ answers[v][m.q] # None
           waits == IF pipelined THEN QueuedOn(v, m.target.id) ELSE {}
           broken == pipelined /\ PipelineBroken(v, m.target.id)
           a == [call |-> m.call, finish |-> FALSE, status |-> "new",
                 exp |-> None, ok |-> FALSE, broken |-> broken,
                 waits |-> waits, eager |-> TRUE]
<1>1. /\ m \in Message /\ m.t = "call"
      /\ Remaining(v) \in Channels
      /\ Handled(v) => loop' \in [Vats -> BOOLEAN]
  BY HandlingType DEF HandleCall
<1>2. /\ m.q \in QuestionIds /\ m.call \in Nat
      /\ m.target \in Target /\ m.cap \in Descriptor
  <2> HIDE DEF m
  <2> QED BY <1>1 DEF Message
<1>3. UNCHANGED <<exportsByCap, built, issued, panic>>
  BY DEF HandleCall
<1>4. CASE bad
  <2>1. Fail(v) /\ UNCHANGED <<answers, imports, stale>>
    BY <1>4 DEF HandleCall
  <2> QED
    BY <1>3, <2>1, FailType DEF TypeOK
<1>5. CASE ~bad
  <2>1. /\ imports' = ReceiveCap(v, m.cap) /\ stale' = ClientFound(v, m.cap)
        /\ answers' = [answers EXCEPT ![v][m.q] = a]
        /\ chan' = Remaining(v) /\ Handled(v)
        /\ UNCHANGED <<connected, questions, exports, err>>
    BY <1>5 DEF HandleCall
  <2>2. waits \subseteq QuestionIds
    <3> HIDE DEF m
    <3>1. CASE ~pipelined
      BY <3>1
    <3>2. CASE pipelined
      <4>1. m.target.id \in QuestionIds
        BY <1>2, <3>2 DEF Target
      <4> QED BY <3>2, <4>1, QueuedOnType
    <3> QED BY <3>1, <3>2
  <2>3. broken \in BOOLEAN
    BY DEF PipelineBroken
  <2> HIDE DEF waits, broken, m
  <2>4. a \in Answer
    BY <1>2, <2>2, <2>3 DEF Answer
  <2> HIDE DEF a
  <2>5. answers' \in [Vats -> [QuestionIds -> Answer \cup {None}]]
    BY <1>2, <2>1, <2>4, AnswerUpdate
  <2>6. /\ imports' \in [Vats -> [ExportIds -> Nat \cup {None}]]
        /\ stale' \in [Vats -> SUBSET ExportIds]
    BY <1>2, <2>1, ReceiveCapType, ClientFoundType
  <2> QED
    BY <1>1, <1>3, <2>1, <2>5, <2>6 DEF TypeOK, Channels
<1> QED
  BY <1>4, <1>5

\* So does the Return handler.
LEMMA HandleReturnType ==
    ASSUME TypeOK, NEW v \in Vats, HandleReturn(v) PROVE TypeOK'
<1> DEFINE m == Incoming(v)
           question == questions[v][m.q]
           returned == [question EXCEPT !.awaiting = FALSE,
                                        !.skip = SkipFinish(question, m)]
           next == IF ~question.ref THEN None
                   ELSE IF m.which = "canceled" THEN returned
                   ELSE [returned EXCEPT !.pending = FALSE]
<1>1. /\ m \in Message /\ m.t = "return"
      /\ Remaining(v) \in Channels
      /\ Handled(v) => loop' \in [Vats -> BOOLEAN]
  BY HandlingType DEF HandleReturn
<1>2. /\ m.q \in QuestionIds /\ m.cap \in Descriptor
      /\ m.nofinish \in BOOLEAN
  <2> HIDE DEF m
  <2> QED BY <1>1 DEF Message
<1>3. UNCHANGED <<answers, exportsByCap, built, issued, panic>>
  BY DEF HandleReturn
<1>4. CASE question = None
  <2>1. Fail(v) /\ UNCHANGED <<imports, stale>>
    BY <1>4 DEF HandleReturn
  <2> QED
    BY <1>3, <2>1, FailType DEF TypeOK
<1>5. CASE question # None
  <2>1. /\ questions' = [questions EXCEPT ![v][m.q] = next]
        /\ imports' \in {imports, ReceiveCap(v, m.cap)}
        /\ stale' \in {stale, ClientFound(v, m.cap)}
        /\ chan' \in {Remaining(v), Transmit(Remaining(v), v, UnimplementedMsg)}
        /\ Handled(v)
        /\ UNCHANGED <<connected, exports, err>>
    BY <1>5 DEF HandleReturn
  <2>2. question \in Question
    BY <1>2, <1>5 DEF TypeOK
  <2> HIDE DEF question
  <2>3. SkipFinish(question, m) \in BOOLEAN
    BY DEF SkipFinish
  <2> HIDE DEF m
  <2>4. returned \in Question /\ [returned EXCEPT !.pending = FALSE] \in Question
    BY <2>2, <2>3 DEF Question
  <2> HIDE DEF returned
  <2>5. next \in Question \cup {None}
    BY <2>4
  <2>6. UnimplementedMsg \in Message
    BY DEF UnimplementedMsg, Message
  <2>7. chan' \in Channels
    BY <1>1, <2>1, <2>6, TransmitType
  <2>8. /\ imports' \in [Vats -> [ExportIds -> Nat \cup {None}]]
        /\ stale' \in [Vats -> SUBSET ExportIds]
    BY <1>2, <2>1, ReceiveCapType, ClientFoundType DEF TypeOK
  <2> HIDE DEF next
  <2>9. questions' \in [Vats -> [QuestionIds -> Question \cup {None}]]
    BY <1>2, <2>1, <2>5 DEF TypeOK
  <2> QED
    BY <1>1, <1>3, <2>1, <2>7, <2>8, <2>9 DEF TypeOK, Channels
<1> QED
  BY <1>4, <1>5

\* So does handle_finish.
LEMMA HandleFinishType ==
    ASSUME TypeOK, NEW v \in Vats, HandleFinish(v) PROVE TypeOK'
<1> DEFINE m == Incoming(v)
           a == answers[v][m.q]
           exp == IF m.release THEN None ELSE a.exp
           b == [a EXCEPT !.finish = TRUE, !.exp = exp]
           drop == a # None /\ m.release /\ a.exp # None
<1>1. /\ m \in Message /\ m.t = "finish"
      /\ Remaining(v) \in Channels
      /\ Handled(v) => loop' \in [Vats -> BOOLEAN]
  BY HandlingType DEF HandleFinish
<1>2. m.q \in QuestionIds
  <2> HIDE DEF m
  <2> QED BY <1>1 DEF Message
<1>3. UNCHANGED <<imports, stale, built, issued, panic>>
  BY DEF HandleFinish
<1>4. a # None => a \in Answer
  BY <1>2 DEF TypeOK
<1>5. a # None => a.exp \in ExportIds \cup {None}
  <2> HIDE DEF a
  <2> QED BY <1>4 DEF Answer
<1>6. answers' \in [Vats -> [QuestionIds -> Answer \cup {None}]]
  <2>1. CASE a = None
    BY <2>1 DEF HandleFinish, TypeOK
  <2>2. CASE a # None
    <3>1. answers' = [answers EXCEPT ![v][m.q] =
                        IF a.status = "returned" THEN None ELSE b]
      BY <2>2 DEF HandleFinish
    <3>2. exp \in ExportIds \cup {None}
      <4> HIDE DEF a, m
      <4> QED BY <1>5, <2>2
    <3> HIDE DEF a, m, exp
    <3>3. b \in Answer
      BY <1>4, <2>2, <3>2 DEF Answer
    <3> HIDE DEF b
    <3> QED
      BY <1>2, <3>1, <3>3, AnswerUpdate
  <2> QED
    BY <2>1, <2>2
<1>7. CASE drop /\ ~MayRelease(v, a.exp, 1)
  <2>1. Fail(v) /\ UNCHANGED exportsByCap
    BY <1>7 DEF HandleFinish
  <2> QED
    BY <1>3, <1>6, <2>1, FailType DEF TypeOK
<1>8. CASE drop /\ MayRelease(v, a.exp, 1)
  <2>1. /\ Release(v, a.exp, 1)
        /\ chan' = Remaining(v) /\ Handled(v)
        /\ UNCHANGED <<connected, questions, err>>
    BY <1>8 DEF HandleFinish
  <2> DEFINE e == a.exp
  <2>2. e \in ExportIds /\ MayRelease(v, e, 1) /\ Release(v, e, 1)
    BY <1>5, <1>8, <2>1
  <2> HIDE DEF e
  <2>3. /\ exports' \in [Vats -> [ExportIds -> Export \cup {None}]]
        /\ exportsByCap' \in [Vats -> [Caps -> ExportIds \cup {None}]]
    BY <2>2, ReleaseType
  <2> QED
    BY <1>1, <1>3, <1>6, <2>1, <2>3 DEF TypeOK, Channels
<1>9. CASE ~drop
  <2>1. /\ UNCHANGED <<exports, exportsByCap>>
        /\ chan' = Remaining(v) /\ Handled(v)
        /\ UNCHANGED <<connected, questions, err>>
    BY <1>9 DEF HandleFinish
  <2> QED
    BY <1>1, <1>3, <1>6, <2>1 DEF TypeOK, Channels
<1> QED
  BY <1>7, <1>8, <1>9

\* So does the Release handler.
LEMMA HandleReleaseType ==
    ASSUME TypeOK, NEW v \in Vats, HandleRelease(v) PROVE TypeOK'
<1> DEFINE m == Incoming(v)
<1>1. /\ m \in Message /\ m.t = "release"
      /\ Remaining(v) \in Channels
      /\ Handled(v) => loop' \in [Vats -> BOOLEAN]
  BY HandlingType DEF HandleRelease
<1>2. m.id \in ExportIds /\ m.n \in Nat
  <2> HIDE DEF m
  <2> QED BY <1>1 DEF Message
<1>3. UNCHANGED <<answers, imports, stale, built, issued, panic>>
  BY DEF HandleRelease
<1>4. CASE ~MayRelease(v, m.id, m.n)
  <2>1. Fail(v) /\ UNCHANGED exportsByCap
    BY <1>4 DEF HandleRelease
  <2> QED
    BY <1>3, <2>1, FailType DEF TypeOK
<1>5. CASE MayRelease(v, m.id, m.n)
  <2>1. /\ Release(v, m.id, m.n)
        /\ chan' = Remaining(v) /\ Handled(v)
        /\ UNCHANGED <<connected, questions, err>>
    BY <1>5 DEF HandleRelease
  <2>2. /\ exports' \in [Vats -> [ExportIds -> Export \cup {None}]]
        /\ exportsByCap' \in [Vats -> [Caps -> ExportIds \cup {None}]]
    <3> HIDE DEF m
    <3> QED BY <1>2, <1>5, <2>1, ReleaseType
  <2> QED
    BY <1>1, <1>3, <2>1, <2>2 DEF TypeOK, Channels
<1> QED
  BY <1>4, <1>5

\* So does the Abort handler.
LEMMA HandleAbortType ==
    ASSUME TypeOK, NEW v \in Vats, HandleAbort(v) PROVE TypeOK'
<1>1. Disconnect(v, Drained(v)) /\ Drained(v) \in Channels
  BY ChannelTypes DEF HandleAbort
<1>2. loop' \in [Vats -> BOOLEAN] /\ err' \in [Vats -> BOOLEAN]
  BY DEF HandleAbort, EndLoop, TypeOK
<1> QED
  BY <1>1, <1>2, DisconnectType DEF HandleAbort, TypeOK

\* What the steps about client_downcast_map change, and what they do not.
LEMMA DowncastMapOnly ==
    ASSUME NEW v \in Vats, DowncastMap(v)
    PROVE  /\ UNCHANGED <<connected, loop, chan, questions, answers, exports,
                          exportsByCap, imports, built, issued, err>>
           /\ UNCHANGED panic \/ Panic(v, "client_downcast_map")
  BY DEF DowncastMap, DropNewestClient, ClientNotFound

\* They keep the state well typed.
LEMMA DowncastMapType ==
    ASSUME TypeOK, NEW v \in Vats, DowncastMap(v) PROVE TypeOK'
<1>1. stale' \in [Vats -> SUBSET ExportIds]
  <2>1. CASE ClientNotFound(v)
    BY <2>1 DEF ClientNotFound, TypeOK
  <2>2. ASSUME NEW e \in ExportIds, DropNewestClient(v, e)
        PROVE  stale' \in [Vats -> SUBSET ExportIds]
    BY <2>2 DEF DropNewestClient, TypeOK
  <2> QED
    BY <2>1, <2>2 DEF DowncastMap
<1>2. panic' \in [Vats -> PanicSites \cup {None}]
  BY DowncastMapOnly DEF Panic, PanicSites, TypeOK
<1> QED
  BY <1>1, <1>2, DowncastMapOnly DEF TypeOK

-----------------------------------------------------------------------------
\* Every step of the two vats keeps the state well typed.
LEMMA NextType ==
    ASSUME TypeOK, [Next]_vars PROVE TypeOK'
<1>1. CASE UNCHANGED vars
  BY <1>1 DEF vars, TypeOK
<1>2. ASSUME NEW v \in Vats, Application(v) PROVE TypeOK'
  BY <1>2, BootstrapType, BuildRequestType, SendRequestType,
     DropQuestionRefType, DropImportType DEF Application
<1>3. ASSUME NEW v \in Vats, Return(v) PROVE TypeOK'
  <2>1. Arguments(v) \subseteq Argument
    BY ApplicationChoices
  <2> QED
    BY <1>3, <2>1, ReturnCanceledType, ReturnResultsType,
       ReturnExceptionType, ReturnRedirectedType DEF Return
<1>4. ASSUME NEW v \in Vats, HandleMessage(v) PROVE TypeOK'
  BY <1>4, HandleBootstrapType, HandleCallType, HandleReturnType,
     HandleFinishType, HandleReleaseType, HandleAbortType DEF HandleMessage
<1> QED
  BY <1>1, <1>2, <1>3, <1>4, CancelCallType, InitResultsType, DowncastMapType,
     DisconnectorType, ConnectionLostType DEF Next

\* Every table, channel and flag of both vats keeps its type, whatever the
\* bounds, the capabilities and the failures: in particular no export is
\* kept with a refcount of zero and no id outside its table is ever used.
THEOREM TypeCorrect == Spec => []TypeOK
<1>1. Init => TypeOK
  BY InitType
<1>2. TypeOK /\ [Next]_vars => TypeOK'
  BY NextType
<1> QED
  BY <1>1, <1>2, PTL DEF Spec

-----------------------------------------------------------------------------
(* exports_by_cap is the inverse of exports while the connection lasts *)

Matching(ex, byCap) ==
    /\ \A c \in Caps : byCap[c] # None =>
            ex[byCap[c]] # None /\ ex[byCap[c]].cap = c
    /\ \A e \in ExportIds : ex[e] # None => byCap[ex[e].cap] = e

\* The invariant: the tables match, so write_descriptor cannot fail, so no
\* connected vat has panicked.
ExportInv == ExportsByCapExact /\ DeadConnectionPanics

\* write_descriptor neither fails on matching tables nor spoils the match.
LEMMA WriteDescriptorMatches ==
    ASSUME TypeOK, NEW v \in Vats, NEW arg \in Argument, RoomToExport(v, arg),
           ExportsMatch(v)
    PROVE  LET w == WriteDescriptor(v, arg)
           IN  ~w.panic /\ Matching(w.exports, w.byCap)
<1> DEFINE w == WriteDescriptor(v, arg)
           ex == exports[v]
           bc == exportsByCap[v]
<1> SUFFICES ~w.panic /\ Matching(w.exports, w.byCap)
  OBVIOUS
<1>0. /\ ex \in [ExportIds -> Export \cup {None}]
      /\ bc \in [Caps -> ExportIds \cup {None}]
      /\ Matching(ex, bc)
  BY DEF TypeOK, ExportsMatch, Matching
<1>1. CASE arg.kind \in {"none", "import"}
  <2>1. w.exports = ex /\ w.byCap = bc /\ ~w.panic
    BY <1>1 DEF WriteDescriptor
  <2> HIDE DEF ex, bc, w
  <2> QED
    BY <1>0, <2>1
<1>2. CASE arg.kind = "local" /\ bc[arg.id] # None
  <2> DEFINE seen == bc[arg.id]
             old == ex[seen]
             new == [old EXCEPT !.refcount = @ + 1]
  <2>1. arg.id \in Caps
    BY <1>2 DEF Argument
  <2>2. seen \in ExportIds /\ old # None /\ old \in Export
    <3> HIDE DEF ex, bc
    <3> QED BY <1>0, <1>2, <2>1 DEF Matching
  <2>3. w.exports = [ex EXCEPT ![seen] = new] /\ w.byCap = bc /\ ~w.panic
    BY <1>2, <2>2 DEF WriteDescriptor
  <2>4. new \in Export /\ new.cap = old.cap
    <3> HIDE DEF old
    <3> QED BY <2>2 DEF Export
  <2>5. new # None
    BY <2>4, NoneFacts
  <2>6. \A e \in ExportIds : /\ w.exports[e] # None <=> ex[e] # None
                             /\ ex[e] # None => w.exports[e].cap = ex[e].cap
    <3>1. old = ex[seen] OBVIOUS
    <3> HIDE DEF ex, bc, w, new, seen, old
    <3> QED BY <1>0, <2>2, <2>3, <2>4, <2>5, <3>1
  <2> HIDE DEF ex, bc, w, new, seen, old
  <2> QED
    BY <1>0, <2>3, <2>6 DEF Matching
<1>3. CASE arg.kind = "local" /\ bc[arg.id] = None
  <2> DEFINE fresh == FreeId(exports[v])
             c0 == arg.id
             new == [refcount |-> 1, cap |-> c0]
  <2>1. c0 \in Caps
    BY <1>3 DEF Argument
  <2>2. fresh \in ExportIds /\ ex[fresh] = None
    BY <1>3, FreeExportId DEF RoomToExport
  <2>3. /\ w.exports = [ex EXCEPT ![fresh] = new]
        /\ w.byCap = [bc EXCEPT ![c0] = fresh]
        /\ ~w.panic
    BY <1>3 DEF WriteDescriptor
  <2>4. new # None /\ new.cap = c0
    <3>1. new \in Export
      BY <2>1 DEF Export
    <3> QED BY <3>1, NoneFacts
  <2>5. fresh # None
    BY <2>2, NoneFacts
  <2>6. bc[c0] = None
    BY <1>3
  <2>7. \A e \in ExportIds : e # None
    BY NoneFacts
  <2>8. \A e \in ExportIds : ex[e] # None => ex[e].cap \in Caps
    <3> HIDE DEF ex
    <3> QED BY <1>0 DEF Export
  <2> HIDE DEF ex, bc, w, new, fresh, c0
  <2>9. \A c \in Caps : w.byCap[c] # None =>
            w.exports[w.byCap[c]] # None /\ w.exports[w.byCap[c]].cap = c
    BY <1>0, <2>1, <2>2, <2>3, <2>4 DEF Matching
  <2>10. \A e \in ExportIds : w.exports[e] # None => w.byCap[w.exports[e].cap] = e
    BY <1>0, <2>1, <2>2, <2>3, <2>4, <2>6, <2>7, <2>8 DEF Matching
  <2> QED
    BY <2>3, <2>9, <2>10 DEF Matching
<1> QED
  BY <1>1, <1>2, <1>3 DEF Argument

\* Neither does release_export: an export leaves both tables together.
LEMMA ReleaseMatches ==
    ASSUME TypeOK, NEW v \in Vats, NEW id \in ExportIds, NEW n \in Nat,
           MayRelease(v, id, n), Release(v, id, n), ExportsMatch(v)
    PROVE  /\ ExportsMatch(v)'
           /\ \A u \in Vats \ {v} : /\ exports'[u] = exports[u]
                                    /\ exportsByCap'[u] = exportsByCap[u]
<1> DEFINE export == exports[v][id]
           ex == exports[v]
           bc == exportsByCap[v]
<1>0. /\ ex \in [ExportIds -> Export \cup {None}]
      /\ bc \in [Caps -> ExportIds \cup {None}]
      /\ Matching(ex, bc)
      /\ export = ex[id]
  BY DEF TypeOK, ExportsMatch, Matching
<1>1. export \in Export /\ export # None
  BY NoneFacts DEF TypeOK, MayRelease
<1>2. export.cap \in Caps
  BY <1>1 DEF Export
<1>3. \A e \in ExportIds : ex[e] # None => ex[e].cap \in Caps
  <2> HIDE DEF ex
  <2> QED BY <1>0 DEF Export
<1>4. \A e \in ExportIds : e # None
  BY NoneFacts
<1>5. CASE export.refcount = n
  <2>1. /\ exports' = [exports EXCEPT ![v] = [ex EXCEPT ![id] = None]]
        /\ exportsByCap' = [exportsByCap EXCEPT ![v] =
                                [bc EXCEPT ![export.cap] = None]]
    BY <1>5 DEF Release
  <2>2. /\ exports'[v] = [ex EXCEPT ![id] = None]
        /\ exportsByCap'[v] = [bc EXCEPT ![export.cap] = None]
        /\ \A u \in Vats \ {v} : /\ exports'[u] = exports[u]
                                 /\ exportsByCap'[u] = exportsByCap[u]
    <3> HIDE DEF ex, bc, export
    <3> QED BY <2>1 DEF TypeOK
  <2> HIDE DEF ex, bc, export
  <2>3. Matching([ex EXCEPT ![id] = None], [bc EXCEPT ![export.cap] = None])
    BY <1>0, <1>1, <1>2, <1>3, <1>4 DEF Matching
  <2> QED
    BY <2>2, <2>3 DEF Matching, ExportsMatch
<1>6. CASE export.refcount # n
  <2> DEFINE new == Lowered(export, n)
  <2>1. /\ exports' = [exports EXCEPT ![v] = [ex EXCEPT ![id] = new]]
        /\ exportsByCap' = exportsByCap
    BY <1>6 DEF Release
  <2>2. new.cap = export.cap /\ new # None
    <3>1. new \in Export
      <4>1. n <= export.refcount BY DEF MayRelease
      <4> HIDE DEF export
      <4> QED BY <1>1, <1>6, <4>1 DEF Lowered, Export
    <3>2. new.cap = export.cap
      <4> HIDE DEF export
      <4> QED BY <1>1 DEF Lowered, Export
    <3> QED BY <3>1, <3>2, NoneFacts
  <2>3. /\ exports'[v] = [ex EXCEPT ![id] = new]
        /\ exportsByCap'[v] = bc
        /\ \A u \in Vats \ {v} : /\ exports'[u] = exports[u]
                                 /\ exportsByCap'[u] = exportsByCap[u]
    <3>1. exportsByCap'[v] = bc
      BY <2>1
    <3> HIDE DEF ex, bc, new
    <3> QED BY <2>1, <3>1 DEF TypeOK
  <2> HIDE DEF ex, bc, export, new
  <2>4. Matching([ex EXCEPT ![id] = new], bc)
    BY <1>0, <1>1, <2>2 DEF Matching
  <2> QED
    BY <2>3, <2>4 DEF Matching, ExportsMatch
<1> QED
  BY <1>5, <1>6

\* What a step may do to the tables, as far as ExportInv is concerned:
\* nothing; end the connection; write a descriptor; release an export;
\* panic without a connection.
LEMMA TablesUntouched ==
    ASSUME ExportInv, UNCHANGED <<connected, exports, exportsByCap, panic>>
    PROVE  ExportInv'
  BY DEF ExportInv, ExportsByCapExact, ExportsMatch, DeadConnectionPanics

\* disconnect clears only one of the tables, but ends the connection too.
LEMMA DisconnectKeeps ==
    ASSUME TypeOK, ExportInv, NEW v \in Vats, NEW ch, Disconnect(v, ch),
           UNCHANGED <<exportsByCap, panic>>
    PROVE  ExportInv'
<1>1. CASE ~connected[v]
  <2>1. UNCHANGED <<connected, exports, exportsByCap, panic>>
    BY <1>1 DEF Disconnect
  <2> QED BY <2>1, TablesUntouched
<1>2. CASE connected[v]
  <2> DEFINE none == [e \in ExportIds |-> None]
  <2>1. /\ connected' = [connected EXCEPT ![v] = FALSE]
        /\ exports' = [exports EXCEPT ![v] = none]
    BY <1>2 DEF Disconnect
  <2> HIDE DEF none
  <2>2. /\ ~connected'[v]
        /\ \A u \in Vats \ {v} : connected'[u] = connected[u]
                                 /\ exports'[u] = exports[u]
    BY <2>1 DEF TypeOK
  <2>3. ASSUME NEW u \in Vats, connected'[u] PROVE ExportsMatch(u)'
    BY <2>2, <2>3 DEF ExportInv, ExportsByCapExact, ExportsMatch
  <2>4. DeadConnectionPanics'
    BY <2>2 DEF ExportInv, DeadConnectionPanics
  <2> QED
    BY <2>3, <2>4 DEF ExportInv, ExportsByCapExact
<1> QED
  BY <1>1, <1>2

\* Writing a descriptor keeps the match, or there is no connection.
LEMMA WriteKeeps ==
    ASSUME TypeOK, ExportInv, NEW v \in Vats, NEW arg \in Argument,
           RoomToExport(v, arg),
           exports' = [exports EXCEPT ![v] = WriteDescriptor(v, arg).exports],
           exportsByCap' = [exportsByCap EXCEPT ![v] =
                                WriteDescriptor(v, arg).byCap],
           UNCHANGED <<connected, panic>>
    PROVE  ExportInv'
<1> DEFINE w == WriteDescriptor(v, arg)
<1>1. ASSUME connected[v] PROVE Matching(w.exports, w.byCap)
  BY <1>1, WriteDescriptorMatches DEF ExportInv, ExportsByCapExact
<1>2. /\ exports'[v] = w.exports /\ exportsByCap'[v] = w.byCap
      /\ \A u \in Vats \ {v} : /\ exports'[u] = exports[u]
                               /\ exportsByCap'[u] = exportsByCap[u]
  <2> DEFINE wx == w.exports
             wb == w.byCap
  <2>1. /\ exports' = [exports EXCEPT ![v] = wx]
        /\ exportsByCap' = [exportsByCap EXCEPT ![v] = wb]
    OBVIOUS
  <2> HIDE DEF wx, wb
  <2>2. /\ exports'[v] = wx /\ exportsByCap'[v] = wb
        /\ \A u \in Vats \ {v} : /\ exports'[u] = exports[u]
                                 /\ exportsByCap'[u] = exportsByCap[u]
    BY <2>1 DEF TypeOK
  <2> QED BY <2>2 DEF wx, wb
<1> HIDE DEF w
<1>3. ASSUME NEW u \in Vats, connected'[u] PROVE ExportsMatch(u)'
  <2>1. CASE u = v
    <3>1. Matching(exports'[u], exportsByCap'[u])
      BY <1>1, <1>2, <1>3, <2>1
    <3> QED BY <3>1 DEF ExportsMatch, Matching
  <2>2. CASE u # v
    BY <1>2, <1>3, <2>2 DEF ExportInv, ExportsByCapExact, ExportsMatch
  <2> QED BY <2>1, <2>2
<1>4. DeadConnectionPanics'
  BY DEF ExportInv, DeadConnectionPanics
<1> QED
  BY <1>3, <1>4 DEF ExportInv, ExportsByCapExact

\* release_export on one vat does not touch the tables of the other.
LEMMA ReleaseOthers ==
    ASSUME TypeOK, NEW v \in Vats, NEW id, NEW n, Release(v, id, n)
    PROVE  \A u \in Vats \ {v} : /\ exports'[u] = exports[u]
                                 /\ exportsByCap'[u] = exportsByCap[u]
  BY DEF TypeOK, Release

\* Releasing an export keeps the invariant.
LEMMA ReleaseKeeps ==
    ASSUME TypeOK, ExportInv, NEW v \in Vats,
           NEW id \in ExportIds, NEW n \in Nat,
           MayRelease(v, id, n), Release(v, id, n),
           UNCHANGED <<connected, panic>>
    PROVE  ExportInv'
<1>1. connected[v] => ExportsMatch(v)'
  BY ReleaseMatches DEF ExportInv, ExportsByCapExact
<1>2. /\ \A u \in Vats \ {v} : /\ exports'[u] = exports[u]
                               /\ exportsByCap'[u] = exportsByCap[u]
  BY ReleaseOthers
<1>3. ASSUME NEW u \in Vats, connected'[u] PROVE ExportsMatch(u)'
  BY <1>1, <1>2, <1>3 DEF ExportInv, ExportsByCapExact, ExportsMatch
<1>4. DeadConnectionPanics'
  BY DEF ExportInv, DeadConnectionPanics
<1> QED
  BY <1>3, <1>4 DEF ExportInv, ExportsByCapExact

\* A panic without a connection is allowed, or over a missing client.
LEMMA PanicKeeps ==
    ASSUME TypeOK, ExportInv, NEW v \in Vats, NEW site, Panic(v, site),
           ~connected[v] \/ site = "client_downcast_map",
           UNCHANGED <<connected, exports, exportsByCap>>
    PROVE  ExportInv'
<1>1. DeadConnectionPanics'
  BY DEF ExportInv, DeadConnectionPanics, Panic, TypeOK
<1> QED
  BY <1>1 DEF ExportInv, ExportsByCapExact, ExportsMatch

\* The steps that write a descriptor: send_internal, from_results_inner and
\* handle_bootstrap.
LEMMA SendRequestKeeps ==
    ASSUME TypeOK, ExportInv, NEW v \in Vats, SendRequest(v) PROVE ExportInv'
<1> DEFINE arg == built[v].arg
           w == WriteDescriptor(v, arg)
<1>1. arg \in Argument /\ RoomToExport(v, arg)
  BY DEF SendRequest, TypeOK
<1>2. CASE w.panic
  <2>1. /\ Panic(v, "write_descriptor")
        /\ UNCHANGED <<connected, exports, exportsByCap>>
    BY <1>2 DEF SendRequest
  <2>2. ~connected[v]
    <3> HIDE DEF arg
    <3> QED BY <1>1, <1>2, WriteDescriptorMatches DEF ExportInv, ExportsByCapExact
  <2> QED
    BY <2>1, <2>2, PanicKeeps
<1>3. CASE ~w.panic
  <2>1. /\ exports' = [exports EXCEPT ![v] = w.exports]
        /\ exportsByCap' = [exportsByCap EXCEPT ![v] = w.byCap]
        /\ UNCHANGED <<connected, panic>>
    BY <1>3 DEF SendRequest
  <2> HIDE DEF arg
  <2> QED
    BY <1>1, <2>1, WriteKeeps
<1> QED
  BY <1>2, <1>3

\* from_results_inner keeps the match.
LEMMA ReturnResultsKeeps ==
    ASSUME TypeOK, ExportInv, NEW v \in Vats, NEW q \in QuestionIds,
           NEW arg \in Argument, ReturnResults(v, q, arg)
    PROVE  ExportInv'
<1> DEFINE w == WriteDescriptor(v, arg)
<1>1. RoomToExport(v, arg)
  BY DEF ReturnResults
<1>2. CASE w.panic
  <2>1. /\ Panic(v, "write_descriptor")
        /\ UNCHANGED <<connected, exports, exportsByCap>>
    BY <1>2 DEF ReturnResults
  <2>2. ~connected[v]
    BY <1>1, <1>2, WriteDescriptorMatches DEF ExportInv, ExportsByCapExact
  <2> QED
    BY <2>1, <2>2, PanicKeeps
<1>3. CASE ~w.panic
  <2>1. /\ exports' = [exports EXCEPT ![v] = w.exports]
        /\ exportsByCap' = [exportsByCap EXCEPT ![v] = w.byCap]
        /\ UNCHANGED <<connected, panic>>
    BY <1>3 DEF ReturnResults
  <2> QED
    BY <1>1, <2>1, WriteKeeps
<1> QED
  BY <1>2, <1>3

\* handle_bootstrap keeps the match, and cannot panic.
LEMMA HandleBootstrapKeeps ==
    ASSUME TypeOK, ExportInv, NEW v \in Vats, HandleBootstrap(v)
    PROVE  ExportInv'
<1> DEFINE arg == [kind |-> "local", id |-> BootstrapCap]
           w == WriteDescriptor(v, arg)
           m == Incoming(v)
<1>1. arg \in Argument
  BY CapsAssumption DEF Argument
<1>2. CASE ~connected[v]
  BY <1>2, TablesUntouched DEF HandleBootstrap
<1>3. CASE connected[v] /\ w.panic
  \* The table may be full here, and still no entry that exists is missed.
  <2>1. exportsByCap[v][BootstrapCap] # None
    BY <1>3 DEF WriteDescriptor
  <2>2. RoomToExport(v, arg)
    BY <2>1 DEF RoomToExport
  <2> HIDE DEF arg
  <2> QED
    BY <1>1, <1>3, <2>2, WriteDescriptorMatches DEF ExportInv, ExportsByCapExact
<1>4. CASE connected[v] /\ ~w.panic /\ answers[v][m.q] # None
  <2>1. Disconnect(v, Drained(v)) /\ UNCHANGED <<exportsByCap, panic>>
    BY <1>4 DEF HandleBootstrap, Fail
  <2> QED
    BY <2>1, DisconnectKeeps
<1>5. CASE connected[v] /\ ~w.panic /\ answers[v][m.q] = None
  <2>1. /\ RoomToExport(v, arg)
        /\ exports' = [exports EXCEPT ![v] = w.exports]
        /\ exportsByCap' = [exportsByCap EXCEPT ![v] = w.byCap]
        /\ UNCHANGED <<connected, panic>>
    BY <1>5 DEF HandleBootstrap
  <2> HIDE DEF arg
  <2> QED
    BY <1>1, <2>1, WriteKeeps
<1> QED
  BY <1>2, <1>3, <1>4, <1>5

\* The steps that release exports: handle_finish and Release.
LEMMA HandleFinishKeeps ==
    ASSUME TypeOK, ExportInv, NEW v \in Vats, HandleFinish(v) PROVE ExportInv'
<1> DEFINE m == Incoming(v)
           a == answers[v][m.q]
           e == a.exp
           drop == a # None /\ m.release /\ e # None
<1>1. m \in Message /\ m.t = "finish"
  BY HandlingType DEF HandleFinish
<1>2. m.q \in QuestionIds
  <2> HIDE DEF m
  <2> QED BY <1>1 DEF Message
<1>3. a # None => a \in Answer
  BY <1>2 DEF TypeOK
<1>4. drop => e \in ExportIds
  <2>1. a # None => e \in ExportIds \cup {None}
    <3> HIDE DEF a
    <3> QED BY <1>3 DEF Answer
  <2> QED BY <2>1
<1>5. CASE drop /\ ~MayRelease(v, e, 1)
  <2>1. Disconnect(v, Drained(v)) /\ UNCHANGED <<exportsByCap, panic>>
    BY <1>5 DEF HandleFinish, Fail
  <2> QED
    BY <2>1, DisconnectKeeps
<1>6. CASE drop /\ MayRelease(v, e, 1)
  <2>1. Release(v, e, 1) /\ UNCHANGED <<connected, panic>>
    BY <1>6 DEF HandleFinish
  <2> HIDE DEF e
  <2> QED
    BY <1>4, <1>6, <2>1, ReleaseKeeps
<1>7. CASE ~drop
  BY <1>7, TablesUntouched DEF HandleFinish
<1> QED
  BY <1>5, <1>6, <1>7

\* The Release handler keeps the match.
LEMMA HandleReleaseKeeps ==
    ASSUME TypeOK, ExportInv, NEW v \in Vats, HandleRelease(v)
    PROVE  ExportInv'
<1> DEFINE m == Incoming(v)
<1>1. m \in Message /\ m.t = "release"
  BY HandlingType DEF HandleRelease
<1>2. m.id \in ExportIds /\ m.n \in Nat
  <2> HIDE DEF m
  <2> QED BY <1>1 DEF Message
<1>3. CASE ~MayRelease(v, m.id, m.n)
  <2>1. Disconnect(v, Drained(v)) /\ UNCHANGED <<exportsByCap, panic>>
    BY <1>3 DEF HandleRelease, Fail
  <2> QED
    BY <2>1, DisconnectKeeps
<1>4. CASE MayRelease(v, m.id, m.n)
  <2>1. Release(v, m.id, m.n) /\ UNCHANGED <<connected, panic>>
    BY <1>4 DEF HandleRelease
  <2> HIDE DEF m
  <2> QED
    BY <1>2, <1>4, <2>1, ReleaseKeeps
<1> QED
  BY <1>3, <1>4

\* The other handlers touch the tables only by ending the connection.
LEMMA OtherHandlersKeep ==
    ASSUME TypeOK, ExportInv, NEW v \in Vats,
           HandleCall(v) \/ HandleReturn(v) \/ HandleAbort(v)
                \/ Disconnector(v) \/ ConnectionLost(v)
    PROVE  ExportInv'
<1>1. \/ UNCHANGED <<connected, exports, exportsByCap, panic>>
      \/ Disconnect(v, Drained(v)) /\ UNCHANGED <<exportsByCap, panic>>
      \/ Disconnect(v, chan) /\ UNCHANGED <<exportsByCap, panic>>
  BY DEF HandleCall, HandleReturn, HandleAbort, Disconnector, ConnectionLost, Fail
<1> QED
  BY <1>1, TablesUntouched, DisconnectKeeps

\* Every step keeps the match of the two tables.
LEMMA NextExportInv ==
    ASSUME TypeOK, ExportInv, [Next]_vars PROVE ExportInv'
<1>1. CASE UNCHANGED vars
  BY <1>1, TablesUntouched DEF vars
<1>2. ASSUME NEW v \in Vats, Application(v) PROVE ExportInv'
  <2>1. ASSUME Bootstrap(v) PROVE ExportInv'
    <3>1. CASE connected[v]
      BY <2>1, <3>1, TablesUntouched DEF Bootstrap
    <3>2. CASE ~connected[v]
      BY <2>1, <3>2, PanicKeeps DEF Bootstrap
    <3> QED BY <3>1, <3>2
  <2>2. ASSUME NEW target, NEW arg, BuildRequest(v, target, arg)
        PROVE  ExportInv'
    BY <2>2, TablesUntouched DEF BuildRequest
  <2>3. ASSUME NEW q, DropQuestionRef(v, q) PROVE ExportInv'
    BY <2>3, TablesUntouched DEF DropQuestionRef
  <2>4. ASSUME NEW e, DropImport(v, e) PROVE ExportInv'
    BY <2>4, TablesUntouched DEF DropImport
  <2> QED
    BY <1>2, <2>1, <2>2, <2>3, <2>4, SendRequestKeeps DEF Application
<1>3. ASSUME NEW v \in Vats, Return(v) PROVE ExportInv'
  <2>1. Arguments(v) \subseteq Argument
    BY ApplicationChoices
  <2>2. ASSUME NEW q, NEW ok, ReturnCanceled(v, q, ok) PROVE ExportInv'
    BY <2>2, TablesUntouched DEF ReturnCanceled
  <2>3. ASSUME NEW q, ReturnException(v, q) PROVE ExportInv'
    BY <2>3, TablesUntouched DEF ReturnException
  <2>4. ASSUME NEW q, NEW ok, ReturnRedirected(v, q, ok) PROVE ExportInv'
    BY <2>4, TablesUntouched DEF ReturnRedirected
  <2> QED
    BY <1>3, <2>1, <2>2, <2>3, <2>4, ReturnResultsKeeps DEF Return
<1>4. ASSUME NEW v \in Vats, HandleMessage(v) PROVE ExportInv'
  BY <1>4, HandleBootstrapKeeps, HandleFinishKeeps, HandleReleaseKeeps,
     OtherHandlersKeep DEF HandleMessage
<1>5. ASSUME NEW v \in Vats, NEW q, CancelCall(v, q) \/ InitResults(v, q)
      PROVE  ExportInv'
  <2>1. UNCHANGED <<connected, exports, exportsByCap, panic>>
    BY <1>5 DEF CancelCall, InitResults
  <2> QED BY <2>1, TablesUntouched
<1>6. ASSUME NEW v \in Vats, DowncastMap(v) PROVE ExportInv'
  BY <1>6, DowncastMapOnly, TablesUntouched, PanicKeeps
<1> QED
  BY <1>1, <1>2, <1>3, <1>4, <1>5, <1>6, OtherHandlersKeep DEF Next

\* The tables match initially: both are empty.
LEMMA InitExportInv == Init => ExportInv
  BY NoneFacts DEF Init, InitFrom, ExportInv, ExportsByCapExact, ExportsMatch,
                   DeadConnectionPanics, Vats, PanicSites

\* While a vat is connected, exports_by_cap is exactly the inverse of
\* exports, through every interleaving of write_descriptor, release_export,
\* handle_finish and disconnect.
THEOREM ExportsMatchWhileConnected == Spec => []ExportsByCapExact
<1>1. Init => TypeOK /\ ExportInv
  BY InitType, InitExportInv
<1>2. (TypeOK /\ ExportInv) /\ [Next]_vars => (TypeOK /\ ExportInv)'
  BY NextType, NextExportInv
<1>3. ExportInv => ExportsByCapExact
  BY DEF ExportInv
<1> QED
  BY <1>1, <1>2, <1>3, PTL DEF Spec

\* A capability that is received has a client, and its import is counted
\* once more; one that is given up is missed no more.
LEMMA ReceiveNotMissed ==
    ASSUME TypeOK, NEW v \in Vats, NEW desc \in Descriptor, MissedImports,
           imports' = ReceiveCap(v, desc), stale' = ClientFound(v, desc),
           UNCHANGED panic
    PROVE  \A u \in Vats : \A e \in stale'[u] :
                imports'[u][e] # None /\ imports'[u][e] > 1
<1>1. CASE desc.kind # "senderHosted"
  BY <1>1 DEF ReceiveCap, ClientFound, MissedImports
<1>2. CASE desc.kind = "senderHosted"
  <2>1. stale' = [stale EXCEPT ![v] = @ \ {desc.id}]
    BY <1>2 DEF ClientFound
  <2>2. \A u \in Vats, e \in ExportIds : u # v \/ e # desc.id =>
            imports'[u][e] = imports[u][e]
    BY <1>2 DEF ReceiveCap, TypeOK
  <2>3. \A u \in Vats : /\ stale'[u] \subseteq stale[u]
                        /\ stale'[u] \subseteq ExportIds
                        /\ u = v => desc.id \notin stale'[u]
    BY <2>1 DEF TypeOK
  <2>4. ASSUME NEW u \in Vats, NEW e \in stale'[u]
        PROVE  imports'[u][e] # None /\ imports'[u][e] > 1
    <3>0. /\ stale'[u] \subseteq stale[u] /\ stale'[u] \subseteq ExportIds
          /\ u = v => desc.id \notin stale'[u]
      BY <2>3, <2>4
    <3>1. e \in stale[u] /\ e \in ExportIds /\ (u # v \/ e # desc.id)
      BY <3>0, <2>4
    <3>2. imports'[u][e] = imports[u][e]
      BY <2>2, <3>1
    <3> QED
      BY <3>1, <3>2 DEF MissedImports
  <2> QED
    BY <2>4
<1> QED
  BY <1>1, <1>2

\* Every step keeps MissedImports.
LEMMA NextMissed ==
    ASSUME TypeOK, MissedImports, [Next]_vars PROVE MissedImports'
<1> DEFINE same == UNCHANGED <<imports, stale>>
           site == UNCHANGED panic
                    \/ \E v \in Vats : \E x \in {"bootstrap", "write_descriptor"} :
                            Panic(v, x)
<1>1. ASSUME same, site PROVE MissedImports'
  <2>1. \A u \in Vats : panic'[u] = "client_downcast_map" =>
                            panic[u] = "client_downcast_map"
    BY <1>1 DEF Panic, TypeOK
  <2> QED
    BY <1>1, <2>1 DEF MissedImports
<1>2. ASSUME NEW v \in Vats, NEW desc \in Descriptor,
             imports' = ReceiveCap(v, desc), stale' = ClientFound(v, desc),
             UNCHANGED panic, Alive(v)
      PROVE  MissedImports'
  <2>1. \A u \in Vats : u # v => stale'[u] = stale[u]
    BY <1>2 DEF ClientFound, TypeOK
  <2>2. panic'[v] # "client_downcast_map"
    BY <1>2, NoneFacts DEF Alive, PanicSites
  <2> QED
    BY <1>2, <2>1, <2>2, ReceiveNotMissed DEF MissedImports
<1>3. CASE UNCHANGED vars
  BY <1>1, <1>3 DEF vars
<1>4. ASSUME NEW v \in Vats, NEW e \in ExportIds, DropImport(v, e)
      PROVE  MissedImports'
  <2>1. /\ imports' = [imports EXCEPT ![v][e] = None]
        /\ stale' = [stale EXCEPT ![v] = @ \ {e}]
        /\ UNCHANGED panic /\ Alive(v)
    BY <1>4 DEF DropImport
  <2>2. \A u \in Vats, d \in ExportIds : u # v \/ d # e =>
            imports'[u][d] = imports[u][d]
    BY <2>1 DEF TypeOK
  <2>3. \A u \in Vats : /\ stale'[u] \subseteq stale[u]
                        /\ stale'[u] \subseteq ExportIds
                        /\ u = v => e \notin stale'[u]
                        /\ u # v => stale'[u] = stale[u]
    BY <2>1 DEF TypeOK
  <2>4. panic'[v] # "client_downcast_map"
    BY <2>1, NoneFacts DEF Alive, PanicSites
  <2>5. ASSUME NEW u \in Vats, NEW d \in stale'[u]
        PROVE  imports'[u][d] # None /\ imports'[u][d] > 1
    <3>0. /\ stale'[u] \subseteq stale[u] /\ stale'[u] \subseteq ExportIds
          /\ u = v => e \notin stale'[u]
      BY <2>3, <2>5
    <3>1. d \in stale[u] /\ d \in ExportIds /\ (u # v \/ d # e)
      BY <3>0, <2>5
    <3>2. imports'[u][d] = imports[u][d]
      BY <2>2, <3>1
    <3> QED
      BY <3>1, <3>2 DEF MissedImports
  <2>6. ASSUME NEW u \in Vats, panic'[u] = "client_downcast_map"
        PROVE  stale'[u] # {}
    BY <2>1, <2>3, <2>4, <2>6 DEF MissedImports
  <2> QED
    BY <2>5, <2>6 DEF MissedImports
<1>5. ASSUME NEW v \in Vats, NEW e \in ExportIds, DropNewestClient(v, e)
      PROVE  MissedImports'
  <2>1. \A u \in Vats : /\ stale[u] \subseteq stale'[u]
                        /\ stale'[u] \subseteq stale[u] \cup (IF u = v THEN {e} ELSE {})
    BY <1>5 DEF DropNewestClient, TypeOK
  <2> QED
    BY <1>5, <2>1 DEF DropNewestClient, MissedImports
<1>6. ASSUME NEW v \in Vats, ClientNotFound(v) PROVE MissedImports'
  <2>1. stale[v] # {}
    BY <1>6 DEF ClientNotFound, MayDescribe
  <2>2. \A u \in Vats : u # v => panic'[u] = panic[u]
    BY <1>6 DEF ClientNotFound, Panic, TypeOK
  <2> QED
    BY <1>6, <2>1, <2>2 DEF ClientNotFound, MissedImports
<1>7. ASSUME NEW v \in Vats, Application(v) PROVE MissedImports'
  <2>1. CASE \E e \in ExportIds : DropImport(v, e)
    BY <1>4, <2>1
  <2>2. CASE Bootstrap(v) \/ SendRequest(v)
    BY <1>1, <2>2 DEF Bootstrap, SendRequest
  <2>3. CASE \/ \E target \in Targets(v), arg \in Arguments(v) :
                    BuildRequest(v, target, arg)
             \/ \E q \in QuestionIds : DropQuestionRef(v, q)
    BY <1>1, <2>3 DEF BuildRequest, DropQuestionRef
  <2> QED
    BY <1>7, <2>1, <2>2, <2>3 DEF Application
<1>8. ASSUME NEW v \in Vats, Return(v) PROVE MissedImports'
  BY <1>1, <1>8 DEF Return, ReturnCanceled, ReturnResults, ReturnException,
                    ReturnRedirected
<1>9. ASSUME NEW v \in Vats, HandleMessage(v) PROVE MissedImports'
  <2>1. Alive(v) /\ Incoming(v) \in Message
    BY <1>9, ChannelTypes
       DEF HandleMessage, HandleBootstrap, HandleCall, HandleReturn,
           HandleFinish, HandleRelease, HandleAbort, CanHandle
  <2>2. CASE HandleCall(v)
    <3>1. Incoming(v).cap \in Descriptor
      BY <2>1, <2>2 DEF HandleCall, CanHandle, Message
    <3>2. \/ UNCHANGED <<imports, stale>>
          \/ /\ imports' = ReceiveCap(v, Incoming(v).cap)
             /\ stale' = ClientFound(v, Incoming(v).cap)
      BY <2>2 DEF HandleCall
    <3>3. UNCHANGED panic
      BY <2>2 DEF HandleCall
    <3> QED
      BY <1>1, <1>2, <2>1, <3>1, <3>2, <3>3
  <2>3. CASE HandleReturn(v)
    <3>1. Incoming(v).cap \in Descriptor
      BY <2>1, <2>3 DEF HandleReturn, CanHandle, Message
    <3>2. \/ UNCHANGED <<imports, stale>>
          \/ /\ imports' = ReceiveCap(v, Incoming(v).cap)
             /\ stale' = ClientFound(v, Incoming(v).cap)
      BY <2>3 DEF HandleReturn
    <3>3. UNCHANGED panic
      BY <2>3 DEF HandleReturn
    <3> QED
      BY <1>1, <1>2, <2>1, <3>1, <3>2, <3>3
  <2>4. CASE HandleBootstrap(v)
    BY <1>1, <2>4 DEF HandleBootstrap
  <2>5. CASE HandleFinish(v) \/ HandleRelease(v) \/ HandleAbort(v)
    BY <1>1, <2>5 DEF HandleFinish, HandleRelease, HandleAbort
  <2> QED
    BY <1>9, <2>2, <2>3, <2>4, <2>5 DEF HandleMessage
<1>10. ASSUME NEW v \in Vats, NEW q \in QuestionIds,
              \/ CancelCall(v, q) \/ InitResults(v, q)
              \/ Disconnector(v) \/ ConnectionLost(v)
       PROVE  MissedImports'
  BY <1>1, <1>10 DEF CancelCall, InitResults, Disconnector, ConnectionLost
<1>11. \E q \in QuestionIds : TRUE
  BY BoundsAssumption DEF QuestionIds
<1> QED
  BY <1>3, <1>5, <1>6, <1>7, <1>8, <1>9, <1>10, <1>11 DEF Next, DowncastMap

\* The unwrap() that fails in write_descriptor and the panic of bootstrap
\* are reached only after disconnect; the client of an import is missed only
\* if the import was received more than once.
THEOREM PanicsAreExplained == Spec => []PanicsExplained
<1>1. Init => TypeOK /\ ExportInv /\ MissedImports
  <2>1. Init => MissedImports
    BY NoneFacts DEF Init, InitFrom, MissedImports, PanicSites
  <2> QED
    BY <2>1, InitType, InitExportInv
<1>2. (TypeOK /\ ExportInv /\ MissedImports) /\ [Next]_vars
            => (TypeOK /\ ExportInv /\ MissedImports)'
  BY NextType, NextExportInv, NextMissed
<1>3. ExportInv /\ MissedImports => PanicsExplained
  BY DEF ExportInv, PanicsExplained
<1> QED
  BY <1>1, <1>2, <1>3, PTL DEF Spec

-----------------------------------------------------------------------------
(* disconnect leaves nobody waiting *)

\* disconnect rejects the questions that have a QuestionRef.  That these
\* are all the pending ones is what the induction needs: a pending question
\* has its QuestionRef, and without a connection it was sent too late.
SettledQuestion(up, question) ==
    question # None /\ question.pending => question.ref /\ (up \/ question.lost)
SettleInv ==
    \A v \in Vats, q \in QuestionIds :
        SettledQuestion(connected[v], questions[v][q])

\* A step that leaves the questions and the connection alone keeps it.
LEMMA QuestionsUntouched ==
    ASSUME SettleInv, UNCHANGED <<connected, questions>> PROVE SettleInv'
  BY DEF SettleInv, SettledQuestion

\* A step that replaces one question by a settled one keeps it.
LEMMA QuestionReplaced ==
    ASSUME TypeOK, SettleInv, NEW v \in Vats, NEW q \in QuestionIds, NEW x,
           questions' = [questions EXCEPT ![v][q] = x], UNCHANGED connected,
           SettledQuestion(connected[v], x)
    PROVE  SettleInv'
<1> SUFFICES ASSUME NEW u \in Vats, NEW r \in QuestionIds
             PROVE  SettledQuestion(connected[u], questions'[u][r])
  BY DEF SettleInv
<1>1. questions'[u][r] = IF u = v /\ r = q THEN x ELSE questions[u][r]
  BY DEF TypeOK
<1> QED
  BY <1>1 DEF SettleInv

\* disconnect rejects every question that has a QuestionRef.
LEMMA DisconnectSettlesAll ==
    ASSUME TypeOK, SettleInv, NEW v \in Vats, NEW ch, Disconnect(v, ch)
    PROVE  SettleInv'
<1>1. CASE ~connected[v]
  BY <1>1, QuestionsUntouched DEF Disconnect
<1>2. CASE connected[v]
  <2> DEFINE rejected == [q \in QuestionIds |-> Rejected(questions[v][q])]
  <2>1. /\ connected' = [connected EXCEPT ![v] = FALSE]
        /\ questions' = [questions EXCEPT ![v] = rejected]
    BY <1>2 DEF Disconnect
  <2>2. ASSUME NEW q \in QuestionIds
        PROVE  rejected[q] # None => ~rejected[q].pending
    <3> DEFINE question == questions[v][q]
    <3>1. rejected[q] = Rejected(question)
      OBVIOUS
    <3>2. SettledQuestion(connected[v], question)
      BY DEF SettleInv
    <3>3. question \in Question \cup {None}
      BY DEF TypeOK
    <3> HIDE DEF rejected, question
    <3>4. CASE question = None
      BY <3>1, <3>4 DEF Rejected
    <3>5. CASE question \in Question /\ question.ref
      <4>1. rejected[q] = [question EXCEPT !.pending = FALSE]
        BY <3>1, <3>5, NoneFacts DEF Rejected
      <4> QED
        BY <4>1, <3>5 DEF Question
    <3>6. CASE question \in Question /\ ~question.ref
      BY <3>1, <3>2, <3>6, NoneFacts DEF Rejected, SettledQuestion
    <3> QED
      BY <3>3, <3>4, <3>5, <3>6
  <2> HIDE DEF rejected
  <2> SUFFICES ASSUME NEW u \in Vats, NEW r \in QuestionIds
               PROVE  SettledQuestion(connected'[u], questions'[u][r])
    BY DEF SettleInv
  <2>3. CASE u = v
    <3>1. questions'[u][r] = rejected[r]
      BY <2>1, <2>3 DEF TypeOK
    <3> QED
      BY <2>2, <3>1 DEF SettledQuestion
  <2>4. CASE u # v
    <3>1. questions'[u] = questions[u] /\ connected'[u] = connected[u]
      BY <2>1, <2>4 DEF TypeOK
    <3> QED
      BY <3>1 DEF SettleInv
  <2> QED
    BY <2>3, <2>4
<1> QED
  BY <1>1, <1>2

\* A new question is sent over the connection, or is marked lost.
LEMMA AskSettles ==
    ASSUME TypeOK, SettleInv, NEW v \in Vats, MayAsk(v), Ask(v),
           UNCHANGED connected
    PROVE  SettleInv'
<1>1. FreeId(questions[v]) \in QuestionIds
  BY FreeQuestionId DEF MayAsk
<1>2. SettledQuestion(connected[v], NewQuestion(v))
  BY DEF SettledQuestion, NewQuestion
<1>3. questions' = [questions EXCEPT ![v][FreeId(questions[v])] = NewQuestion(v)]
  BY DEF Ask
<1> QED
  BY <1>1, <1>2, <1>3, QuestionReplaced

\* QuestionRef::drop takes the fulfiller with it.
LEMMA DropSettles ==
    ASSUME TypeOK, SettleInv, NEW v \in Vats, NEW q \in QuestionIds,
           DropQuestionRef(v, q)
    PROVE  SettleInv'
<1> DEFINE question == questions[v][q]
<1>1. question \in Question
  BY DEF DropQuestionRef, TypeOK
<1>2. SettledQuestion(connected[v], Dropped(question))
  <2> HIDE DEF question
  <2>1. CASE question.awaiting
    <3>1. Dropped(question) = [question EXCEPT !.ref = FALSE, !.pending = FALSE]
      BY <2>1 DEF Dropped
    <3>2. Dropped(question).pending = FALSE
      BY <1>1, <3>1 DEF Question
    <3> QED
      BY <3>2 DEF SettledQuestion
  <2>2. CASE ~question.awaiting
    BY <2>2 DEF Dropped, SettledQuestion
  <2> QED
    BY <2>1, <2>2
<1>3. /\ questions' = [questions EXCEPT ![v][q] = Dropped(question)]
      /\ UNCHANGED connected
  BY DEF DropQuestionRef
<1> HIDE DEF question
<1> QED
  BY <1>2, <1>3, QuestionReplaced

\* A Return settles its question or, if canceled, leaves it as it was.
LEMMA ReturnSettles ==
    ASSUME TypeOK, SettleInv, NEW v \in Vats, HandleReturn(v)
    PROVE  SettleInv'
<1> DEFINE m == Incoming(v)
           question == questions[v][m.q]
           skip == SkipFinish(question, m)
           returned == [question EXCEPT !.awaiting = FALSE, !.skip = skip]
           next == IF ~question.ref THEN None
                   ELSE IF m.which = "canceled" THEN returned
                   ELSE [returned EXCEPT !.pending = FALSE]
<1>1. m \in Message /\ m.t = "return"
  BY HandlingType DEF HandleReturn
<1>2. m.q \in QuestionIds
  <2> HIDE DEF m
  <2> QED BY <1>1 DEF Message
<1>3. CASE question = None
  <2>1. Disconnect(v, Drained(v))
    BY <1>3 DEF HandleReturn, Fail
  <2> QED
    BY <2>1, DisconnectSettlesAll
<1>4. CASE question # None
  <2>1. /\ questions' = [questions EXCEPT ![v][m.q] = next]
        /\ UNCHANGED connected
    BY <1>4 DEF HandleReturn
  <2>2. question \in Question
    BY <1>2, <1>4 DEF TypeOK
  <2>3. SettledQuestion(connected[v], question)
    BY <1>2 DEF SettleInv
  <2> HIDE DEF question, skip
  <2>4. /\ returned.pending = question.pending /\ returned.ref = question.ref
        /\ returned.lost = question.lost
        /\ [returned EXCEPT !.pending = FALSE].pending = FALSE
    BY <2>2 DEF Question
  <2>5. question # None
    BY <2>2, NoneFacts
  <2> HIDE DEF returned
  <2>6. SettledQuestion(connected[v], next)
    BY <2>3, <2>4, <2>5 DEF SettledQuestion
  <2> HIDE DEF next, m
  <2> QED
    BY <1>2, <2>1, <2>6, QuestionReplaced
<1> QED
  BY <1>3, <1>4

\* The other handlers touch the questions only by ending the connection.
LEMMA OtherHandlersSettle ==
    ASSUME TypeOK, SettleInv, NEW v \in Vats,
           \/ HandleBootstrap(v) \/ HandleCall(v) \/ HandleFinish(v)
           \/ HandleRelease(v) \/ HandleAbort(v)
           \/ Disconnector(v) \/ ConnectionLost(v)
    PROVE  SettleInv'
<1>1. \/ UNCHANGED <<connected, questions>>
      \/ Disconnect(v, Drained(v))
      \/ Disconnect(v, chan)
  BY DEF HandleBootstrap, HandleCall, HandleFinish, HandleRelease, HandleAbort,
         Disconnector, ConnectionLost, Fail
<1> QED
  BY <1>1, QuestionsUntouched, DisconnectSettlesAll

\* Every step keeps the settlement invariant.
LEMMA NextSettleInv ==
    ASSUME TypeOK, SettleInv, [Next]_vars PROVE SettleInv'
<1>1. CASE UNCHANGED vars
  BY <1>1, QuestionsUntouched DEF vars
<1>2. ASSUME NEW v \in Vats, Application(v) PROVE SettleInv'
  <2>1. ASSUME Bootstrap(v) PROVE SettleInv'
    <3>1. CASE connected[v]
      BY <2>1, <3>1, AskSettles DEF Bootstrap
    <3>2. CASE ~connected[v]
      BY <2>1, <3>2, QuestionsUntouched DEF Bootstrap
    <3> QED BY <3>1, <3>2
  <2>2. ASSUME SendRequest(v) PROVE SettleInv'
    <3>1. CASE WriteDescriptor(v, built[v].arg).panic
      BY <2>2, <3>1, QuestionsUntouched DEF SendRequest
    <3>2. CASE ~WriteDescriptor(v, built[v].arg).panic
      BY <2>2, <3>2, AskSettles DEF SendRequest
    <3> QED BY <3>1, <3>2
  <2>3. ASSUME NEW target, NEW arg, BuildRequest(v, target, arg)
        PROVE  SettleInv'
    BY <2>3, QuestionsUntouched DEF BuildRequest
  <2>4. ASSUME NEW e, DropImport(v, e) PROVE SettleInv'
    BY <2>4, QuestionsUntouched DEF DropImport
  <2> QED
    BY <1>2, <2>1, <2>2, <2>3, <2>4, DropSettles DEF Application
<1>3. ASSUME NEW v \in Vats, Return(v) PROVE SettleInv'
  <2>1. UNCHANGED <<connected, questions>>
    BY <1>3 DEF Return, ReturnCanceled, ReturnResults, ReturnException,
                ReturnRedirected
  <2> QED BY <2>1, QuestionsUntouched
<1>4. ASSUME NEW v \in Vats, HandleMessage(v) PROVE SettleInv'
  BY <1>4, ReturnSettles, OtherHandlersSettle DEF HandleMessage
<1>5. ASSUME NEW v \in Vats, NEW q, CancelCall(v, q) \/ InitResults(v, q)
      PROVE  SettleInv'
  <2>1. UNCHANGED <<connected, questions>>
    BY <1>5 DEF CancelCall, InitResults
  <2> QED BY <2>1, QuestionsUntouched
<1>6. ASSUME NEW v \in Vats, DowncastMap(v) PROVE SettleInv'
  BY <1>6, DowncastMapOnly, QuestionsUntouched
<1> QED
  BY <1>1, <1>2, <1>3, <1>4, <1>5, <1>6, OtherHandlersSettle DEF Next

\* Once a vat has lost its connection, disconnect has rejected every call
\* that had been sent over it and was still waiting: the only promises left
\* unsettled are those of requests sent afterwards.
THEOREM DisconnectSettlesCalls == Spec => []DisconnectSettles
<1>1. Init => TypeOK /\ SettleInv
  <2>1. Init => SettleInv
    BY DEF Init, InitFrom, SettleInv, SettledQuestion
  <2> QED BY <2>1, InitType
<1>2. (TypeOK /\ SettleInv) /\ [Next]_vars => (TypeOK /\ SettleInv)'
  BY NextType, NextSettleInv
<1>3. SettleInv => DisconnectSettles
  BY DEF SettleInv, SettledQuestion, DisconnectSettles
<1> QED
  BY <1>1, <1>2, <1>3, PTL DEF Spec

-----------------------------------------------------------------------------
(* Question ids *)

AskFor(m, q) == m.t \in {"bootstrap", "call"} /\ m.q = q
FinishOf(m, q) == m.t = "finish" /\ m.q = q
ReturnTo(m, q) == m.t = "return" /\ m.q = q
PipedTo(m, q) ==
    m.t = "call" /\ m.target.kind = "promisedAnswer" /\ m.target.id = q

\* An answer whose Return has not been sent.
Open(an) == an.status \in {"new", "init"}

\* x, which has a call number, is about the question qn.
About(x, qn) == qn # None /\ x.call = qn.call

\* In what follows qn is the caller's entry under id q, n how many questions
\* the caller has asked, an the callee's entry, out what the caller has sent
\* and in what the callee has sent.

QuestionOK(qn, n) ==
    qn # None => /\ qn.call <= n
                 /\ ~ qn.awaiting => qn.ref
                 /\ qn.awaiting => ~ qn.skip

\* The call under id q is on its way: nothing else about it has happened,
\* except that the caller may have dropped it.
AskOK(qn, an, out, in, q) ==
    \A i \in 1 .. Len(out) : AskFor(out[i], q) =>
        /\ About(out[i], qn) /\ qn.awaiting
        /\ \A j \in 1 .. Len(out) : AskFor(out[j], q) => j = i
        /\ \A j \in 1 .. Len(in) : ~ ReturnTo(in[j], q)
        /\ an # None => an.call # qn.call
        /\ qn.ref \/ \E j \in 1 .. Len(out) : FinishOf(out[j], q) /\ About(out[j], qn)

\* The Return is on its way: the question still awaits it.
ReturnOK(qn, an, in, q) ==
    \A i \in 1 .. Len(in) : ReturnTo(in[i], q) =>
        /\ About(in[i], qn) /\ qn.awaiting
        /\ \A j \in 1 .. Len(in) : ReturnTo(in[j], q) => j = i
        /\ in[i].nofinish => an = None
        /\ in[i].which = "canceled" => ~ qn.ref

\* A Finish is about a dropped question that awaits its Return, and behind
\* its call; or about a former question, and ahead of the next call.
FinishOK(qn, n, out, q) ==
    \A i \in 1 .. Len(out) : FinishOf(out[i], q) =>
        /\ out[i].call <= n
        /\ About(out[i], qn) =>
            /\ qn.awaiting /\ ~ qn.ref
            /\ \A j \in 1 .. Len(out) : AskFor(out[j], q) => j < i
        /\ ~ About(out[i], qn) =>
            /\ \A j \in 1 .. Len(out) : AskFor(out[j], q) => i < j
            /\ qn # None => /\ out[i].call < qn.call
                            /\ \E j \in 1 .. Len(out) : AskFor(out[j], q)
        /\ \A j \in 1 .. Len(out) :
            FinishOf(out[j], q) /\ (About(out[j], qn) <=> About(out[i], qn)) => j = i

\* An answer is about the question, or about a former one whose Finish is on
\* its way.
AnswerOK(qn, an, out, in, q) ==
    an # None =>
        /\ an.status # "redirected"
        /\ About(an, qn) =>
            /\ Open(an) => qn.awaiting /\ \A j \in 1 .. Len(in) : ~ ReturnTo(in[j], q)
            /\ Open(an) /\ an.finish =>
                ~ qn.ref /\ \A j \in 1 .. Len(out) : ~ FinishOf(out[j], q)
            /\ qn.awaiting /\ ~ (Open(an) /\ an.finish) =>
                qn.ref \/ \E j \in 1 .. Len(out) : FinishOf(out[j], q)
            /\ ~ Open(an) /\ ~ qn.awaiting => ~ qn.skip
        /\ ~ About(an, qn) =>
            /\ ~ Open(an)
            /\ \E j \in 1 .. Len(out) : FinishOf(out[j], q) /\ out[j].call = an.call

\* A call pipelined on the results of q meets their answer, or none: an older
\* answer is finished ahead of it, and no newer call is.
PipedOK(qn, an, n, out, q, i) ==
    /\ out[i].target.call <= n
    /\ qn # None => out[i].target.call <= qn.call
    /\ \A k \in 1 .. i - 1 :
        /\ AskFor(out[k], q) => out[k].call = out[i].target.call
        /\ FinishOf(out[k], q) => out[k].call < out[i].target.call
    /\ an # None /\ an.call # out[i].target.call =>
        /\ an.call < out[i].target.call
        /\ \E k \in 1 .. i - 1 : FinishOf(out[k], q) /\ out[k].call = an.call
PipeOK(qn, an, n, out, q) ==
    \A i \in 1 .. Len(out) : PipedTo(out[i], q) => PipedOK(qn, an, n, out, q, i)

SlotOK(qn, an, n, out, in, q) ==
    /\ QuestionOK(qn, n)
    /\ AskOK(qn, an, out, in, q)
    /\ ReturnOK(qn, an, in, q)
    /\ FinishOK(qn, n, out, q)
    /\ AnswerOK(qn, an, out, in, q)
    /\ PipeOK(qn, an, n, out, q)

Slot(v, q) ==
    SlotOK(questions[v][q], answers[Peer(v)][q], issued[v], chan[v],
           chan[Peer(v)], q)

\* The target of a request that is not sent yet is kept.
BuiltOK(v) ==
    built[v] # None /\ built[v].target.kind = "promisedAnswer" =>
        /\ About(built[v].target, questions[v][built[v].target.id])
        /\ questions[v][built[v].target.id].ref

IdsInv ==
    /\ TypeOK
    /\ \A v \in Vats : connected[v] => loop[v]
    /\ BothConnected => \A v \in Vats : /\ BuiltOK(v)
                                        /\ \A q \in QuestionIds : Slot(v, q)

-----------------------------------------------------------------------------
(* Channels *)

\* after is before with m at its end.
Longer(before, after, m) ==
    /\ Len(before) \in Nat /\ Len(after) = Len(before) + 1
    /\ \A i \in 1 .. Len(before) : after[i] = before[i]
    /\ after[Len(before) + 1] = m

\* after is before without its head m.
Shorter(before, after, m) ==
    /\ Len(after) \in Nat /\ Len(before) = Len(after) + 1
    /\ before[1] = m
    /\ \A i \in 1 .. Len(after) : after[i] = before[i + 1]

\* Sending a message puts it at the end of the channel.
LEMMA LongerByAppend ==
    ASSUME NEW s \in Seq(Message), NEW m \in Message
    PROVE  Longer(s, Append(s, m), m) /\ Append(s, m) \in Seq(Message)
  BY DEF Longer

\* Handling a message takes it from the head of the channel.
LEMMA ShorterByTail ==
    ASSUME NEW s \in Seq(Message), s # << >>
    PROVE  Shorter(s, Tail(s), Head(s)) /\ Tail(s) \in Seq(Message)
  BY DEF Shorter

\* The call numbers of messages are numbers.
LEMMA CallNumbers ==
    ASSUME NEW s \in Seq(Message), NEW q
    PROVE  \A i \in 1 .. Len(s) :
            /\ AskFor(s[i], q) \/ FinishOf(s[i], q) \/ ReturnTo(s[i], q) => s[i].call \in Nat
            /\ PipedTo(s[i], q) => s[i].target.call \in Nat
<1> SUFFICES ASSUME NEW i \in 1 .. Len(s)
             PROVE  /\ AskFor(s[i], q) \/ FinishOf(s[i], q) \/ ReturnTo(s[i], q) => s[i].call \in Nat
                    /\ PipedTo(s[i], q) => s[i].target.call \in Nat
  OBVIOUS
<1>1. s[i] \in Message
  OBVIOUS
<1> QED
  BY <1>1 DEF Message, Target, AskFor, FinishOf, ReturnTo, PipedTo

\* The places of a longer channel.
LEMMA LongerPlaces ==
    ASSUME NEW s, NEW s2, NEW m, Longer(s, s2, m)
    PROVE  /\ \A i \in 1 .. Len(s2) : (i \in 1 .. Len(s) /\ s2[i] = s[i])
                                    \/ (i = Len(s) + 1 /\ s2[i] = m)
           /\ \A i \in 1 .. Len(s) : i \in 1 .. Len(s2) /\ s2[i] = s[i] /\ i < Len(s) + 1
           /\ Len(s) + 1 \in 1 .. Len(s2)
  BY DEF Longer

\* The places of a shorter channel.
LEMMA ShorterPlaces ==
    ASSUME NEW s, NEW s2, NEW m, Shorter(s, s2, m)
    PROVE  /\ \A i \in 1 .. Len(s) : \/ i = 1 /\ s[i] = m
                                   \/ (i - 1 \in 1 .. Len(s2) /\ s[i] = s2[i - 1])
           /\ \A i \in 1 .. Len(s2) : i + 1 \in 1 .. Len(s) /\ s2[i] = s[i + 1]
           /\ 1 \in 1 .. Len(s)
  BY DEF Shorter

\* What is ahead of place i of a shorter channel was ahead of place i + 1.
LEMMA ShorterAhead ==
    ASSUME NEW s, NEW s2, NEW m, Shorter(s, s2, m), NEW i \in 1 .. Len(s2)
    PROVE  /\ i + 1 \in 1 .. Len(s) /\ s2[i] = s[i + 1]
           /\ 1 \in 1 .. (i + 1) - 1 /\ s[1] = m
           /\ \A k \in 1 .. i - 1 : k + 1 \in 1 .. (i + 1) - 1 /\ s2[k] = s[k + 1]
           /\ \A k \in 1 .. (i + 1) - 1 :
                k = 1 \/ (k - 1 \in 1 .. i - 1 /\ s[k] = s2[k - 1])
<1>1. Len(s2) \in Nat /\ i \in Nat /\ 1 \in 1 .. (i + 1) - 1 /\ s[1] = m
  BY DEF Shorter
<1>2. \A k \in 1 .. Len(s2) : k + 1 \in 1 .. Len(s) /\ s2[k] = s[k + 1]
  BY ShorterPlaces
<1>3. ASSUME NEW k \in 1 .. i - 1
      PROVE  k + 1 \in 1 .. (i + 1) - 1 /\ s2[k] = s[k + 1]
  <2>1. k \in 1 .. Len(s2) /\ k + 1 \in 1 .. (i + 1) - 1
    BY <1>1
  <2> QED
    BY <1>2, <2>1
<1>4. ASSUME NEW k \in 1 .. (i + 1) - 1, k # 1
      PROVE  k - 1 \in 1 .. i - 1 /\ s[k] = s2[k - 1]
  <2>1. k \in Nat /\ 1 < k /\ k <= i /\ i <= Len(s2)
    BY <1>1, <1>4
  <2>2. k - 1 \in 1 .. i - 1 /\ k - 1 \in 1 .. Len(s2) /\ (k - 1) + 1 = k
    BY <1>1, <2>1
  <2> QED
    BY <1>2, <2>2
<1> QED
  BY <1>1, <1>2, <1>3, <1>4

-----------------------------------------------------------------------------
(* What leaves SlotOK true *)

\* The caller sends something that is not about q.
LEMMA OtherSent ==
    ASSUME NEW qn, NEW an, NEW n, NEW out, NEW in, NEW q, NEW out2, NEW m,
           SlotOK(qn, an, n, out, in, q), Longer(out, out2, m),
           ~ AskFor(m, q), ~ FinishOf(m, q), ~ PipedTo(m, q)
    PROVE  SlotOK(qn, an, n, out2, in, q)
<1>1. /\ \A i \in 1 .. Len(out2) : (i \in 1 .. Len(out) /\ out2[i] = out[i])
                                  \/ (i = Len(out) + 1 /\ out2[i] = m)
      /\ \A i \in 1 .. Len(out) : i \in 1 .. Len(out2) /\ out2[i] = out[i]
  BY LongerPlaces
<1>2. QuestionOK(qn, n) /\ ReturnOK(qn, an, in, q)
  BY DEF SlotOK
<1>3. AskOK(qn, an, out2, in, q)
  BY <1>1 DEF SlotOK, AskOK
<1>4. FinishOK(qn, n, out2, q)
  BY <1>1 DEF SlotOK, FinishOK
<1>5. AnswerOK(qn, an, out2, in, q)
  BY <1>1 DEF SlotOK, AnswerOK
<1>6. PipeOK(qn, an, n, out2, q)
  <2> SUFFICES ASSUME NEW i \in 1 .. Len(out2), PipedTo(out2[i], q)
               PROVE  PipedOK(qn, an, n, out2, q, i)
    BY DEF PipeOK
  <2>1. i \in 1 .. Len(out) /\ out2[i] = out[i]
    BY <1>1
  <2>2. \A k \in 1 .. i - 1 : out2[k] = out[k]
    BY <1>1, <2>1 DEF Longer
  <2> QED
    BY <2>1, <2>2 DEF SlotOK, PipeOK, PipedOK
<1> QED
  BY <1>2, <1>3, <1>4, <1>5, <1>6 DEF SlotOK

\* The callee sends something that is not a Return to q.
LEMMA OtherAnswered ==
    ASSUME NEW qn, NEW an, NEW n, NEW out, NEW in, NEW q, NEW in2, NEW m,
           SlotOK(qn, an, n, out, in, q), Longer(in, in2, m), ~ ReturnTo(m, q)
    PROVE  SlotOK(qn, an, n, out, in2, q)
<1>1. /\ \A i \in 1 .. Len(in2) : (i \in 1 .. Len(in) /\ in2[i] = in[i])
                                 \/ (i = Len(in) + 1 /\ in2[i] = m)
      /\ \A i \in 1 .. Len(in) : i \in 1 .. Len(in2) /\ in2[i] = in[i]
  BY LongerPlaces
<1>2. QuestionOK(qn, n) /\ FinishOK(qn, n, out, q) /\ PipeOK(qn, an, n, out, q)
  BY DEF SlotOK
<1>3. AskOK(qn, an, out, in2, q)
  BY <1>1 DEF SlotOK, AskOK
<1>4. ReturnOK(qn, an, in2, q)
  BY <1>1 DEF SlotOK, ReturnOK
<1>5. AnswerOK(qn, an, out, in2, q)
  BY <1>1 DEF SlotOK, AnswerOK
<1> QED
  BY <1>2, <1>3, <1>4, <1>5 DEF SlotOK

\* The callee handles something that is not about q.
LEMMA OtherTaken ==
    ASSUME NEW qn, NEW an, NEW n, NEW out, NEW in, NEW q, NEW out2, NEW m,
           SlotOK(qn, an, n, out, in, q), Shorter(out, out2, m),
           ~ AskFor(m, q), ~ FinishOf(m, q)
    PROVE  SlotOK(qn, an, n, out2, in, q)
<1>1. /\ \A i \in 1 .. Len(out) : \/ i = 1 /\ out[i] = m
                                 \/ (i - 1 \in 1 .. Len(out2) /\ out[i] = out2[i - 1])
      /\ \A i \in 1 .. Len(out2) : i + 1 \in 1 .. Len(out) /\ out2[i] = out[i + 1]
  BY ShorterPlaces
<1>2. QuestionOK(qn, n) /\ ReturnOK(qn, an, in, q)
  BY DEF SlotOK
<1>3. AskOK(qn, an, out2, in, q)
  BY <1>1 DEF SlotOK, AskOK
<1>4. FinishOK(qn, n, out2, q)
  BY <1>1 DEF SlotOK, FinishOK
<1>5. AnswerOK(qn, an, out2, in, q)
  BY <1>1 DEF SlotOK, AnswerOK
<1>6. PipeOK(qn, an, n, out2, q)
  <2> SUFFICES ASSUME NEW i \in 1 .. Len(out2), PipedTo(out2[i], q)
               PROVE  PipedOK(qn, an, n, out2, q, i)
    BY DEF PipeOK
  <2>1. i + 1 \in 1 .. Len(out) /\ out2[i] = out[i + 1]
    BY <1>1
  <2>2. PipedOK(qn, an, n, out, q, i + 1)
    BY <2>1 DEF SlotOK, PipeOK
  <2>3. /\ \A k \in 1 .. i - 1 : k + 1 \in 1 .. (i + 1) - 1 /\ out2[k] = out[k + 1]
        /\ \A k \in 1 .. (i + 1) - 1 :
            k = 1 \/ (k - 1 \in 1 .. i - 1 /\ out[k] = out2[k - 1])
    BY ShorterAhead
  <2>5. \A k \in 1 .. i - 1 :
          /\ AskFor(out2[k], q) => out2[k].call = out2[i].target.call
          /\ FinishOf(out2[k], q) => out2[k].call < out2[i].target.call
    <3> SUFFICES ASSUME NEW k \in 1 .. i - 1
                 PROVE  /\ AskFor(out2[k], q) => out2[k].call = out2[i].target.call
                        /\ FinishOf(out2[k], q) => out2[k].call < out2[i].target.call
      OBVIOUS
    <3>1. k + 1 \in 1 .. (i + 1) - 1 /\ out2[k] = out[k + 1]
      BY <2>3
    <3>2. /\ AskFor(out[k + 1], q) => out[k + 1].call = out[i + 1].target.call
          /\ FinishOf(out[k + 1], q) => out[k + 1].call < out[i + 1].target.call
      BY <2>2, <3>1 DEF PipedOK
    <3> QED
      BY <2>1, <3>1, <3>2
  <2>6. an # None /\ an.call # out2[i].target.call =>
          /\ an.call < out2[i].target.call
          /\ \E k \in 1 .. i - 1 : FinishOf(out2[k], q) /\ out2[k].call = an.call
    <3> SUFFICES ASSUME an # None, an.call # out2[i].target.call
                 PROVE  /\ an.call < out2[i].target.call
                        /\ \E k \in 1 .. i - 1 : FinishOf(out2[k], q) /\ out2[k].call = an.call
      OBVIOUS
    <3>1. PICK k \in 1 .. (i + 1) - 1 : FinishOf(out[k], q) /\ out[k].call = an.call
      BY <2>1, <2>2 DEF PipedOK
    <3>2. k # 1
      BY <1>1, <3>1 DEF Shorter
    <3> QED
      BY <2>1, <2>2, <2>3, <3>1, <3>2 DEF PipedOK
  <2> QED
    BY <2>1, <2>2, <2>5, <2>6 DEF PipedOK
<1> QED
  BY <1>2, <1>3, <1>4, <1>5, <1>6 DEF SlotOK

\* The caller handles something that is not a Return to q.
LEMMA OtherReceived ==
    ASSUME NEW qn, NEW an, NEW n, NEW out, NEW in, NEW q, NEW in2, NEW m,
           SlotOK(qn, an, n, out, in, q), Shorter(in, in2, m), ~ ReturnTo(m, q)
    PROVE  SlotOK(qn, an, n, out, in2, q)
<1>1. /\ \A i \in 1 .. Len(in) : \/ i = 1 /\ in[i] = m
                                \/ (i - 1 \in 1 .. Len(in2) /\ in[i] = in2[i - 1])
      /\ \A i \in 1 .. Len(in2) : i + 1 \in 1 .. Len(in) /\ in2[i] = in[i + 1]
  BY ShorterPlaces
<1>2. QuestionOK(qn, n) /\ FinishOK(qn, n, out, q) /\ PipeOK(qn, an, n, out, q)
  BY DEF SlotOK
<1>3. AskOK(qn, an, out, in2, q)
  BY <1>1 DEF SlotOK, AskOK
<1>4. ReturnOK(qn, an, in2, q)
  BY <1>1 DEF SlotOK, ReturnOK
<1>5. AnswerOK(qn, an, out, in2, q)
  BY <1>1 DEF SlotOK, AnswerOK
<1> QED
  BY <1>2, <1>3, <1>4, <1>5 DEF SlotOK

\* Something about the answer changes that SlotOK does not look at.
LEMMA SameAnswer ==
    ASSUME NEW qn, NEW an, NEW n, NEW out, NEW in, NEW q, NEW an2,
           SlotOK(qn, an, n, out, in, q), an # None, an2 # None,
           an2.call = an.call, an2.finish = an.finish, an2.status # "redirected",
           Open(an2) <=> Open(an)
    PROVE  SlotOK(qn, an2, n, out, in, q)
<1>1. About(an2, qn) <=> About(an, qn)
  BY DEF About
<1>2. AskOK(qn, an2, out, in, q) /\ ReturnOK(qn, an2, in, q)
  BY DEF SlotOK, AskOK, ReturnOK
<1>3. AnswerOK(qn, an2, out, in, q)
  BY <1>1 DEF SlotOK, AnswerOK
<1>4. PipeOK(qn, an2, n, out, q)
  BY DEF SlotOK, PipeOK, PipedOK
<1> QED
  BY <1>2, <1>3, <1>4 DEF SlotOK

\* Another question is asked.
LEMMA MoreAsked ==
    ASSUME NEW qn \in Question \cup {None}, NEW an, NEW n \in Nat,
           NEW out \in Seq(Message), NEW in, NEW q,
           SlotOK(qn, an, n, out, in, q)
    PROVE  SlotOK(qn, an, n + 1, out, in, q)
<1>1. QuestionOK(qn, n + 1)
  BY DEF SlotOK, QuestionOK, Question
<1>2. FinishOK(qn, n + 1, out, q)
  <2>1. \A i \in 1 .. Len(out) : FinishOf(out[i], q) => out[i].call \in Nat
    BY CallNumbers
  <2> QED
    BY <2>1 DEF SlotOK, FinishOK
<1>3. PipeOK(qn, an, n + 1, out, q)
  <2>1. \A i \in 1 .. Len(out) : PipedTo(out[i], q) => out[i].target.call \in Nat
    BY CallNumbers
  <2> QED
    BY <2>1 DEF SlotOK, PipeOK, PipedOK
<1> QED
  BY <1>1, <1>2, <1>3 DEF SlotOK

-----------------------------------------------------------------------------
(* What the caller does *)

\* A free id is used again.
LEMMA Asked ==
    ASSUME NEW an, NEW n \in Nat, NEW out \in Seq(Message), NEW in, NEW q,
           NEW out2, NEW m, NEW qn2,
           SlotOK(None, an, n, out, in, q), Longer(out, out2, m),
           AskFor(m, q), m.call = n + 1, ~ FinishOf(m, q), ~ PipedTo(m, q),
           qn2 # None, qn2.call = n + 1, qn2.awaiting, qn2.ref, ~ qn2.skip
    PROVE  SlotOK(qn2, an, n + 1, out2, in, q)
<1>1. /\ \A i \in 1 .. Len(out2) : (i \in 1 .. Len(out) /\ out2[i] = out[i])
                                  \/ (i = Len(out) + 1 /\ out2[i] = m)
      /\ \A i \in 1 .. Len(out) : /\ i \in 1 .. Len(out2) /\ out2[i] = out[i]
                                /\ i < Len(out) + 1
      /\ Len(out) + 1 \in 1 .. Len(out2) /\ out2[Len(out) + 1] = m
  BY LongerPlaces DEF Longer
<1>2. \A i \in 1 .. Len(out) : ~ AskFor(out[i], q)
  BY DEF SlotOK, AskOK, About
<1>3. \A i \in 1 .. Len(in) : ~ ReturnTo(in[i], q)
  BY DEF SlotOK, ReturnOK, About
<1>4. \A i \in 1 .. Len(out) : FinishOf(out[i], q) => out[i].call \in Nat /\ out[i].call <= n
  BY CallNumbers DEF SlotOK, FinishOK
<1>5. \A i \in 1 .. Len(out) : FinishOf(out[i], q) => ~ About(out[i], qn2)
  BY <1>4 DEF About
<1>6. an # None => ~ About(an, qn2) /\ ~ Open(an) /\ an.status # "redirected"
                /\ \E j \in 1 .. Len(out) : FinishOf(out[j], q) /\ out[j].call = an.call
  BY <1>4 DEF SlotOK, AnswerOK, About
<1>7. QuestionOK(qn2, n + 1)
  BY DEF QuestionOK
<1>8. AskOK(qn2, an, out2, in, q)
  <2> SUFFICES ASSUME NEW i \in 1 .. Len(out2), AskFor(out2[i], q)
               PROVE  /\ About(out2[i], qn2) /\ qn2.awaiting
                      /\ \A j \in 1 .. Len(out2) : AskFor(out2[j], q) => j = i
                      /\ \A j \in 1 .. Len(in) : ~ ReturnTo(in[j], q)
                      /\ an # None => an.call # qn2.call
                      /\ qn2.ref
    BY DEF AskOK
  <2>1. i = Len(out) + 1
    BY <1>1, <1>2
  <2> QED
    BY <1>1, <1>2, <1>3, <1>6, <2>1 DEF About
<1>9. ReturnOK(qn2, an, in, q)
  BY <1>3 DEF ReturnOK
<1>10. FinishOK(qn2, n + 1, out2, q)
  <2> SUFFICES ASSUME NEW i \in 1 .. Len(out2), FinishOf(out2[i], q)
               PROVE  /\ out2[i].call <= n + 1
                      /\ ~ About(out2[i], qn2)
                      /\ \A j \in 1 .. Len(out2) : AskFor(out2[j], q) => i < j
                      /\ out2[i].call < qn2.call
                      /\ \E j \in 1 .. Len(out2) : AskFor(out2[j], q)
                      /\ \A j \in 1 .. Len(out2) : FinishOf(out2[j], q) => j = i
    BY DEF FinishOK
  <2>1. i \in 1 .. Len(out) /\ out2[i] = out[i]
    BY <1>1
  <2>2. \A j \in 1 .. Len(out) : FinishOf(out[j], q) => j = i
    BY <2>1 DEF SlotOK, FinishOK, About
  <2>3. out2[i].call <= n + 1 /\ out2[i].call < qn2.call
    BY <1>4, <2>1
  <2>4. ~ About(out2[i], qn2)
    BY <1>5, <2>1
  <2>5. \A j \in 1 .. Len(out2) : AskFor(out2[j], q) => i < j
    BY <1>1, <1>2, <2>1
  <2>6. \E j \in 1 .. Len(out2) : AskFor(out2[j], q)
    BY <1>1
  <2>7. \A j \in 1 .. Len(out2) : FinishOf(out2[j], q) => j = i
    BY <1>1, <2>2
  <2> QED
    BY <2>3, <2>4, <2>5, <2>6, <2>7
<1>11. AnswerOK(qn2, an, out2, in, q)
  BY <1>1, <1>6 DEF AnswerOK
<1>12. PipeOK(qn2, an, n + 1, out2, q)
  <2> SUFFICES ASSUME NEW i \in 1 .. Len(out2), PipedTo(out2[i], q)
               PROVE  PipedOK(qn2, an, n + 1, out2, q, i)
    BY DEF PipeOK
  <2>1. i \in 1 .. Len(out) /\ out2[i] = out[i]
    BY <1>1
  <2>2. PipedOK(None, an, n, out, q, i) /\ out[i].target.call \in Nat
    BY <2>1, CallNumbers DEF SlotOK, PipeOK
  <2>3. \A k \in 1 .. i - 1 : out2[k] = out[k]
    BY <1>1, <2>1 DEF Longer
  <2>4. out2[i].target.call <= n + 1 /\ out2[i].target.call <= qn2.call
    BY <2>1, <2>2 DEF PipedOK
  <2>5. \A k \in 1 .. i - 1 :
          /\ AskFor(out2[k], q) => out2[k].call = out2[i].target.call
          /\ FinishOf(out2[k], q) => out2[k].call < out2[i].target.call
    BY <2>1, <2>2, <2>3 DEF PipedOK
  <2>6. an # None /\ an.call # out2[i].target.call =>
          /\ an.call < out2[i].target.call
          /\ \E k \in 1 .. i - 1 : FinishOf(out2[k], q) /\ out2[k].call = an.call
    BY <2>1, <2>2, <2>3 DEF PipedOK
  <2> QED
    BY <2>4, <2>5, <2>6 DEF PipedOK
<1> QED
  BY <1>7, <1>8, <1>9, <1>10, <1>11, <1>12 DEF SlotOK

\* A call is pipelined on the question under q.
LEMMA Piped ==
    ASSUME NEW qn \in Question, NEW an \in Answer \cup {None}, NEW n \in Nat,
           NEW out \in Seq(Message), NEW in, NEW q, NEW out2, NEW m,
           SlotOK(qn, an, n, out, in, q), Longer(out, out2, m),
           PipedTo(m, q), m.target.call = qn.call, qn.ref,
           ~ AskFor(m, q), ~ FinishOf(m, q)
    PROVE  SlotOK(qn, an, n, out2, in, q)
<1>1. /\ \A i \in 1 .. Len(out2) : (i \in 1 .. Len(out) /\ out2[i] = out[i])
                                  \/ (i = Len(out) + 1 /\ out2[i] = m)
      /\ \A i \in 1 .. Len(out) : i \in 1 .. Len(out2) /\ out2[i] = out[i]
  BY LongerPlaces
<1>0. qn # None
  BY NoneFacts
<1>2. QuestionOK(qn, n) /\ ReturnOK(qn, an, in, q)
  BY DEF SlotOK
<1>3. AskOK(qn, an, out2, in, q)
  BY <1>1 DEF SlotOK, AskOK
<1>4. FinishOK(qn, n, out2, q)
  BY <1>1 DEF SlotOK, FinishOK
<1>5. AnswerOK(qn, an, out2, in, q)
  BY <1>1 DEF SlotOK, AnswerOK
<1>6. PipeOK(qn, an, n, out2, q)
  <2> SUFFICES ASSUME NEW i \in 1 .. Len(out2), PipedTo(out2[i], q)
               PROVE  PipedOK(qn, an, n, out2, q, i)
    BY DEF PipeOK
  <2>1. CASE i \in 1 .. Len(out) /\ out2[i] = out[i]
    <3>1. \A k \in 1 .. i - 1 : out2[k] = out[k]
      BY <1>1, <2>1 DEF Longer
    <3> QED
      BY <2>1, <3>1 DEF SlotOK, PipeOK, PipedOK
  <2>2. CASE i = Len(out) + 1 /\ out2[i] = m
    <3>1. \A k \in 1 .. i - 1 : k \in 1 .. Len(out) /\ out2[k] = out[k]
      BY <2>2 DEF Longer
    <3>2. \A k \in 1 .. Len(out) : k \in 1 .. i - 1
      BY <2>2 DEF Longer
    <3>3. qn.call <= n
      BY <1>0, <1>2 DEF QuestionOK
    <3>4. \A k \in 1 .. Len(out) : AskFor(out[k], q) => out[k].call = qn.call
      BY DEF SlotOK, AskOK, About
    <3>5. \A k \in 1 .. Len(out) : FinishOf(out[k], q) => out[k].call < qn.call
      BY <1>0 DEF SlotOK, FinishOK
    <3>6. an # None /\ an.call # qn.call =>
            \E k \in 1 .. Len(out) : FinishOf(out[k], q) /\ out[k].call = an.call
      BY DEF SlotOK, AnswerOK, About
    <3>7. an # None /\ an.call # qn.call => an.call < qn.call
      BY <3>5, <3>6
    <3>8. qn.call <= qn.call
      BY DEF Question
    <3> QED
      BY <2>2, <3>1, <3>2, <3>3, <3>4, <3>5, <3>6, <3>7, <3>8 DEF PipedOK
  <2> QED
    BY <1>1, <2>1, <2>2
<1> QED
  BY <1>2, <1>3, <1>4, <1>5, <1>6 DEF SlotOK

\* The caller drops a question that awaits its Return.
LEMMA DroppedAwaiting ==
    ASSUME NEW qn \in Question, NEW an, NEW n \in Nat,
           NEW out, NEW in, NEW q, NEW out2, NEW m, NEW qn2,
           SlotOK(qn, an, n, out, in, q), Longer(out, out2, m),
           qn.awaiting, qn.ref,
           FinishOf(m, q), m.call = qn.call, ~ AskFor(m, q), ~ PipedTo(m, q),
           qn2 # None, qn2.call = qn.call, qn2.awaiting, ~ qn2.ref, ~ qn2.skip
    PROVE  SlotOK(qn2, an, n, out2, in, q)
<1>1. /\ \A i \in 1 .. Len(out2) : (i \in 1 .. Len(out) /\ out2[i] = out[i])
                                  \/ (i = Len(out) + 1 /\ out2[i] = m)
      /\ \A i \in 1 .. Len(out) : /\ i \in 1 .. Len(out2) /\ out2[i] = out[i]
                                /\ i < Len(out) + 1
      /\ Len(out) + 1 \in 1 .. Len(out2) /\ out2[Len(out) + 1] = m
  BY LongerPlaces DEF Longer
<1>2. qn # None
  BY NoneFacts
<1>3. \A x : About(x, qn2) <=> About(x, qn)
  BY <1>2 DEF About
<1>4. \A i \in 1 .. Len(out) : FinishOf(out[i], q) => ~ About(out[i], qn)
  BY DEF SlotOK, FinishOK
<1>5. About(m, qn)
  BY <1>2 DEF About
<1>6. QuestionOK(qn2, n)
  BY <1>2 DEF SlotOK, QuestionOK
<1>7. AskOK(qn2, an, out2, in, q)
  <2> SUFFICES ASSUME NEW i \in 1 .. Len(out2), AskFor(out2[i], q)
               PROVE  /\ About(out2[i], qn2)
                      /\ \A j \in 1 .. Len(out2) : AskFor(out2[j], q) => j = i
                      /\ \A j \in 1 .. Len(in) : ~ ReturnTo(in[j], q)
                      /\ an # None => an.call # qn2.call
                      /\ \E j \in 1 .. Len(out2) : FinishOf(out2[j], q) /\ About(out2[j], qn2)
    BY DEF AskOK
  <2>1. i \in 1 .. Len(out) /\ out2[i] = out[i]
    BY <1>1
  <2> QED
    BY <1>1, <1>3, <1>5, <2>1 DEF SlotOK, AskOK
<1>8. ReturnOK(qn2, an, in, q)
  BY <1>3 DEF SlotOK, ReturnOK
<1>9. FinishOK(qn2, n, out2, q)
  <2> SUFFICES ASSUME NEW i \in 1 .. Len(out2), FinishOf(out2[i], q)
               PROVE  /\ out2[i].call <= n
                      /\ About(out2[i], qn) =>
                            \A j \in 1 .. Len(out2) : AskFor(out2[j], q) => j < i
                      /\ ~ About(out2[i], qn) =>
                            /\ \A j \in 1 .. Len(out2) : AskFor(out2[j], q) => i < j
                            /\ out2[i].call < qn.call
                            /\ \E j \in 1 .. Len(out2) : AskFor(out2[j], q)
                      /\ \A j \in 1 .. Len(out2) :
                            FinishOf(out2[j], q) /\ (About(out2[j], qn) <=> About(out2[i], qn))
                                => j = i
    BY <1>3 DEF FinishOK
  <2>1. CASE i \in 1 .. Len(out) /\ out2[i] = out[i]
    BY <1>1, <1>2, <1>4, <1>5, <2>1 DEF SlotOK, FinishOK
  <2>2. CASE i = Len(out) + 1 /\ out2[i] = m
    <3>1. m.call <= n
      BY <1>2 DEF SlotOK, QuestionOK
    <3> QED
      BY <1>1, <1>4, <1>5, <2>2, <3>1
  <2> QED
    BY <1>1, <2>1, <2>2
<1>10. AnswerOK(qn2, an, out2, in, q)
  <2>1. an # None /\ About(an, qn) => ~ (Open(an) /\ an.finish)
    BY DEF SlotOK, AnswerOK
  <2> QED
    BY <1>1, <1>3, <2>1 DEF SlotOK, AnswerOK
<1>11. PipeOK(qn2, an, n, out2, q)
  <2> SUFFICES ASSUME NEW i \in 1 .. Len(out2), PipedTo(out2[i], q)
               PROVE  PipedOK(qn2, an, n, out2, q, i)
    BY DEF PipeOK
  <2>1. i \in 1 .. Len(out) /\ out2[i] = out[i]
    BY <1>1
  <2>2. \A k \in 1 .. i - 1 : out2[k] = out[k]
    BY <1>1, <2>1 DEF Longer
  <2>3. PipedOK(qn, an, n, out, q, i)
    BY <2>1 DEF SlotOK, PipeOK
  <2> QED
    BY <1>2, <2>1, <2>2, <2>3 DEF PipedOK
<1> QED
  BY <1>6, <1>7, <1>8, <1>9, <1>10, <1>11 DEF SlotOK

\* After the Return there is nothing about the question in the channels.
LEMMA NothingLeft ==
    ASSUME NEW qn \in Question, NEW an, NEW n, NEW out, NEW in, NEW q,
           SlotOK(qn, an, n, out, in, q), ~ qn.awaiting
    PROVE  /\ \A i \in 1 .. Len(out) : ~ AskFor(out[i], q) /\ ~ FinishOf(out[i], q)
           /\ \A i \in 1 .. Len(in) : ~ ReturnTo(in[i], q)
           /\ an # None => About(an, qn) /\ ~ Open(an) /\ ~ qn.skip
<1>1. qn # None
  BY NoneFacts
<1>2. \A i \in 1 .. Len(out) : ~ AskFor(out[i], q)
  BY DEF SlotOK, AskOK
<1>3. \A i \in 1 .. Len(out) : ~ FinishOf(out[i], q)
  BY <1>1, <1>2 DEF SlotOK, FinishOK
<1>4. \A i \in 1 .. Len(in) : ~ ReturnTo(in[i], q)
  BY DEF SlotOK, ReturnOK
<1> QED
  BY <1>2, <1>3, <1>4 DEF SlotOK, AnswerOK

\* The caller drops a question whose Return said that no Finish is needed.
LEMMA DroppedSilently ==
    ASSUME NEW qn \in Question, NEW an, NEW n, NEW out, NEW in, NEW q,
           SlotOK(qn, an, n, out, in, q), ~ qn.awaiting, qn.skip
    PROVE  SlotOK(None, an, n, out, in, q)
<1>1. /\ \A i \in 1 .. Len(out) : ~ AskFor(out[i], q) /\ ~ FinishOf(out[i], q)
      /\ \A i \in 1 .. Len(in) : ~ ReturnTo(in[i], q)
      /\ an = None
  BY NothingLeft
<1>2. QuestionOK(None, n) /\ AskOK(None, an, out, in, q) /\ ReturnOK(None, an, in, q)
  BY <1>1 DEF QuestionOK, AskOK, ReturnOK
<1>3. FinishOK(None, n, out, q) /\ AnswerOK(None, an, out, in, q)
  BY <1>1 DEF FinishOK, AnswerOK
<1>4. PipeOK(None, an, n, out, q)
  BY DEF SlotOK, PipeOK, PipedOK
<1> QED
  BY <1>2, <1>3, <1>4 DEF SlotOK

\* The caller drops a question that has returned, and sends its Finish.
LEMMA DroppedReturned ==
    ASSUME NEW qn \in Question, NEW an, NEW n, NEW out, NEW in, NEW q,
           NEW out2, NEW m,
           SlotOK(qn, an, n, out, in, q), Longer(out, out2, m), ~ qn.awaiting,
           FinishOf(m, q), m.call = qn.call, ~ AskFor(m, q), ~ PipedTo(m, q)
    PROVE  SlotOK(None, an, n, out2, in, q)
<1>1. /\ \A i \in 1 .. Len(out2) : (i \in 1 .. Len(out) /\ out2[i] = out[i])
                                  \/ (i = Len(out) + 1 /\ out2[i] = m)
      /\ \A i \in 1 .. Len(out) : i \in 1 .. Len(out2) /\ out2[i] = out[i]
      /\ Len(out) + 1 \in 1 .. Len(out2) /\ out2[Len(out) + 1] = m
  BY LongerPlaces DEF Longer
<1>2. /\ \A i \in 1 .. Len(out) : ~ AskFor(out[i], q) /\ ~ FinishOf(out[i], q)
      /\ \A i \in 1 .. Len(in) : ~ ReturnTo(in[i], q)
      /\ an # None => About(an, qn) /\ ~ Open(an) /\ ~ qn.skip
  BY NothingLeft
<1>3. \A i \in 1 .. Len(out2) : ~ AskFor(out2[i], q)
  BY <1>1, <1>2
<1>4. qn # None /\ m.call <= n
  BY NoneFacts DEF SlotOK, QuestionOK
<1>5. QuestionOK(None, n) /\ AskOK(None, an, out2, in, q) /\ ReturnOK(None, an, in, q)
  BY <1>2, <1>3 DEF QuestionOK, AskOK, ReturnOK
<1>6. FinishOK(None, n, out2, q)
  <2> SUFFICES ASSUME NEW i \in 1 .. Len(out2), FinishOf(out2[i], q)
               PROVE  /\ out2[i].call <= n
                      /\ \A j \in 1 .. Len(out2) : FinishOf(out2[j], q) => j = i
    BY <1>3 DEF FinishOK, About
  <2> QED
    BY <1>1, <1>2, <1>4
<1>7. AnswerOK(None, an, out2, in, q)
  <2>1. an # None => an.call = m.call /\ an.status # "redirected" /\ ~ Open(an)
    BY <1>2 DEF About, SlotOK, AnswerOK
  <2> QED
    BY <1>1, <2>1 DEF AnswerOK, About
<1>8. PipeOK(None, an, n, out2, q)
  <2> SUFFICES ASSUME NEW i \in 1 .. Len(out2), PipedTo(out2[i], q)
               PROVE  PipedOK(None, an, n, out2, q, i)
    BY DEF PipeOK
  <2>1. i \in 1 .. Len(out) /\ out2[i] = out[i]
    BY <1>1
  <2>2. \A k \in 1 .. i - 1 : out2[k] = out[k]
    BY <1>1, <2>1 DEF Longer
  <2> QED
    BY <2>1, <2>2 DEF SlotOK, PipeOK, PipedOK
<1> QED
  BY <1>5, <1>6, <1>7, <1>8 DEF SlotOK

\* The caller receives the Return of a question it has dropped: the id is
\* free again.
LEMMA ReceivedDropped ==
    ASSUME NEW qn \in Question, NEW an, NEW n, NEW out, NEW in, NEW q,
           NEW in2, NEW m,
           SlotOK(qn, an, n, out, in, q), Shorter(in, in2, m), ReturnTo(m, q),
           ~ qn.ref
    PROVE  SlotOK(None, an, n, out, in2, q)
<1>1. /\ \A i \in 1 .. Len(in2) : i + 1 \in 1 .. Len(in) /\ in2[i] = in[i + 1]
                                 /\ i + 1 # 1
      /\ 1 \in 1 .. Len(in) /\ in[1] = m
  BY ShorterPlaces DEF Shorter
<1>2. /\ qn # None /\ qn.awaiting
      /\ \A j \in 1 .. Len(in) : ReturnTo(in[j], q) => j = 1
  BY <1>1, NoneFacts DEF SlotOK, ReturnOK
<1>3. \A i \in 1 .. Len(in2) : ~ ReturnTo(in2[i], q)
  BY <1>1, <1>2
<1>4. \A i \in 1 .. Len(out) : ~ AskFor(out[i], q)
  BY <1>1 DEF SlotOK, AskOK
<1>5. \A i \in 1 .. Len(out) : FinishOf(out[i], q) => About(out[i], qn)
  BY <1>2, <1>4 DEF SlotOK, FinishOK
<1>6. QuestionOK(None, n) /\ AskOK(None, an, out, in2, q) /\ ReturnOK(None, an, in2, q)
  BY <1>3, <1>4 DEF QuestionOK, AskOK, ReturnOK
<1>7. FinishOK(None, n, out, q)
  BY <1>4, <1>5 DEF SlotOK, FinishOK, About
<1>8. AnswerOK(None, an, out, in2, q)
  <2>1. an # None => /\ an.status # "redirected" /\ ~ Open(an)
                     /\ \E j \in 1 .. Len(out) : FinishOf(out[j], q) /\ out[j].call = an.call
    <3>1. CASE an # None /\ About(an, qn)
      BY <1>1, <1>2, <1>5, <3>1 DEF SlotOK, AnswerOK, About
    <3>2. CASE an # None /\ ~ About(an, qn)
      BY <3>2 DEF SlotOK, AnswerOK
    <3> QED
      BY <3>1, <3>2
  <2> QED
    BY <2>1 DEF AnswerOK, About
<1>9. PipeOK(None, an, n, out, q)
  BY DEF SlotOK, PipeOK, PipedOK
<1> QED
  BY <1>6, <1>7, <1>8, <1>9 DEF SlotOK

\* The caller receives the Return of a question it still holds.
LEMMA ReceivedHeld ==
    ASSUME NEW qn \in Question, NEW an, NEW n, NEW out, NEW in, NEW q,
           NEW in2, NEW m, NEW qn2,
           SlotOK(qn, an, n, out, in, q), Shorter(in, in2, m), ReturnTo(m, q),
           qn.ref, qn2 # None, qn2.call = qn.call, ~ qn2.awaiting, qn2.ref,
           qn2.skip => qn.skip \/ m.nofinish
    PROVE  SlotOK(qn2, an, n, out, in2, q)
<1>1. /\ \A i \in 1 .. Len(in2) : i + 1 \in 1 .. Len(in) /\ in2[i] = in[i + 1]
                                 /\ i + 1 # 1
      /\ 1 \in 1 .. Len(in) /\ in[1] = m
  BY ShorterPlaces DEF Shorter
<1>2. /\ qn # None /\ qn.awaiting
      /\ \A j \in 1 .. Len(in) : ReturnTo(in[j], q) => j = 1
      /\ m.nofinish => an = None
  BY <1>1, NoneFacts DEF SlotOK, ReturnOK
<1>3. \A i \in 1 .. Len(in2) : ~ ReturnTo(in2[i], q)
  BY <1>1, <1>2
<1>4. \A i \in 1 .. Len(out) : ~ AskFor(out[i], q)
  BY <1>1 DEF SlotOK, AskOK
<1>5. \A i \in 1 .. Len(out) : ~ FinishOf(out[i], q)
  BY <1>2, <1>4 DEF SlotOK, FinishOK
<1>6. /\ QuestionOK(qn2, n)
      /\ qn2.skip => an = None
  BY <1>2 DEF SlotOK, QuestionOK
<1>7. AskOK(qn2, an, out, in2, q) /\ ReturnOK(qn2, an, in2, q) /\ FinishOK(qn2, n, out, q)
  BY <1>3, <1>4, <1>5 DEF AskOK, ReturnOK, FinishOK
<1>8. AnswerOK(qn2, an, out, in2, q)
  <2>1. an # None => /\ an.status # "redirected" /\ ~ Open(an) /\ About(an, qn2)
    BY <1>1, <1>2, <1>5 DEF SlotOK, AnswerOK, About
  <2> QED
    BY <1>6, <2>1 DEF AnswerOK
<1>9. PipeOK(qn2, an, n, out, q)
  BY <1>2 DEF SlotOK, PipeOK, PipedOK
<1> QED
  BY <1>6, <1>7, <1>8, <1>9 DEF SlotOK

-----------------------------------------------------------------------------
(* What the callee does *)

\* The callee takes up a new call.
LEMMA TakenUp ==
    ASSUME NEW qn, NEW n, NEW out, NEW in, NEW q, NEW out2, NEW m, NEW an2,
           SlotOK(qn, None, n, out, in, q), Shorter(out, out2, m),
           AskFor(m, q), an2 # None, an2.call = m.call, ~ an2.finish,
           an2.status # "redirected"
    PROVE  /\ SlotOK(qn, an2, n, out2, in, q)
           /\ About(m, qn) /\ qn.awaiting
           /\ \A i \in 1 .. Len(out2) : ~ AskFor(out2[i], q)
           /\ \A i \in 1 .. Len(in) : ~ ReturnTo(in[i], q)
<1>1. /\ \A i \in 1 .. Len(out) : \/ i = 1 /\ out[i] = m
                                 \/ (i - 1 \in 1 .. Len(out2) /\ out[i] = out2[i - 1])
      /\ \A i \in 1 .. Len(out2) : i + 1 \in 1 .. Len(out) /\ out2[i] = out[i + 1]
                                  /\ i + 1 # 1 /\ ~ (i + 1 < 1)
      /\ 1 \in 1 .. Len(out) /\ out[1] = m
  BY ShorterPlaces DEF Shorter
<1>2. /\ About(m, qn) /\ qn.awaiting
      /\ \A j \in 1 .. Len(out) : AskFor(out[j], q) => j = 1
      /\ \A j \in 1 .. Len(in) : ~ ReturnTo(in[j], q)
      /\ qn.ref \/ \E j \in 1 .. Len(out) : FinishOf(out[j], q) /\ About(out[j], qn)
  BY <1>1 DEF SlotOK, AskOK
<1>3. \A i \in 1 .. Len(out2) : ~ AskFor(out2[i], q)
  BY <1>1, <1>2
<1>4. \A i \in 1 .. Len(out2) : FinishOf(out2[i], q) => About(out2[i], qn)
  BY <1>1 DEF SlotOK, FinishOK
<1>5. qn.ref \/ \E j \in 1 .. Len(out2) : FinishOf(out2[j], q)
  BY <1>1, <1>2 DEF AskFor, FinishOf
<1>6. AskOK(qn, an2, out2, in, q) /\ ReturnOK(qn, an2, in, q)
  BY <1>2, <1>3 DEF AskOK, ReturnOK
<1>7. FinishOK(qn, n, out2, q)
  BY <1>1, <1>3, <1>4 DEF SlotOK, FinishOK
<1>8. AnswerOK(qn, an2, out2, in, q)
  BY <1>2, <1>5 DEF AnswerOK, About
<1>9. PipeOK(qn, an2, n, out2, q)
  <2> SUFFICES ASSUME NEW i \in 1 .. Len(out2), PipedTo(out2[i], q)
               PROVE  PipedOK(qn, an2, n, out2, q, i)
    BY DEF PipeOK
  <2>1. /\ i + 1 \in 1 .. Len(out) /\ out2[i] = out[i + 1]
        /\ 1 \in 1 .. (i + 1) - 1
        /\ \A k \in 1 .. i - 1 : k + 1 \in 1 .. (i + 1) - 1 /\ out2[k] = out[k + 1]
    BY ShorterAhead
  <2>2. PipedOK(qn, None, n, out, q, i + 1)
    BY <2>1 DEF SlotOK, PipeOK
  <2>3. an2.call = out2[i].target.call
    BY <1>1, <2>1, <2>2 DEF PipedOK
  <2>4. \A k \in 1 .. i - 1 :
          /\ AskFor(out2[k], q) => out2[k].call = out2[i].target.call
          /\ FinishOf(out2[k], q) => out2[k].call < out2[i].target.call
    BY <2>1, <2>2 DEF PipedOK
  <2> QED
    BY <2>1, <2>2, <2>3, <2>4 DEF PipedOK
<1> QED
  BY <1>2, <1>3, <1>6, <1>7, <1>8, <1>9 DEF SlotOK

\* An answer whose Return is not sent yet is about the question, which
\* awaits it; nothing of it is on its way.
LEMMA OpenAnswer ==
    ASSUME NEW qn, NEW an, NEW n, NEW out, NEW in, NEW q,
           SlotOK(qn, an, n, out, in, q), an # None, Open(an)
    PROVE  /\ About(an, qn) /\ qn.awaiting
           /\ an.finish => ~ qn.ref
           /\ \A i \in 1 .. Len(out) : ~ AskFor(out[i], q)
           /\ \A i \in 1 .. Len(in) : ~ ReturnTo(in[i], q)
<1>1. About(an, qn)
  BY DEF SlotOK, AnswerOK
<1> QED
  BY <1>1 DEF SlotOK, AnswerOK, AskOK, About

\* The answer of a call that returns is forgotten, or kept for its Finish.
LEMMA Closed ==
    ASSUME NEW qn, NEW an, NEW n, NEW out, NEW in, NEW q, NEW an2,
           SlotOK(qn, an, n, out, in, q), an # None, Open(an),
           \/ an2 = None
           \/ /\ an2 # None /\ an2.call = an.call /\ an2.status = "returned"
              /\ ~ an.finish
    PROVE  SlotOK(qn, an2, n, out, in, q)
<1>1. /\ About(an, qn) /\ qn.awaiting
      /\ \A i \in 1 .. Len(out) : ~ AskFor(out[i], q)
      /\ \A i \in 1 .. Len(in) : ~ ReturnTo(in[i], q)
  BY OpenAnswer
<1>2. AskOK(qn, an2, out, in, q) /\ ReturnOK(qn, an2, in, q)
  BY <1>1 DEF AskOK, ReturnOK
<1>3. AnswerOK(qn, an2, out, in, q)
  <2>1. CASE an2 = None
    BY <2>1 DEF AnswerOK
  <2>2. CASE an2 # None
    <3>1. ~ Open(an2) /\ About(an2, qn)
      BY <1>1, <2>2 DEF Open, About
    <3>2. ~ an.finish => qn.ref \/ \E j \in 1 .. Len(out) : FinishOf(out[j], q)
      BY <1>1 DEF SlotOK, AnswerOK
    <3> QED
      BY <1>1, <2>2, <3>1, <3>2 DEF AnswerOK
  <2> QED
    BY <2>1, <2>2
<1>4. PipeOK(qn, an2, n, out, q)
  <2>1. CASE an2 = None
    BY <2>1 DEF SlotOK, PipeOK, PipedOK
  <2>2. CASE an2 # None
    BY <2>2 DEF SlotOK, PipeOK, PipedOK
  <2> QED
    BY <2>1, <2>2
<1> QED
  BY <1>2, <1>3, <1>4 DEF SlotOK

\* Its Return is sent.
LEMMA ReturnSent ==
    ASSUME NEW qn, NEW an, NEW n, NEW out, NEW in, NEW q, NEW in2, NEW m,
           SlotOK(qn, an, n, out, in, q), Longer(in, in2, m),
           ReturnTo(m, q), About(m, qn), qn.awaiting,
           \A i \in 1 .. Len(out) : ~ AskFor(out[i], q),
           \A i \in 1 .. Len(in) : ~ ReturnTo(in[i], q),
           an # None => ~ Open(an),
           m.nofinish => an = None,
           m.which = "canceled" => ~ qn.ref
    PROVE  SlotOK(qn, an, n, out, in2, q)
<1>1. /\ \A i \in 1 .. Len(in2) : (i \in 1 .. Len(in) /\ in2[i] = in[i])
                                 \/ (i = Len(in) + 1 /\ in2[i] = m)
  BY LongerPlaces
<1>2. AskOK(qn, an, out, in2, q)
  BY DEF AskOK
<1>3. ReturnOK(qn, an, in2, q)
  BY <1>1 DEF ReturnOK
<1>4. AnswerOK(qn, an, out, in2, q)
  BY DEF SlotOK, AnswerOK
<1> QED
  BY <1>2, <1>3, <1>4 DEF SlotOK

\* The callee handles the Finish of the question.
LEMMA FinishTaken ==
    ASSUME NEW qn \in Question, NEW an, NEW n, NEW out \in Seq(Message),
           NEW in, NEW q, NEW out2, NEW m, NEW an2,
           SlotOK(qn, an, n, out, in, q), Shorter(out, out2, m),
           FinishOf(m, q), About(m, qn),
           \/ an2 = None /\ (an = None \/ ~ Open(an))
           \/ /\ an # None /\ Open(an) /\ an2 # None /\ Open(an2)
              /\ an2.call = an.call /\ an2.finish
    PROVE  SlotOK(qn, an2, n, out2, in, q)
<1>1. /\ \A i \in 1 .. Len(out2) : i + 1 \in 1 .. Len(out) /\ out2[i] = out[i + 1]
                                  /\ i + 1 # 1 /\ ~ (i + 1 < 1)
      /\ 1 \in 1 .. Len(out) /\ out[1] = m
  BY ShorterPlaces DEF Shorter
<1>2. /\ qn # None /\ qn.awaiting /\ ~ qn.ref
      /\ \A j \in 1 .. Len(out) : AskFor(out[j], q) => j < 1
  BY <1>1, NoneFacts DEF SlotOK, FinishOK
<1>3. \A j \in 1 .. Len(out) : ~ AskFor(out[j], q)
  BY <1>2
<1>4. \A j \in 1 .. Len(out) : FinishOf(out[j], q) => j = 1
  BY <1>1, <1>2, <1>3 DEF SlotOK, FinishOK
<1>5. \A j \in 1 .. Len(out2) : ~ AskFor(out2[j], q) /\ ~ FinishOf(out2[j], q)
  BY <1>1, <1>3, <1>4
<1>6. \A j \in 1 .. Len(out2) : ~ PipedTo(out2[j], q)
  <2> SUFFICES ASSUME NEW j \in 1 .. Len(out2), PipedTo(out2[j], q) PROVE FALSE
    OBVIOUS
  <2>1. /\ j + 1 \in 1 .. Len(out) /\ out2[j] = out[j + 1]
        /\ 1 \in 1 .. (j + 1) - 1
    BY ShorterAhead
  <2>2. PipedOK(qn, an, n, out, q, j + 1)
    BY <2>1 DEF SlotOK, PipeOK
  <2>3. out[j + 1].target.call \in Nat /\ m.call \in Nat
    BY <1>1, <2>1, CallNumbers
  <2>4. m.call < out[j + 1].target.call /\ out[j + 1].target.call <= qn.call
    BY <1>1, <1>2, <2>1, <2>2 DEF PipedOK
  <2> QED
    BY <2>3, <2>4 DEF About
<1>7. AskOK(qn, an2, out2, in, q) /\ FinishOK(qn, n, out2, q) /\ PipeOK(qn, an2, n, out2, q)
  BY <1>5, <1>6 DEF AskOK, FinishOK, PipeOK
<1>8. CASE an2 = None
  BY <1>7, <1>8 DEF SlotOK, ReturnOK, AnswerOK
<1>9. CASE an2 # None
  <2>1. About(an, qn) /\ \A i \in 1 .. Len(in) : ~ ReturnTo(in[i], q)
    BY <1>9, OpenAnswer
  <2>2. About(an2, qn) /\ Open(an2) /\ an2.status # "redirected" /\ an2.finish
    BY <1>9, <2>1 DEF About, Open
  <2>3. ReturnOK(qn, an2, in, q)
    BY <2>1 DEF ReturnOK
  <2>4. AnswerOK(qn, an2, out2, in, q)
    BY <1>2, <1>5, <2>1, <2>2 DEF AnswerOK
  <2> QED
    BY <1>7, <2>3, <2>4 DEF SlotOK
<1> QED
  BY <1>8, <1>9

\* The callee handles the Finish of a former question.
LEMMA StaleFinishTaken ==
    ASSUME NEW qn, NEW an, NEW n, NEW out, NEW in, NEW q, NEW out2, NEW m,
           NEW an2,
           SlotOK(qn, an, n, out, in, q), Shorter(out, out2, m),
           FinishOf(m, q), ~ About(m, qn),
           an2 = None \/ (an # None /\ Open(an))
    PROVE  SlotOK(qn, an2, n, out2, in, q)
<1>1. /\ \A i \in 1 .. Len(out) : \/ i = 1 /\ out[i] = m
                                 \/ (i - 1 \in 1 .. Len(out2) /\ out[i] = out2[i - 1])
      /\ \A i \in 1 .. Len(out2) : i + 1 \in 1 .. Len(out) /\ out2[i] = out[i + 1]
                                  /\ i + 1 # 1
      /\ 1 \in 1 .. Len(out) /\ out[1] = m
  BY ShorterPlaces, SMTT(30) DEF Shorter
<1>2. /\ \A j \in 1 .. Len(out) : AskFor(out[j], q) => 1 < j
      /\ qn # None => \E j \in 1 .. Len(out) : AskFor(out[j], q)
      /\ \A j \in 1 .. Len(out) : FinishOf(out[j], q) /\ ~ About(out[j], qn) => j = 1
  BY <1>1 DEF SlotOK, FinishOK
<1>3. an # None => ~ About(an, qn) /\ ~ Open(an)
  BY <1>2 DEF SlotOK, AskOK, AnswerOK, About
<1>4. an2 = None
  BY <1>3
<1>5. ~ AskFor(m, q)
  BY DEF AskFor, FinishOf
<1>6. AskOK(qn, an2, out2, in, q)
  <2> SUFFICES ASSUME NEW i \in 1 .. Len(out2), AskFor(out2[i], q)
               PROVE  /\ About(out2[i], qn) /\ qn.awaiting
                      /\ \A j \in 1 .. Len(out2) : AskFor(out2[j], q) => j = i
                      /\ \A j \in 1 .. Len(in) : ~ ReturnTo(in[j], q)
                      /\ qn.ref \/ \E j \in 1 .. Len(out2) : FinishOf(out2[j], q) /\ About(out2[j], qn)
    BY <1>4 DEF AskOK
  <2>1. /\ About(out[i + 1], qn) /\ qn.awaiting
        /\ \A j \in 1 .. Len(out) : AskFor(out[j], q) => j = i + 1
        /\ \A j \in 1 .. Len(in) : ~ ReturnTo(in[j], q)
        /\ qn.ref \/ \E j \in 1 .. Len(out) : FinishOf(out[j], q) /\ About(out[j], qn)
    BY <1>1 DEF SlotOK, AskOK
  <2>2. i \in Nat /\ \A j \in 1 .. Len(out2) : j \in Nat
    BY DEF Shorter
  <2>3. \A j \in 1 .. Len(out2) : AskFor(out2[j], q) => j = i
    BY <1>1, <2>1, <2>2
  <2>4. qn.ref \/ \E j \in 1 .. Len(out2) : FinishOf(out2[j], q) /\ About(out2[j], qn)
    BY <1>1, <2>1
  <2> QED
    BY <1>1, <2>1, <2>3, <2>4
<1>7. ReturnOK(qn, an2, in, q)
  BY <1>4 DEF SlotOK, ReturnOK
<1>8. FinishOK(qn, n, out2, q)
  BY <1>1, <1>5 DEF SlotOK, FinishOK
<1>9. AnswerOK(qn, an2, out2, in, q)
  BY <1>4 DEF AnswerOK
<1>10. PipeOK(qn, an2, n, out2, q)
  <2> SUFFICES ASSUME NEW i \in 1 .. Len(out2), PipedTo(out2[i], q)
               PROVE  PipedOK(qn, an2, n, out2, q, i)
    BY DEF PipeOK
  <2>1. /\ i + 1 \in 1 .. Len(out) /\ out2[i] = out[i + 1]
        /\ \A k \in 1 .. i - 1 : k + 1 \in 1 .. (i + 1) - 1 /\ out2[k] = out[k + 1]
    BY ShorterAhead
  <2>2. PipedOK(qn, an, n, out, q, i + 1)
    BY <2>1 DEF SlotOK, PipeOK
  <2> QED
    BY <1>4, <2>1, <2>2 DEF PipedOK
<1> QED
  BY <1>6, <1>7, <1>8, <1>9, <1>10 DEF SlotOK

-----------------------------------------------------------------------------
(* The actions *)

\* What a step leaves of IdsInv to be shown while both vats are connected.
IdsKept == \A v \in Vats : /\ BuiltOK(v)
                           /\ \A q \in QuestionIds : Slot(v, q)

\* While both are connected, what is sent arrives in the channel.
LEMMA Together ==
    ASSUME IdsInv, BothConnected, NEW v \in Vats
    PROVE  /\ TypeOK /\ Peer(v) \in Vats /\ Peer(v) # v /\ Peer(Peer(v)) = v
           /\ connected[v] /\ connected[Peer(v)] /\ loop[v] /\ loop[Peer(v)]
           /\ chan[v] \in Seq(Message) /\ chan[Peer(v)] \in Seq(Message)
           /\ issued[v] \in Nat /\ issued[Peer(v)] \in Nat
           /\ \A m : Transmit(chan, v, m) = [chan EXCEPT ![v] = Append(chan[v], m)]
           /\ BuiltOK(v) /\ BuiltOK(Peer(v))
<1>1. Peer(v) \in Vats /\ Peer(v) # v /\ Peer(Peer(v)) = v
  BY DEF Vats, Peer
<1>2. TypeOK /\ loop[v] /\ loop[Peer(v)] /\ connected[v] /\ connected[Peer(v)]
  BY <1>1 DEF IdsInv, BothConnected
<1>3. \A m : Transmit(chan, v, m) = [chan EXCEPT ![v] = Append(chan[v], m)]
  BY <1>2 DEF Transmit
<1>4. chan[v] \in Seq(Message) /\ chan[Peer(v)] \in Seq(Message)
  BY <1>1, <1>2 DEF TypeOK
<1>5. issued[v] \in Nat /\ issued[Peer(v)] \in Nat
  BY <1>1, <1>2 DEF TypeOK
<1>6. BuiltOK(v) /\ BuiltOK(Peer(v))
  BY <1>1 DEF IdsInv
<1> QED
  BY <1>1, <1>2, <1>3, <1>4, <1>5, <1>6

\* What the two vats know of id q: v as the caller, and v as the callee.
LEMMA Sides ==
    ASSUME IdsInv, BothConnected, NEW v \in Vats, NEW q \in QuestionIds
    PROVE  /\ SlotOK(questions[v][q], answers[Peer(v)][q], issued[v],
                     chan[v], chan[Peer(v)], q)
           /\ SlotOK(questions[Peer(v)][q], answers[v][q], issued[Peer(v)],
                     chan[Peer(v)], chan[v], q)
           /\ questions[v][q] \in Question \cup {None}
           /\ questions[Peer(v)][q] \in Question \cup {None}
           /\ answers[v][q] \in Answer \cup {None}
           /\ answers[Peer(v)][q] \in Answer \cup {None}
<1>1. Slot(v, q) /\ Slot(Peer(v), q) /\ Peer(Peer(v)) = v /\ Peer(v) \in Vats /\ TypeOK
  BY Together DEF IdsInv
<1>2. /\ questions[v][q] \in Question \cup {None}
      /\ questions[Peer(v)][q] \in Question \cup {None}
      /\ answers[v][q] \in Answer \cup {None}
      /\ answers[Peer(v)][q] \in Answer \cup {None}
  BY <1>1 DEF TypeOK
<1> QED
  BY <1>1, <1>2 DEF Slot

\* It is enough to keep both.
LEMMA KeptBySides ==
    ASSUME NEW v \in Vats, BuiltOK(v)', BuiltOK(Peer(v))',
           \A q \in QuestionIds :
            /\ SlotOK(questions'[v][q], answers'[Peer(v)][q], issued'[v],
                      chan'[v], chan'[Peer(v)], q)
            /\ SlotOK(questions'[Peer(v)][q], answers'[v][q], issued'[Peer(v)],
                      chan'[Peer(v)], chan'[v], q)
    PROVE  IdsKept'
<1>1. Peer(v) \in Vats /\ Peer(Peer(v)) = v /\ \A u \in Vats : u = v \/ u = Peer(v)
  BY DEF Vats, Peer
<1>2. \A q \in QuestionIds : Slot(v, q)' /\ Slot(Peer(v), q)'
  BY <1>1 DEF Slot
<1> QED
  BY <1>1, <1>2 DEF IdsKept

\* A request stays good while the question it names is held.
LEMMA BuiltKept ==
    ASSUME IdsInv, BothConnected, NEW v \in Vats,
           built'[v] = built[v] \/ built'[v] = None,
           \A q \in QuestionIds :
            questions[v][q] # None /\ questions[v][q].ref /\ HeldByRequest(v, "promisedAnswer", q) =>
                /\ questions'[v][q] # None /\ questions'[v][q].ref
                /\ questions'[v][q].call = questions[v][q].call
    PROVE  BuiltOK(v)'
<1> SUFFICES ASSUME built'[v] # None, built'[v].target.kind = "promisedAnswer"
             PROVE  /\ About(built'[v].target, questions'[v][built'[v].target.id])
                    /\ questions'[v][built'[v].target.id].ref
  BY DEF BuiltOK
<1>1. built'[v] = built[v] /\ BuiltOK(v) /\ TypeOK
  BY Together
<1> DEFINE p == built[v].target.id
<1>2. About(built[v].target, questions[v][p]) /\ questions[v][p].ref
  BY <1>1 DEF BuiltOK
<1>3. built[v].target \in Target
  BY <1>1 DEF TypeOK
<1>4. p \in QuestionIds
  BY <1>1, <1>3 DEF Target
<1>5. HeldByRequest(v, "promisedAnswer", p)
  BY <1>1 DEF HeldByRequest
<1> QED
  BY <1>1, <1>2, <1>4, <1>5 DEF About

\* disconnect ends what both vats being connected is about.
LEMMA DisconnectEnds ==
    ASSUME TypeOK, NEW v \in Vats, NEW ch, Disconnect(v, ch)
    PROVE  ~ BothConnected'
  BY DEF TypeOK, Disconnect, BothConnected

\* A vat sends a message.
LEMMA Sent ==
    ASSUME IdsInv, BothConnected, NEW v \in Vats, NEW m \in Message,
           chan' = Transmit(chan, v, m)
    PROVE  Longer(chan[v], chan'[v], m) /\ chan'[Peer(v)] = chan[Peer(v)]
<1>1. /\ chan' = [chan EXCEPT ![v] = Append(chan[v], m)] /\ Peer(v) # v
      /\ chan[v] \in Seq(Message) /\ TypeOK
  BY Together
<1>2. chan'[v] = Append(chan[v], m) /\ chan'[Peer(v)] = chan[Peer(v)]
  BY <1>1 DEF TypeOK
<1> QED
  BY <1>1, <1>2, LongerByAppend

\* A vat takes a message from its channel.
LEMMA Received ==
    ASSUME IdsInv, BothConnected, NEW v \in Vats, chan[Peer(v)] # << >>
    PROVE  /\ Shorter(chan[Peer(v)], Remaining(v)[Peer(v)], Incoming(v))
           /\ Remaining(v)[v] = chan[v] /\ Incoming(v) \in Message
           /\ Remaining(v) \in Channels
<1>1. /\ Remaining(v) = [chan EXCEPT ![Peer(v)] = Tail(@)] /\ Peer(v) # v
      /\ Peer(v) \in Vats /\ chan[Peer(v)] \in Seq(Message) /\ TypeOK
  BY Together DEF Remaining
<1>2. Remaining(v)[Peer(v)] = Tail(chan[Peer(v)]) /\ Remaining(v)[v] = chan[v]
  BY <1>1 DEF TypeOK
<1> QED
  BY <1>1, <1>2, ShorterByTail, ChannelTypes DEF Incoming

\* A step that touches none of the state ids are about.
LEMMA IdsUntouched ==
    ASSUME IdsInv, BothConnected, UNCHANGED <<chan, questions, answers, built, issued>>
    PROVE  IdsKept'
<1>1. IdsKept
  BY DEF IdsInv, IdsKept
<1> QED
  BY <1>1 DEF IdsKept, BuiltOK, Slot

\* A vat sends a message that is about no call; nothing else changes.
LEMMA SendOther ==
    ASSUME IdsInv, BothConnected, NEW v \in Vats, NEW m \in Message,
           chan' = Transmit(chan, v, m),
           m.t \notin {"bootstrap", "call", "return", "finish"},
           UNCHANGED <<questions, answers, built, issued>>
    PROVE  IdsKept'
<1>1. Longer(chan[v], chan'[v], m) /\ chan'[Peer(v)] = chan[Peer(v)]
  BY Sent
<1>2. BuiltOK(v)' /\ BuiltOK(Peer(v))'
  BY Together DEF BuiltOK
<1>3. ASSUME NEW q \in QuestionIds
      PROVE  /\ SlotOK(questions'[v][q], answers'[Peer(v)][q], issued'[v],
                       chan'[v], chan'[Peer(v)], q)
             /\ SlotOK(questions'[Peer(v)][q], answers'[v][q], issued'[Peer(v)],
                       chan'[Peer(v)], chan'[v], q)
  <2>1. /\ SlotOK(questions[v][q], answers[Peer(v)][q], issued[v],
                  chan[v], chan[Peer(v)], q)
        /\ SlotOK(questions[Peer(v)][q], answers[v][q], issued[Peer(v)],
                  chan[Peer(v)], chan[v], q)
    BY Sides
  <2>2. ~ AskFor(m, q) /\ ~ FinishOf(m, q) /\ ~ PipedTo(m, q) /\ ~ ReturnTo(m, q)
    BY DEF AskFor, FinishOf, PipedTo, ReturnTo
  <2>3. SlotOK(questions[v][q], answers[Peer(v)][q], issued[v], chan'[v], chan[Peer(v)], q)
    BY <1>1, <2>1, <2>2, OtherSent
  <2>4. SlotOK(questions[Peer(v)][q], answers[v][q], issued[Peer(v)], chan[Peer(v)], chan'[v], q)
    BY <1>1, <2>1, <2>2, OtherAnswered
  <2> QED
    BY <1>1, <2>3, <2>4
<1> QED
  BY <1>2, <1>3, KeptBySides

\* A vat asks a question, and sends what asks it.
LEMMA AskKeeps ==
    ASSUME IdsInv, BothConnected, NEW v \in Vats, NEW m \in Message,
           chan' = Transmit(chan, v, m), MayAsk(v), Ask(v),
           m.t \in {"bootstrap", "call"}, m.q = FreeId(questions[v]),
           m.call = issued[v] + 1,
           m.t = "call" /\ m.target.kind = "promisedAnswer" =>
                /\ About(m.target, questions[v][m.target.id])
                /\ questions[v][m.target.id].ref,
           built'[v] = built[v] \/ built'[v] = None,
           built'[Peer(v)] = built[Peer(v)], UNCHANGED answers
    PROVE  IdsKept'
<1> DEFINE f == FreeId(questions[v])
<1>1. Longer(chan[v], chan'[v], m) /\ chan'[Peer(v)] = chan[Peer(v)]
  BY Sent
<1>2. f \in QuestionIds /\ questions[v][f] = None
  <2>1. DOMAIN questions[v] = 0 .. MaxQuestions - 1
    BY Together DEF TypeOK, QuestionIds
  <2> QED
    BY <2>1, FreeIdIsFree, BoundsAssumption DEF QuestionIds, MayAsk
<1>3. /\ questions'[v] = [questions[v] EXCEPT ![f] = NewQuestion(v)]
      /\ questions'[Peer(v)] = questions[Peer(v)]
      /\ issued'[v] = issued[v] + 1 /\ issued'[Peer(v)] = issued[Peer(v)]
  BY Together DEF Ask, TypeOK
<1>4. /\ questions'[v][f] = NewQuestion(v)
      /\ \A q \in QuestionIds : q # f => questions'[v][q] = questions[v][q]
  BY <1>2, <1>3, Together DEF TypeOK
<1>5. NewQuestion(v) # None
  <2>1. NewQuestion(v) \in Question
    BY Together DEF NewQuestion, Question, TypeOK
  <2> QED
    BY <2>1, NoneFacts
<1> HIDE DEF f
<1>6. BuiltOK(v)'
  BY <1>2, <1>4, BuiltKept
<1>7. BuiltOK(Peer(v))'
  BY <1>3, Together DEF BuiltOK
<1>8. ASSUME NEW q \in QuestionIds
      PROVE  SlotOK(questions'[v][q], answers[Peer(v)][q], issued[v] + 1,
                    chan'[v], chan[Peer(v)], q)
  <2>1. /\ SlotOK(questions[v][q], answers[Peer(v)][q], issued[v],
                  chan[v], chan[Peer(v)], q)
        /\ questions[v][q] \in Question \cup {None}
        /\ answers[Peer(v)][q] \in Answer \cup {None}
    BY Sides
  <2>2. issued[v] \in Nat /\ chan[v] \in Seq(Message) /\ chan'[v] \in Seq(Message)
    <3>1. issued[v] \in Nat /\ chan[v] \in Seq(Message) /\ TypeOK
      BY Together
    <3>2. Transmit(chan, v, m) \in Channels
      BY <3>1, TransmitType, ChannelTypes
    <3> QED
      BY <3>1, <3>2 DEF Channels
  <2>3. ~ FinishOf(m, q)
    BY DEF FinishOf
  <2>4. CASE q = f
    <3>1. AskFor(m, q)
      BY <2>4 DEF AskFor, f
    <3>2. ~ PipedTo(m, q)
      BY <1>2, <2>4 DEF PipedTo, About
    <3>3. SlotOK(None, answers[Peer(v)][q], issued[v], chan[v], chan[Peer(v)], q)
      BY <1>2, <2>1, <2>4
    <3>4. /\ NewQuestion(v).call = issued[v] + 1 /\ NewQuestion(v).awaiting
          /\ NewQuestion(v).ref /\ ~ NewQuestion(v).skip
      BY DEF NewQuestion
    <3>5. SlotOK(NewQuestion(v), answers[Peer(v)][q], issued[v] + 1,
                 chan'[v], chan[Peer(v)], q)
      BY <1>1, <1>5, <2>2, <2>3, <3>1, <3>2, <3>3, <3>4, Asked
    <3> QED
      BY <1>4, <2>4, <3>5
  <2>5. CASE q # f
    <3>1. ~ AskFor(m, q)
      BY <2>5 DEF AskFor, f
    <3>2. SlotOK(questions[v][q], answers[Peer(v)][q], issued[v],
                 chan'[v], chan[Peer(v)], q)
      <4>1. CASE PipedTo(m, q)
        <5>1. m.target.call = questions[v][q].call /\ questions[v][q].ref
              /\ questions[v][q] \in Question
          BY <2>1, <4>1 DEF PipedTo, About
        <5> QED
          BY <1>1, <2>1, <2>2, <2>3, <3>1, <4>1, <5>1, Piped
      <4>2. CASE ~ PipedTo(m, q)
        BY <1>1, <2>1, <2>3, <3>1, <4>2, OtherSent
      <4> QED
        BY <4>1, <4>2
    <3>3. SlotOK(questions[v][q], answers[Peer(v)][q], issued[v] + 1,
                 chan'[v], chan[Peer(v)], q)
      BY <2>1, <2>2, <3>2, MoreAsked
    <3> QED
      BY <1>4, <2>5, <3>3
  <2> QED
    BY <2>4, <2>5
<1>9. ASSUME NEW q \in QuestionIds
      PROVE  SlotOK(questions[Peer(v)][q], answers[v][q], issued[Peer(v)],
                    chan[Peer(v)], chan'[v], q)
  <2>1. ~ ReturnTo(m, q)
    BY DEF ReturnTo
  <2> QED
    BY <1>1, <2>1, Sides, OtherAnswered
<1> QED
  BY <1>1, <1>3, <1>6, <1>7, <1>8, <1>9, KeptBySides

\* ConnectionState::bootstrap.
LEMMA BootstrapKeepsIds ==
    ASSUME IdsInv, BothConnected, NEW v \in Vats, Bootstrap(v)
    PROVE  IdsKept'
<1> DEFINE m == [t |-> "bootstrap", q |-> FreeId(questions[v]),
                 call |-> issued[v] + 1]
<1>1. /\ MayAsk(v) /\ Ask(v) /\ chan' = Transmit(chan, v, m)
      /\ UNCHANGED <<answers, built>>
  BY Together DEF Bootstrap
<1>2. m \in Message
  BY <1>1, FreeQuestionId, Together, SMTT(30) DEF MayAsk, Message
<1>3. /\ m.t = "bootstrap" /\ m.q = FreeId(questions[v]) /\ m.call = issued[v] + 1
  OBVIOUS
<1> HIDE DEF m
<1> QED
  BY <1>1, <1>2, <1>3, AskKeeps

\* Client::new_call and Request::new.
LEMMA BuildRequestKeepsIds ==
    ASSUME IdsInv, BothConnected, NEW v \in Vats, NEW target \in Targets(v),
           NEW arg \in Arguments(v), BuildRequest(v, target, arg)
    PROVE  IdsKept'
<1>1. /\ built' = [built EXCEPT ![v] = [target |-> target, arg |-> arg]]
      /\ UNCHANGED <<chan, questions, answers, issued>>
  BY DEF BuildRequest
<1>2. built'[v] = [target |-> target, arg |-> arg] /\ built'[Peer(v)] = built[Peer(v)]
  BY <1>1, Together DEF TypeOK
<1>3. target.kind = "promisedAnswer" =>
        About(target, questions[v][target.id]) /\ questions[v][target.id].ref
  BY DEF Targets, About
<1>4. BuiltOK(v)' /\ BuiltOK(Peer(v))'
  BY <1>1, <1>2, <1>3, Together DEF BuiltOK
<1>5. \A q \in QuestionIds :
        /\ SlotOK(questions'[v][q], answers'[Peer(v)][q], issued'[v],
                  chan'[v], chan'[Peer(v)], q)
        /\ SlotOK(questions'[Peer(v)][q], answers'[v][q], issued'[Peer(v)],
                  chan'[Peer(v)], chan'[v], q)
  BY <1>1, Sides
<1> QED
  BY <1>4, <1>5, KeptBySides

\* Request::send and send_internal.
LEMMA SendRequestKeepsIds ==
    ASSUME IdsInv, BothConnected, NEW v \in Vats, SendRequest(v)
    PROVE  IdsKept'
<1> DEFINE w == WriteDescriptor(v, built[v].arg)
           m == [t |-> "call", q |-> FreeId(questions[v]),
                 call |-> issued[v] + 1, target |-> built[v].target,
                 cap |-> w.desc]
<1>1. /\ built[v].target \in Target /\ built[v].arg \in Argument /\ built[v] # None
      /\ MayAsk(v) /\ RoomToExport(v, built[v].arg)
  BY Together DEF SendRequest, TypeOK
<1>2. built' = [built EXCEPT ![v] = None] /\ UNCHANGED answers
  BY DEF SendRequest
<1>3. built'[v] = None /\ built'[Peer(v)] = built[Peer(v)]
  BY <1>2, Together DEF TypeOK
<1>4. CASE w.panic
  <2>1. UNCHANGED <<chan, questions, answers, issued>>
    BY <1>4 DEF SendRequest
  <2>2. BuiltOK(v)' /\ BuiltOK(Peer(v))'
    BY <1>3, <2>1, Together DEF BuiltOK
  <2>3. \A q \in QuestionIds :
          /\ SlotOK(questions'[v][q], answers'[Peer(v)][q], issued'[v],
                    chan'[v], chan'[Peer(v)], q)
          /\ SlotOK(questions'[Peer(v)][q], answers'[v][q], issued'[Peer(v)],
                    chan'[Peer(v)], chan'[v], q)
    BY <2>1, Sides
  <2> QED
    BY <2>2, <2>3, KeptBySides
<1>5. CASE ~ w.panic
  <2>1. Ask(v) /\ chan' = Transmit(chan, v, m)
    BY <1>5 DEF SendRequest
  <2>2. w.desc \in Descriptor
    BY <1>1, WriteDescriptorType, Together
  <2>3. /\ m.t = "call" /\ m.q = FreeId(questions[v])
        /\ m.call = issued[v] + 1 /\ m.target = built[v].target
    OBVIOUS
  <2>5. m \in Message
    <3>0. TypeOK /\ issued[v] \in Nat
      BY Together
    <3>1. FreeId(questions[v]) \in QuestionIds /\ issued[v] + 1 \in Nat
      BY <1>1, <3>0, FreeQuestionId DEF MayAsk
    <3> HIDE DEF w
    <3> QED BY <1>1, <2>2, <3>1 DEF Message
  <2>4. m.target.kind = "promisedAnswer" =>
          /\ About(m.target, questions[v][m.target.id])
          /\ questions[v][m.target.id].ref
    BY <1>1, Together DEF BuiltOK
  <2> HIDE DEF m, w
  <2> QED
    BY <1>1, <1>2, <1>3, <2>1, <2>3, <2>4, <2>5, AskKeeps
<1> QED
  BY <1>4, <1>5

\* QuestionRef::drop.
LEMMA DropQuestionRefKeepsIds ==
    ASSUME IdsInv, BothConnected, NEW v \in Vats, NEW p \in QuestionIds,
           DropQuestionRef(v, p)
    PROVE  IdsKept'
<1> DEFINE qn == questions[v][p]
           m == [t |-> "finish", q |-> p, call |-> qn.call,
                 release |-> ReleaseResultCaps(qn)]
<1>1. /\ qn # None /\ qn.ref /\ ~ HeldByRequest(v, "promisedAnswer", p)
      /\ qn.skip => chan' = chan
      /\ ~ qn.skip => chan' = Transmit(chan, v, m)
      /\ questions' = [questions EXCEPT ![v][p] = Dropped(qn)]
      /\ UNCHANGED <<answers, built, issued>>
  BY DEF DropQuestionRef
<1>2. qn \in Question /\ TypeOK
  <2>1. TypeOK /\ questions[v][p] \in Question \cup {None}
    BY Sides, Together
  <2> QED
    BY <1>1, <2>1
<1>3. m \in Message
  <2> HIDE DEF qn
  <2> QED BY <1>2 DEF Message, ReleaseResultCaps, Question
<1>4. m.t = "finish" /\ m.q = p /\ m.call = qn.call
  OBVIOUS
<1> HIDE DEF m, qn
<1>5. /\ questions'[v][p] = Dropped(qn)
      /\ \A q \in QuestionIds : q # p => questions'[v][q] = questions[v][q]
      /\ questions'[Peer(v)] = questions[Peer(v)]
  <2>1. Peer(v) # v /\ Peer(v) \in Vats
    BY Together
  <2> QED
    BY <1>1, <1>2, <2>1 DEF TypeOK
<1>6. BuiltOK(v)'
  BY <1>1, <1>5, BuiltKept
<1>7. BuiltOK(Peer(v))'
  BY <1>1, <1>5, Together DEF BuiltOK
<1>8. ~ qn.skip => Longer(chan[v], chan'[v], m) /\ chan'[Peer(v)] = chan[Peer(v)]
  BY <1>1, <1>3, Sent
<1>9. ASSUME NEW q \in QuestionIds
      PROVE  SlotOK(questions'[v][q], answers[Peer(v)][q], issued[v],
                    chan'[v], chan[Peer(v)], q)
  <2>1. SlotOK(questions[v][q], answers[Peer(v)][q], issued[v],
               chan[v], chan[Peer(v)], q)
    BY Sides
  <2>2. ~ AskFor(m, q) /\ ~ PipedTo(m, q) /\ (FinishOf(m, q) <=> q = p)
    BY <1>4 DEF AskFor, PipedTo, FinishOf
  <2>3. CASE q # p
    <3>1. CASE qn.skip
      BY <1>1, <1>5, <2>1, <2>3, <3>1
    <3>2. CASE ~ qn.skip
      BY <1>5, <1>8, <2>1, <2>2, <2>3, <3>2, OtherSent
    <3> QED
      BY <3>1, <3>2
  <2>4. CASE q = p
    <3>1. SlotOK(qn, answers[Peer(v)][p], issued[v], chan[v], chan[Peer(v)], p)
      BY <2>1, <2>4 DEF qn
    <3>2. FinishOf(m, p) /\ ~ AskFor(m, p) /\ ~ PipedTo(m, p)
      BY <2>2, <2>4
    <3>3. issued[v] \in Nat
      BY Together
    <3>4. SlotOK(Dropped(qn), answers[Peer(v)][p], issued[v], chan'[v], chan[Peer(v)], p)
      <4>1. CASE qn.awaiting
        <5>1. ~ qn.skip
          BY <1>1, <3>1, <4>1 DEF SlotOK, QuestionOK
        <5>2. /\ Dropped(qn) \in Question
              /\ Dropped(qn).call = qn.call /\ Dropped(qn).awaiting
              /\ ~ Dropped(qn).ref /\ Dropped(qn).skip = qn.skip
          BY <1>2, <4>1 DEF Dropped, Question
        <5>3. Dropped(qn) # None
          BY <5>2, NoneFacts
        <5> QED
          BY <1>1, <1>2, <1>4, <1>8, <3>1, <3>2, <3>3, <4>1, <5>1, <5>2, <5>3,
             DroppedAwaiting
      <4>2. CASE ~ qn.awaiting
        <5>1. Dropped(qn) = None
          BY <4>2 DEF Dropped
        <5>2. CASE qn.skip
          BY <1>1, <1>2, <3>1, <4>2, <5>1, <5>2, DroppedSilently
        <5>3. CASE ~ qn.skip
          BY <1>2, <1>4, <1>8, <3>1, <3>2, <4>2, <5>1, <5>3, DroppedReturned
        <5> QED
          BY <5>2, <5>3
      <4> QED
        BY <4>1, <4>2
    <3> QED
      BY <1>5, <2>4, <3>4
  <2> QED
    BY <2>3, <2>4
<1>10. ASSUME NEW q \in QuestionIds
       PROVE  SlotOK(questions[Peer(v)][q], answers[v][q], issued[Peer(v)],
                     chan[Peer(v)], chan'[v], q)
  <2>1. SlotOK(questions[Peer(v)][q], answers[v][q], issued[Peer(v)],
               chan[Peer(v)], chan[v], q)
    BY Sides
  <2>2. ~ ReturnTo(m, q)
    BY <1>4 DEF ReturnTo
  <2>3. CASE qn.skip
    BY <1>1, <2>1, <2>3
  <2>4. CASE ~ qn.skip
    BY <1>8, <2>1, <2>2, <2>4, OtherAnswered
  <2> QED
    BY <2>3, <2>4
<1>11. chan'[Peer(v)] = chan[Peer(v)]
  BY <1>1, <1>8
<1> QED
  BY <1>1, <1>5, <1>6, <1>7, <1>9, <1>10, <1>11, KeptBySides

\* ImportClient::drop.
LEMMA DropImportKeepsIds ==
    ASSUME IdsInv, BothConnected, NEW v \in Vats, NEW e \in ExportIds,
           DropImport(v, e)
    PROVE  IdsKept'
<1> DEFINE m == [t |-> "release", id |-> e, n |-> imports[v][e]]
<1>1. m \in Message
  BY Together DEF DropImport, TypeOK, Message
<1>2. chan' = Transmit(chan, v, m) /\ UNCHANGED <<questions, answers, built, issued>>
  BY DEF DropImport
<1>3. m.t \notin {"bootstrap", "call", "return", "finish"}
  OBVIOUS
<1> HIDE DEF m
<1> QED
  BY <1>1, <1>2, <1>3, SendOther

\* The callee changes an answer in what is not about ids.
LEMMA AnswerTouched ==
    ASSUME IdsInv, BothConnected, NEW v \in Vats, NEW p \in QuestionIds,
           NEW b \in Answer, answers[v][p] # None,
           answers' = [answers EXCEPT ![v][p] = b],
           b.call = answers[v][p].call, b.finish = answers[v][p].finish,
           Open(answers[v][p]), Open(b),
           UNCHANGED <<chan, questions, built, issued>>
    PROVE  IdsKept'
<1>1. /\ answers'[v][p] = b
      /\ \A q \in QuestionIds : q # p => answers'[v][q] = answers[v][q]
      /\ answers'[Peer(v)] = answers[Peer(v)]
  BY Together DEF TypeOK
<1>2. BuiltOK(v)' /\ BuiltOK(Peer(v))'
  BY Together DEF BuiltOK
<1>3. b # None /\ b.status # "redirected"
  BY NoneFacts DEF Open
<1>4. ASSUME NEW q \in QuestionIds
      PROVE  SlotOK(questions[Peer(v)][q], answers'[v][q], issued[Peer(v)],
                    chan[Peer(v)], chan[v], q)
  <2>1. SlotOK(questions[Peer(v)][q], answers[v][q], issued[Peer(v)],
               chan[Peer(v)], chan[v], q)
    BY Sides
  <2>2. CASE q = p
    BY <1>1, <1>3, <2>1, <2>2, SameAnswer
  <2> QED
    BY <1>1, <2>1, <2>2
<1>5. \A q \in QuestionIds :
        SlotOK(questions[v][q], answers[Peer(v)][q], issued[v],
               chan[v], chan[Peer(v)], q)
  BY Sides
<1> QED
  BY <1>1, <1>2, <1>4, <1>5, KeptBySides

\* eagerly_evaluate, and ResultsInner::ensure_initialized.
LEMMA RunningKeepsIds ==
    ASSUME IdsInv, BothConnected, NEW v \in Vats, NEW q \in QuestionIds,
           CancelCall(v, q) \/ InitResults(v, q)
    PROVE  IdsKept'
<1> DEFINE a == answers[v][q]
<1>1. a # None /\ Open(a)
  BY DEF CancelCall, InitResults, Executing, Unreturned, Open
<1>2. a \in Answer
  BY <1>1, Together DEF TypeOK
<1>3. CASE CancelCall(v, q)
  <2> DEFINE b == [a EXCEPT !.eager = FALSE]
  <2>1. answers' = [answers EXCEPT ![v][q] = b]
        /\ UNCHANGED <<chan, questions, built, issued>>
    BY <1>3 DEF CancelCall
  <2>2. b \in Answer /\ b.call = a.call /\ b.finish = a.finish /\ Open(b)
    <3> HIDE DEF a
    <3> QED BY <1>1, <1>2 DEF Answer, Open
  <2> HIDE DEF b
  <2> QED
    BY <1>1, <2>1, <2>2, AnswerTouched
<1>4. CASE InitResults(v, q)
  <2> DEFINE b == [a EXCEPT !.status = "init"]
  <2>1. answers' = [answers EXCEPT ![v][q] = b]
        /\ UNCHANGED <<chan, questions, built, issued>>
    BY <1>4 DEF InitResults
  <2>2. b \in Answer /\ b.call = a.call /\ b.finish = a.finish /\ Open(b)
    <3> HIDE DEF a
    <3> QED BY <1>1, <1>2 DEF Answer, Open
  <2> HIDE DEF b
  <2> QED
    BY <1>1, <2>1, <2>2, AnswerTouched
<1> QED
  BY <1>3, <1>4

\* answer_has_sent_return and PipelineInnerSender::complete: the answer of q
\* is forgotten or kept, and the others lose no more than their place in
\* its queue.
LEMMA SentReturnAnswers ==
    ASSUME TypeOK, NEW v \in Vats, NEW q \in QuestionIds, NEW finish \in BOOLEAN,
           NEW exp \in ExportIds \cup {None}, NEW ok \in BOOLEAN,
           answers[v][q] # None
    PROVE  LET as == Unqueue(SentReturn(answers[v], q, finish, exp, ok), q, ok)
           IN  /\ finish => as[q] = None
               /\ ~ finish => /\ as[q] # None /\ as[q].call = answers[v][q].call
                              /\ as[q].status = "returned"
               /\ \A r \in QuestionIds : r # q =>
                    /\ as[r] = None <=> answers[v][r] = None
                    /\ answers[v][r] # None =>
                        /\ as[r].call = answers[v][r].call
                        /\ as[r].finish = answers[v][r].finish
                        /\ as[r].status = answers[v][r].status
<1> DEFINE sent == SentReturn(answers[v], q, finish, exp, ok)
           as == Unqueue(sent, q, ok)
<1>1. answers[v] \in [QuestionIds -> Answer \cup {None}] /\ answers[v][q] \in Answer
  BY DEF TypeOK
<1>2. sent \in [QuestionIds -> Answer \cup {None}]
  BY <1>1, SentReturnType
<1>3. \A r \in QuestionIds : r # q => sent[r] = answers[v][r]
  BY <1>1 DEF SentReturn
<1>4. /\ finish => sent[q] = None
      /\ ~ finish => /\ sent[q] \in Answer /\ sent[q].call = answers[v][q].call
                     /\ sent[q].status = "returned"
  <2> DEFINE kept == [answers[v][q] EXCEPT !.status = "returned", !.exp = exp, !.ok = ok]
  <2>1. kept \in Answer /\ kept.call = answers[v][q].call /\ kept.status = "returned"
    BY <1>1 DEF Answer
  <2>2. sent[q] = IF finish THEN None ELSE kept
    BY <1>1 DEF SentReturn
  <2> HIDE DEF kept, sent
  <2> QED
    BY <2>1, <2>2
<1> HIDE DEF sent
<1>5. \A r \in QuestionIds : /\ sent[r] = None => as[r] = None
                             /\ sent[r] \in Answer =>
                                /\ as[r] \in Answer /\ as[r].call = sent[r].call
                                /\ as[r].finish = sent[r].finish
                                /\ as[r].status = sent[r].status
  <2> SUFFICES ASSUME NEW r \in QuestionIds
               PROVE  /\ sent[r] = None => as[r] = None
                      /\ sent[r] \in Answer =>
                            /\ as[r] \in Answer /\ as[r].call = sent[r].call
                            /\ as[r].finish = sent[r].finish
                            /\ as[r].status = sent[r].status
    OBVIOUS
  <2>1. sent[r] = None => as[r] = None
    BY DEF Unqueue
  <2>2. ASSUME sent[r] \in Answer
        PROVE  /\ as[r] \in Answer /\ as[r].call = sent[r].call
               /\ as[r].finish = sent[r].finish /\ as[r].status = sent[r].status
    <3> DEFINE a == sent[r]
               b == [a EXCEPT !.waits = @ \ {q}, !.broken = @ \/ ~ok]
    <3>1. as[r] = a \/ as[r] = b
      BY DEF Unqueue
    <3>2. b \in Answer /\ b.call = a.call /\ b.finish = a.finish /\ b.status = a.status
      <4> HIDE DEF a
      <4>1. a \in Answer
        BY <2>2 DEF a
      <4> QED
        BY <4>1 DEF Answer
    <3> QED
      BY <2>2, <3>1, <3>2
  <2> QED
    BY <2>1, <2>2
<1> HIDE DEF as
<1>6. \A r \in QuestionIds : answers[v][r] = None \/ answers[v][r] \in Answer
  BY <1>1
<1>7. None \notin Answer
  BY NoneFacts
<1>8. /\ finish => as[q] = None
      /\ ~ finish => /\ as[q] # None /\ as[q].call = answers[v][q].call
                     /\ as[q].status = "returned"
  BY <1>4, <1>5, <1>7
<1>9. \A r \in QuestionIds : r # q =>
        /\ as[r] = None <=> answers[v][r] = None
        /\ answers[v][r] # None =>
            /\ as[r].call = answers[v][r].call
            /\ as[r].finish = answers[v][r].finish
            /\ as[r].status = answers[v][r].status
  BY <1>3, <1>5, <1>6, <1>7
<1> QED
  BY <1>8, <1>9 DEF as, sent

\* ResultsDone::from_results_inner: the Return is sent and its answer
\* forgotten, or kept until the Finish.
LEMMA ReturnKeeps ==
    ASSUME IdsInv, BothConnected, NEW v \in Vats, NEW p \in QuestionIds,
           NEW finish \in BOOLEAN, NEW exp \in ExportIds \cup {None},
           NEW ok \in BOOLEAN, NEW m \in Message,
           Unreturned(v, p),
           chan' = Transmit(chan, v, m),
           answers' = [answers EXCEPT ![v] =
                Unqueue(SentReturn(answers[v], p, finish, exp, ok), p, ok)],
           m.t = "return", m.q = p, m.call = answers[v][p].call,
           ~ finish => ~ answers[v][p].finish,
           m.nofinish => finish,
           m.which = "canceled" => answers[v][p].finish,
           UNCHANGED <<questions, built, issued>>
    PROVE  IdsKept'
<1> DEFINE as == Unqueue(SentReturn(answers[v], p, finish, exp, ok), p, ok)
<1>1. Longer(chan[v], chan'[v], m) /\ chan'[Peer(v)] = chan[Peer(v)]
  BY Sent
<1>2. answers'[v] = as /\ answers'[Peer(v)] = answers[Peer(v)] /\ TypeOK
  BY Together DEF TypeOK
<1>3. answers[v][p] # None /\ Open(answers[v][p])
  BY DEF Unreturned, Open
<1>4. /\ finish => as[p] = None
      /\ ~ finish => /\ as[p] # None /\ as[p].call = answers[v][p].call
                     /\ as[p].status = "returned"
      /\ \A r \in QuestionIds : r # p =>
            /\ as[r] = None <=> answers[v][r] = None
            /\ answers[v][r] # None =>
                /\ as[r].call = answers[v][r].call
                /\ as[r].finish = answers[v][r].finish
                /\ as[r].status = answers[v][r].status
  BY <1>2, <1>3, SentReturnAnswers
<1> HIDE DEF as
<1>5. BuiltOK(v)' /\ BuiltOK(Peer(v))'
  BY Together DEF BuiltOK
<1>6. ASSUME NEW q \in QuestionIds
      PROVE  SlotOK(questions[v][q], answers[Peer(v)][q], issued[v],
                    chan'[v], chan[Peer(v)], q)
  <2>1. ~ AskFor(m, q) /\ ~ FinishOf(m, q) /\ ~ PipedTo(m, q)
    BY DEF AskFor, FinishOf, PipedTo
  <2> QED
    BY <1>1, <2>1, Sides, OtherSent
<1>7. ASSUME NEW q \in QuestionIds
      PROVE  SlotOK(questions[Peer(v)][q], as[q], issued[Peer(v)],
                    chan[Peer(v)], chan'[v], q)
  <2> DEFINE qn == questions[Peer(v)][q]
             an == answers[v][q]
  <2>1. SlotOK(qn, an, issued[Peer(v)], chan[Peer(v)], chan[v], q)
    BY Sides
  <2> HIDE DEF qn
  <2>2. CASE q # p
    <3>1. SlotOK(qn, as[q], issued[Peer(v)], chan[Peer(v)], chan[v], q)
      <4>1. CASE an = None
        BY <1>4, <2>1, <2>2, <4>1
      <4>2. CASE an # None
        <5>1. /\ as[q] # None /\ as[q].call = an.call /\ as[q].finish = an.finish
              /\ as[q].status = an.status
          BY <1>4, <2>2, <4>2
        <5>2. an.status # "redirected"
          BY <2>1, <4>2 DEF SlotOK, AnswerOK
        <5>3. Open(as[q]) <=> Open(an)
          BY <5>1 DEF Open
        <5> QED
          BY <2>1, <4>2, <5>1, <5>2, <5>3, SameAnswer
      <4> QED
        BY <4>1, <4>2
    <3>2. ~ ReturnTo(m, q)
      BY <2>2 DEF ReturnTo
    <3> QED
      BY <1>1, <3>1, <3>2, OtherAnswered DEF qn
  <2>3. CASE q = p
    <3>1. an # None /\ Open(an) /\ an = answers[v][p]
      BY <1>3, <2>3
    <3> HIDE DEF an
    <3>2. /\ About(an, qn) /\ qn.awaiting
          /\ an.finish => ~ qn.ref
          /\ \A i \in 1 .. Len(chan[Peer(v)]) : ~ AskFor(chan[Peer(v)][i], q)
          /\ \A i \in 1 .. Len(chan[v]) : ~ ReturnTo(chan[v][i], q)
      BY <2>1, <3>1, OpenAnswer
    <3>3. \/ as[q] = None
          \/ /\ as[q] # None /\ as[q].call = an.call /\ as[q].status = "returned"
             /\ ~ an.finish
      BY <1>4, <2>3, <3>1
    <3>4. SlotOK(qn, as[q], issued[Peer(v)], chan[Peer(v)], chan[v], q)
      BY <2>1, <3>1, <3>3, Closed
    <3>5. /\ ReturnTo(m, q) /\ About(m, qn)
          /\ as[q] # None => ~ Open(as[q])
          /\ m.nofinish => as[q] = None
          /\ m.which = "canceled" => ~ qn.ref
      BY <1>4, <2>3, <3>1, <3>2, <3>3 DEF ReturnTo, About, Open
    <3> QED
      BY <1>1, <3>2, <3>4, <3>5, ReturnSent DEF qn
  <2> QED
    BY <2>2, <2>3
<1> QED
  BY <1>1, <1>2, <1>5, <1>6, <1>7, KeptBySides

\* The three Returns of a connected vat.
LEMMA ReturnCanceledKeepsIds ==
    ASSUME IdsInv, BothConnected, NEW v \in Vats, NEW q \in QuestionIds,
           NEW ok \in BOOLEAN, ReturnCanceled(v, q, ok)
    PROVE  IdsKept'
<1> DEFINE m == ReturnMsg(v, q, "canceled", [kind |-> "none", id |-> 0], FALSE)
<1>1. /\ Unreturned(v, q) /\ answers[v][q].finish
      /\ chan' = Transmit(chan, v, m)
      /\ answers' = [answers EXCEPT ![v] =
            Unqueue(SentReturn(answers[v], q, TRUE, None, ok), q, ok)]
      /\ UNCHANGED <<questions, built, issued>>
  BY DEF ReturnCanceled, Executing
<1>2. m \in Message
  BY <1>1, ReturnMsgType, NoCap, Together
<1>3. /\ m.t = "return" /\ m.q = q /\ m.call = answers[v][q].call /\ ~ m.nofinish
  BY DEF ReturnMsg
<1> HIDE DEF m
<1> QED
  BY <1>1, <1>2, <1>3, ReturnKeeps

\* A Return with an exception.
LEMMA ReturnExceptionKeepsIds ==
    ASSUME IdsInv, BothConnected, NEW v \in Vats, NEW q \in QuestionIds,
           ReturnException(v, q)
    PROVE  IdsKept'
<1> DEFINE m == ReturnMsg(v, q, "exception", [kind |-> "none", id |-> 0], FALSE)
<1>1. /\ Unreturned(v, q) /\ ~ answers[v][q].finish
      /\ chan' = Transmit(chan, v, m)
      /\ answers' = [answers EXCEPT ![v] =
            Unqueue(SentReturn(answers[v], q, FALSE, None, FALSE), q, FALSE)]
      /\ UNCHANGED <<questions, built, issued>>
  BY DEF ReturnException, Executing
<1>2. m \in Message
  BY <1>1, ReturnMsgType, NoCap, Together
<1>3. /\ m.t = "return" /\ m.q = q /\ m.call = answers[v][q].call /\ ~ m.nofinish
      /\ m.which = "exception"
  BY DEF ReturnMsg
<1> HIDE DEF m
<1> QED
  BY <1>1, <1>2, <1>3, ReturnKeeps

\* A Return with results.
LEMMA ReturnResultsKeepsIds ==
    ASSUME IdsInv, BothConnected, NEW v \in Vats, NEW q \in QuestionIds,
           NEW arg \in Argument, ReturnResults(v, q, arg)
    PROVE  IdsKept'
<1> DEFINE w == WriteDescriptor(v, arg)
           nofinish == arg.kind = "none"
           exp == IF w.desc.kind = "senderHosted" THEN w.desc.id ELSE None
           m == ReturnMsg(v, q, "results", w.desc, nofinish)
<1>1. /\ Unreturned(v, q) /\ RoomToExport(v, arg) /\ ~ answers[v][q].finish
      /\ UNCHANGED <<questions, built, issued>> /\ TypeOK
  BY Together DEF ReturnResults, Executing
<1>2. w.desc \in Descriptor
  BY <1>1, WriteDescriptorType
<1>3. CASE w.panic
  <2>1. UNCHANGED <<chan, answers>>
    BY <1>3 DEF ReturnResults
  <2> QED
    BY <1>1, <2>1, IdsUntouched
<1>4. CASE ~ w.panic
  <2>1. /\ chan' = Transmit(chan, v, m)
        /\ answers' = [answers EXCEPT ![v] =
                Unqueue(SentReturn(answers[v], q, nofinish, exp, ~nofinish), q, ~nofinish)]
    BY <1>4 DEF ReturnResults
  <2>2. nofinish \in BOOLEAN /\ (~nofinish) \in BOOLEAN
    OBVIOUS
  <2> HIDE DEF nofinish
  <2>3. exp \in ExportIds \cup {None}
    <3> HIDE DEF w
    <3> QED BY <1>2 DEF Descriptor
  <2> HIDE DEF w, exp
  <2>4. m \in Message
    BY <1>1, <1>2, <2>2, ReturnMsgType
  <2>5. /\ m.t = "return" /\ m.q = q /\ m.call = answers[v][q].call
        /\ m.nofinish = nofinish /\ m.which = "results"
    BY DEF ReturnMsg
  <2> HIDE DEF m
  <2> QED
    BY <1>1, <2>1, <2>2, <2>3, <2>4, <2>5, ReturnKeeps
<1> QED
  BY <1>3, <1>4

\* Results are redirected only once the connection is lost.
LEMMA NotRedirected ==
    ASSUME IdsInv, BothConnected, NEW v \in Vats, NEW q \in QuestionIds,
           NEW ok, ReturnRedirected(v, q, ok)
    PROVE  FALSE
  BY Together DEF ReturnRedirected, RpcResults

-----------------------------------------------------------------------------
(* The message handlers *)

\* A message that is about no call of v is received; nothing else changes of
\* what ids are about, but the answer to it.
LEMMA CallerUnaffected ==
    ASSUME IdsInv, BothConnected, NEW v \in Vats, chan[Peer(v)] # << >>,
           Incoming(v).t # "return", NEW q \in QuestionIds
    PROVE  SlotOK(questions[v][q], answers[Peer(v)][q], issued[v],
                  chan[v], Remaining(v)[Peer(v)], q)
<1>1. ~ ReturnTo(Incoming(v), q)
  BY DEF ReturnTo
<1> QED
  BY <1>1, Received, Sides, OtherReceived

\* A message that is not about id q is received.
LEMMA CalleeUnaffected ==
    ASSUME IdsInv, BothConnected, NEW v \in Vats, chan[Peer(v)] # << >>,
           NEW q \in QuestionIds,
           ~ AskFor(Incoming(v), q), ~ FinishOf(Incoming(v), q)
    PROVE  SlotOK(questions[Peer(v)][q], answers[v][q], issued[Peer(v)],
                  Remaining(v)[Peer(v)], chan[v], q)
  BY Received, Sides, OtherTaken

\* The call under an id is taken up by a vat that has no answer under it.
LEMMA CallTaken ==
    ASSUME IdsInv, BothConnected, NEW v \in Vats, chan[Peer(v)] # << >>,
           Incoming(v).t \in {"bootstrap", "call"},
           answers[v][Incoming(v).q] = None, NEW a \in Answer,
           a.call = Incoming(v).call, ~ a.finish, a.status # "redirected",
           answers' = [answers EXCEPT ![v][Incoming(v).q] = a]
    PROVE  /\ Incoming(v).q \in QuestionIds
           /\ answers'[Peer(v)] = answers[Peer(v)]
           /\ answers'[v][Incoming(v).q] = a
           /\ \A q \in QuestionIds :
                SlotOK(questions[Peer(v)][q], answers'[v][q], issued[Peer(v)],
                       Remaining(v)[Peer(v)], chan[v], q)
           /\ About(Incoming(v), questions[Peer(v)][Incoming(v).q])
           /\ questions[Peer(v)][Incoming(v).q].awaiting
           /\ \A i \in 1 .. Len(Remaining(v)[Peer(v)]) :
                ~ AskFor(Remaining(v)[Peer(v)][i], Incoming(v).q)
           /\ \A i \in 1 .. Len(chan[v]) : ~ ReturnTo(chan[v][i], Incoming(v).q)
<1> DEFINE m == Incoming(v)
           p == m.q
<1>1. Shorter(chan[Peer(v)], Remaining(v)[Peer(v)], m) /\ m \in Message
  BY Received
<1>2. p \in QuestionIds
  BY <1>1 DEF Message
<1>3. /\ answers'[v][p] = a /\ answers'[Peer(v)] = answers[Peer(v)]
      /\ \A q \in QuestionIds : q # p => answers'[v][q] = answers[v][q]
  BY <1>2, Together DEF TypeOK
<1>4. a # None
  BY NoneFacts
<1>5. AskFor(m, p)
  BY DEF AskFor
<1>6. SlotOK(questions[Peer(v)][p], None, issued[Peer(v)], chan[Peer(v)], chan[v], p)
  BY <1>2, Sides
<1>7. /\ SlotOK(questions[Peer(v)][p], a, issued[Peer(v)],
                Remaining(v)[Peer(v)], chan[v], p)
      /\ About(m, questions[Peer(v)][p]) /\ questions[Peer(v)][p].awaiting
      /\ \A i \in 1 .. Len(Remaining(v)[Peer(v)]) : ~ AskFor(Remaining(v)[Peer(v)][i], p)
      /\ \A i \in 1 .. Len(chan[v]) : ~ ReturnTo(chan[v][i], p)
  <2> HIDE DEF m
  <2> QED BY <1>1, <1>4, <1>5, <1>6, TakenUp DEF m
<1>8. ASSUME NEW q \in QuestionIds, q # p
      PROVE  SlotOK(questions[Peer(v)][q], answers[v][q], issued[Peer(v)],
                    Remaining(v)[Peer(v)], chan[v], q)
  <2>1. ~ AskFor(m, q) /\ ~ FinishOf(m, q)
    BY <1>8 DEF AskFor, FinishOf
  <2> QED
    BY <2>1, CalleeUnaffected
<1> QED
  BY <1>2, <1>3, <1>7, <1>8

\* handle_bootstrap: the call is taken up and returned at once.
LEMMA HandleBootstrapKeepsIds ==
    ASSUME IdsInv, BothConnected, NEW v \in Vats, HandleBootstrap(v),
           BothConnected'
    PROVE  IdsKept'
<1> DEFINE m == Incoming(v)
           arg == [kind |-> "local", id |-> BootstrapCap]
           w == WriteDescriptor(v, arg)
           a == [call |-> m.call, finish |-> FALSE, status |-> "returned",
                 exp |-> w.desc.id, ok |-> TRUE, broken |-> FALSE,
                 waits |-> {}, eager |-> FALSE]
           r == [t |-> "return", q |-> m.q, call |-> m.call,
                 which |-> "results", cap |-> w.desc, nofinish |-> FALSE]
<1>1. /\ connected[v] /\ TypeOK /\ chan[Peer(v)] # << >> /\ m.t = "bootstrap"
      /\ UNCHANGED <<imports, built, issued>>
  BY Together DEF HandleBootstrap, CanHandle
<1>2. CASE w.panic
  <2>1. UNCHANGED <<chan, questions, answers>>
    BY <1>1, <1>2 DEF HandleBootstrap
  <2> QED
    BY <1>1, <2>1, IdsUntouched
<1>3. CASE ~ w.panic /\ answers[v][m.q] # None
  <2>1. Disconnect(v, Drained(v))
    BY <1>1, <1>3 DEF HandleBootstrap, Fail
  <2> QED
    BY <1>1, <2>1, DisconnectEnds
<1>4. CASE ~ w.panic /\ answers[v][m.q] = None
  <2>1. /\ RoomToExport(v, arg)
        /\ answers' = [answers EXCEPT ![v][m.q] = a]
        /\ chan' = Transmit(Remaining(v), v, r)
        /\ UNCHANGED questions
    BY <1>1, <1>4 DEF HandleBootstrap
  <2>2. m \in Message /\ Shorter(chan[Peer(v)], Remaining(v)[Peer(v)], m)
        /\ Remaining(v)[v] = chan[v] /\ Remaining(v) \in Channels
    BY <1>1, Received
  <2>3. m.q \in QuestionIds /\ m.call \in Nat
    BY <1>1, <2>2 DEF Message
  <2>4. arg \in Argument
    BY CapsAssumption DEF Argument
  <2>5. w.desc \in Descriptor
    <3> HIDE DEF arg
    <3> QED BY <1>1, <2>1, <2>4, WriteDescriptorType
  <2>6. w.desc.id \in ExportIds
    BY <2>5 DEF Descriptor
  <2> HIDE DEF w, m
  <2>7. /\ a \in Answer /\ a.call = m.call /\ ~ a.finish /\ a.status = "returned"
    BY <2>3, <2>6 DEF Answer
  <2>8. /\ r \in Message /\ r.t = "return" /\ r.q = m.q /\ r.call = m.call
        /\ ~ r.nofinish /\ r.which = "results"
    BY <2>3, <2>5 DEF Message
  <2> HIDE DEF a, r
  <2>9. /\ answers'[Peer(v)] = answers[Peer(v)]
        /\ answers'[v][m.q] = a
        /\ \A q \in QuestionIds :
                SlotOK(questions[Peer(v)][q], answers'[v][q], issued[Peer(v)],
                       Remaining(v)[Peer(v)], chan[v], q)
        /\ About(m, questions[Peer(v)][m.q]) /\ questions[Peer(v)][m.q].awaiting
        /\ \A i \in 1 .. Len(Remaining(v)[Peer(v)]) : ~ AskFor(Remaining(v)[Peer(v)][i], m.q)
        /\ \A i \in 1 .. Len(chan[v]) : ~ ReturnTo(chan[v][i], m.q)
    BY <1>1, <1>4, <2>1, <2>7, CallTaken DEF m
  <2>10. Longer(chan[v], chan'[v], r) /\ chan'[Peer(v)] = Remaining(v)[Peer(v)]
    <3>1. Peer(v) # v /\ loop[Peer(v)] /\ chan[v] \in Seq(Message)
      BY Together
    <3>2. chan' = [Remaining(v) EXCEPT ![v] = Append(chan[v], r)]
      BY <1>1, <2>1, <2>2, <3>1 DEF Transmit
    <3>3. chan'[v] = Append(chan[v], r) /\ chan'[Peer(v)] = Remaining(v)[Peer(v)]
      BY <2>2, <3>1, <3>2 DEF Channels
    <3> QED
      BY <2>8, <3>1, <3>3, LongerByAppend
  <2>11. ASSUME NEW q \in QuestionIds
         PROVE  SlotOK(questions[v][q], answers[Peer(v)][q], issued[v],
                       chan'[v], chan'[Peer(v)], q)
    <3>1. SlotOK(questions[v][q], answers[Peer(v)][q], issued[v],
                 chan[v], Remaining(v)[Peer(v)], q)
      BY <1>1, CallerUnaffected DEF m
    <3>2. ~ AskFor(r, q) /\ ~ FinishOf(r, q) /\ ~ PipedTo(r, q)
      BY <2>8 DEF AskFor, FinishOf, PipedTo
    <3> QED
      BY <2>10, <3>1, <3>2, OtherSent
  <2>12. ASSUME NEW q \in QuestionIds
         PROVE  SlotOK(questions[Peer(v)][q], answers'[v][q], issued[Peer(v)],
                       chan'[Peer(v)], chan'[v], q)
    <3>1. CASE q # m.q
      <4>1. ~ ReturnTo(r, q)
        BY <2>8, <3>1 DEF ReturnTo
      <4> QED
        BY <2>9, <2>10, <4>1, OtherAnswered
    <3>2. CASE q = m.q
      <4>1. /\ ReturnTo(r, q) /\ About(r, questions[Peer(v)][q])
            /\ answers'[v][q] # None => ~ Open(answers'[v][q])
        BY <2>7, <2>8, <2>9, <3>2 DEF ReturnTo, About, Open
      <4> QED
        BY <2>8, <2>9, <2>10, <3>2, <4>1, ReturnSent
    <3> QED
      BY <3>1, <3>2
  <2>13. BuiltOK(v)' /\ BuiltOK(Peer(v))'
    BY <1>1, <2>1, Together DEF BuiltOK
  <2> QED
    BY <1>1, <2>1, <2>9, <2>11, <2>12, <2>13, KeptBySides
<1> QED
  BY <1>2, <1>3, <1>4

\* handle_message, Call.
LEMMA HandleCallKeepsIds ==
    ASSUME IdsInv, BothConnected, NEW v \in Vats, HandleCall(v), BothConnected'
    PROVE  IdsKept'
<1> DEFINE m == Incoming(v)
           pipelined == m.target.kind = "promisedAnswer"
           a == [call |-> m.call, finish |-> FALSE, status |-> "new",
                 exp |-> None, ok |-> FALSE,
                 broken |-> pipelined /\ PipelineBroken(v, m.target.id),
                 waits |-> IF pipelined THEN QueuedOn(v, m.target.id) ELSE {},
                 eager |-> TRUE]
           fails == \/ ~pipelined /\ exports[v][m.target.id] = None
                    \/ answers[v][m.q] # None
<1>1. /\ connected[v] /\ TypeOK /\ chan[Peer(v)] # << >> /\ m.t = "call"
      /\ UNCHANGED <<built, issued>>
  BY Together DEF HandleCall, CanHandle
<1>2. CASE fails
  <2>1. Disconnect(v, Drained(v))
    BY <1>2 DEF HandleCall, Fail
  <2> QED
    BY <1>1, <2>1, DisconnectEnds
<1>3. CASE ~ fails
  <2>1. /\ answers[v][m.q] = None
        /\ answers' = [answers EXCEPT ![v][m.q] = a]
        /\ chan' = Remaining(v)
        /\ UNCHANGED questions
    BY <1>3 DEF HandleCall
  <2>2. m \in Message
    BY <1>1, Received
  <2>3. m.q \in QuestionIds /\ m.call \in Nat /\ m.target \in Target
    BY <1>1, <2>2 DEF Message
  <2>4. /\ a.waits \in SUBSET QuestionIds /\ a.broken \in BOOLEAN
    <3>1. pipelined => m.target.id \in QuestionIds
      BY <2>3 DEF Target
    <3>2. pipelined => QueuedOn(v, m.target.id) \in SUBSET QuestionIds
      BY <1>1, <3>1, QueuedOnType
    <3> QED
      BY <3>2
  <2>5. a.call = m.call /\ ~ a.finish /\ a.status = "new"
    OBVIOUS
  <2>6. a \in Answer
    <3> DEFINE broken == pipelined /\ PipelineBroken(v, m.target.id)
               waits == IF pipelined THEN QueuedOn(v, m.target.id) ELSE {}
    <3>1. broken \in BOOLEAN /\ waits \in SUBSET QuestionIds
      BY <2>4
    <3>2. a = [call |-> m.call, finish |-> FALSE, status |-> "new", exp |-> None,
               ok |-> FALSE, broken |-> broken, waits |-> waits, eager |-> TRUE]
      OBVIOUS
    <3> HIDE DEF broken, waits, a, m
    <3> QED
      BY <2>3, <3>1, <3>2 DEF Answer
  <2> HIDE DEF a
  <2>7. /\ answers'[Peer(v)] = answers[Peer(v)]
        /\ \A q \in QuestionIds :
                SlotOK(questions[Peer(v)][q], answers'[v][q], issued[Peer(v)],
                       Remaining(v)[Peer(v)], chan[v], q)
    BY <1>1, <2>1, <2>5, <2>6, CallTaken
  <2>8. \A q \in QuestionIds :
            SlotOK(questions[v][q], answers[Peer(v)][q], issued[v],
                   chan[v], Remaining(v)[Peer(v)], q)
    BY <1>1, CallerUnaffected
  <2>9. BuiltOK(v)' /\ BuiltOK(Peer(v))'
    BY <1>1, <2>1, Together DEF BuiltOK
  <2>10. chan'[v] = chan[v]
    BY <1>1, <2>1, Received
  <2> QED
    BY <1>1, <2>1, <2>7, <2>8, <2>9, <2>10, KeptBySides
<1> QED
  BY <1>2, <1>3

\* handle_message, Return: it finds the question of its call, which awaits
\* it, and the canceled one finds it dropped.
LEMMA HandleReturnKeepsIds ==
    ASSUME IdsInv, BothConnected, NEW v \in Vats, HandleReturn(v), BothConnected'
    PROVE  IdsKept'
<1> DEFINE m == Incoming(v)
           qn == questions[v][m.q]
           returned == [qn EXCEPT !.awaiting = FALSE, !.skip = SkipFinish(qn, m)]
           after == IF ~ qn.ref THEN None
                    ELSE IF m.which = "canceled" THEN returned
                    ELSE [returned EXCEPT !.pending = FALSE]
<1>1. /\ connected[v] /\ TypeOK /\ chan[Peer(v)] # << >> /\ m.t = "return"
      /\ UNCHANGED <<answers, built, issued>>
  BY Together DEF HandleReturn, CanHandle
<1>2. CASE qn = None
  <2>1. Disconnect(v, Drained(v))
    BY <1>2 DEF HandleReturn, Fail
  <2> QED
    BY <1>1, <2>1, DisconnectEnds
<1>3. CASE qn # None
  <2>1. /\ questions' = [questions EXCEPT ![v][m.q] = after]
        /\ chan' = IF qn.ref /\ m.which = "canceled"
                   THEN Transmit(Remaining(v), v, UnimplementedMsg)
                   ELSE Remaining(v)
    BY <1>3 DEF HandleReturn
  <2>2. /\ m \in Message /\ Shorter(chan[Peer(v)], Remaining(v)[Peer(v)], m)
        /\ Remaining(v)[v] = chan[v]
    BY <1>1, Received
  <2>3. m.q \in QuestionIds /\ m.nofinish \in BOOLEAN
    BY <1>1, <2>2 DEF Message
  <2>4. qn \in Question /\ SlotOK(qn, answers[Peer(v)][m.q], issued[v],
                                  chan[v], chan[Peer(v)], m.q)
    BY <1>3, <2>3, Sides
  <2>5. ReturnTo(m, m.q)
    BY <1>1 DEF ReturnTo
  <2> HIDE DEF m, qn, after
  <2>6. ~ (qn.ref /\ m.which = "canceled")
    <3>1. 1 \in 1 .. Len(chan[Peer(v)]) /\ chan[Peer(v)][1] = m
      BY <2>2, ShorterPlaces DEF Shorter
    <3> QED
      BY <2>4, <2>5, <3>1 DEF SlotOK, ReturnOK
  <2>7. chan' = Remaining(v)
    BY <2>1, <2>6
  <2>8. /\ ~ qn.ref => after = None
        /\ qn.ref => /\ after # None /\ after.call = qn.call /\ ~ after.awaiting
                     /\ after.ref /\ (after.skip => qn.skip \/ m.nofinish)
    <3>1. /\ returned \in Question /\ returned.call = qn.call /\ ~ returned.awaiting
          /\ returned.ref = qn.ref /\ returned.skip = (qn.skip \/ m.nofinish)
      BY <2>3, <2>4 DEF Question, SkipFinish
    <3>2. LET b == [returned EXCEPT !.pending = FALSE]
          IN  /\ b \in Question /\ b.call = returned.call /\ b.awaiting = returned.awaiting
              /\ b.ref = returned.ref /\ b.skip = returned.skip
      <4> HIDE DEF returned
      <4> QED BY <3>1 DEF Question
    <3> HIDE DEF returned
    <3>3. ~ qn.ref => after = None
      BY DEF after
    <3>4. qn.ref => after = returned \/ after = [returned EXCEPT !.pending = FALSE]
      BY DEF after
    <3> QED
      BY <3>1, <3>2, <3>3, <3>4, NoneFacts
  <2>9. /\ questions'[v][m.q] = after
        /\ \A q \in QuestionIds : q # m.q => questions'[v][q] = questions[v][q]
        /\ questions'[Peer(v)] = questions[Peer(v)]
    <3>1. Peer(v) # v /\ Peer(v) \in Vats
      BY Together
    <3> QED
      BY <1>1, <2>1, <2>3, <3>1 DEF TypeOK
  <2>10. BuiltOK(v)'
    BY <1>1, <2>8, <2>9, BuiltKept DEF qn
  <2>11. BuiltOK(Peer(v))'
    BY <1>1, <2>9, Together DEF BuiltOK
  <2>12. ASSUME NEW q \in QuestionIds
         PROVE  SlotOK(questions'[v][q], answers[Peer(v)][q], issued[v],
                       chan[v], Remaining(v)[Peer(v)], q)
    <3>1. CASE q # m.q
      <4>1. ~ ReturnTo(m, q)
        BY <3>1 DEF ReturnTo
      <4> QED
        BY <2>2, <2>9, <3>1, <4>1, Sides, OtherReceived
    <3>2. CASE q = m.q
      <4>1. CASE ~ qn.ref
        BY <2>2, <2>4, <2>5, <2>8, <2>9, <3>2, <4>1, ReceivedDropped
      <4>2. CASE qn.ref
        BY <2>2, <2>4, <2>5, <2>8, <2>9, <3>2, <4>2, ReceivedHeld
      <4> QED
        BY <4>1, <4>2
    <3> QED
      BY <3>1, <3>2
  <2>13. ASSUME NEW q \in QuestionIds
         PROVE  SlotOK(questions[Peer(v)][q], answers[v][q], issued[Peer(v)],
                       Remaining(v)[Peer(v)], chan[v], q)
    <3>1. ~ AskFor(m, q) /\ ~ FinishOf(m, q)
      BY <1>1 DEF AskFor, FinishOf
    <3> QED
      BY <1>1, <3>1, CalleeUnaffected DEF m
  <2> QED
    BY <1>1, <2>2, <2>7, <2>9, <2>10, <2>11, <2>12, <2>13, KeptBySides
<1> QED
  BY <1>2, <1>3

\* handle_finish: the answer of the question is forgotten or marked; one of
\* a newer question is never met.
LEMMA HandleFinishKeepsIds ==
    ASSUME IdsInv, BothConnected, NEW v \in Vats, HandleFinish(v), BothConnected'
    PROVE  IdsKept'
<1> DEFINE m == Incoming(v)
           a == answers[v][m.q]
           b == [a EXCEPT !.finish = TRUE, !.exp = IF m.release THEN None ELSE @]
           after == IF a.status = "returned" THEN None ELSE b
           drop == a # None /\ m.release /\ a.exp # None
<1>1. /\ connected[v] /\ TypeOK /\ chan[Peer(v)] # << >> /\ m.t = "finish"
      /\ UNCHANGED <<built, issued>>
      /\ answers' = IF a = None THEN answers ELSE [answers EXCEPT ![v][m.q] = after]
  BY Together DEF HandleFinish, CanHandle
<1>2. CASE drop /\ ~MayRelease(v, a.exp, 1)
  <2>1. Disconnect(v, Drained(v))
    BY <1>2 DEF HandleFinish, Fail
  <2> QED
    BY <1>1, <2>1, DisconnectEnds
<1>3. CASE ~ (drop /\ ~MayRelease(v, a.exp, 1))
  <2>1. chan' = Remaining(v) /\ UNCHANGED questions
    BY <1>3 DEF HandleFinish
  <2>2. /\ m \in Message /\ Shorter(chan[Peer(v)], Remaining(v)[Peer(v)], m)
        /\ Remaining(v)[v] = chan[v]
    BY <1>1, Received
  <2>3. m.q \in QuestionIds /\ m.release \in BOOLEAN
    BY <1>1, <2>2 DEF Message
  <2> HIDE DEF m
  <2>4. a \in Answer \cup {None}
    BY <2>3, Sides
  <2>5. /\ SlotOK(questions[Peer(v)][m.q], a, issued[Peer(v)], chan[Peer(v)], chan[v], m.q)
        /\ questions[Peer(v)][m.q] \in Question \cup {None}
    BY <2>3, Sides
  <2>6. /\ answers'[Peer(v)] = answers[Peer(v)]
        /\ \A q \in QuestionIds : q # m.q => answers'[v][q] = answers[v][q]
        /\ a = None => answers'[v][m.q] = None
        /\ a # None => answers'[v][m.q] = after
    <3>1. Peer(v) # v /\ Peer(v) \in Vats
      BY Together
    <3>2. CASE a = None
      BY <1>1, <3>2
    <3>3. CASE a # None
      <4>1. answers' = [answers EXCEPT ![v][m.q] = after]
        BY <1>1, <3>3
      <4> HIDE DEF after, a
      <4> QED
        BY <1>1, <2>3, <3>1, <3>3, <4>1 DEF TypeOK
    <3> QED
      BY <3>2, <3>3
  <2>7. \/ answers'[v][m.q] = None /\ (a = None \/ ~ Open(a))
        \/ /\ a # None /\ Open(a) /\ answers'[v][m.q] # None /\ Open(answers'[v][m.q])
           /\ answers'[v][m.q].call = a.call /\ answers'[v][m.q].finish
    <3>1. CASE a = None
      BY <2>6, <3>1
    <3>2. CASE a # None /\ ~ Open(a)
      <4>1. a.status = "returned"
        BY <2>4, <2>5, <3>2 DEF Open, Answer, SlotOK, AnswerOK
      <4> QED
        BY <2>6, <3>2, <4>1
    <3>3. CASE a # None /\ Open(a)
      <4>1. a \in Answer /\ a.status # "returned"
        BY <2>4, <3>3 DEF Open
      <4> HIDE DEF a
      <4>2. b \in Answer /\ b.call = a.call /\ b.finish /\ b.status = a.status
        BY <4>1 DEF Answer
      <4>3. answers'[v][m.q] = b
        BY <2>6, <3>3, <4>1
      <4> HIDE DEF b
      <4> QED
        BY <3>3, <4>2, <4>3, NoneFacts DEF Open
    <3> QED
      BY <3>1, <3>2, <3>3
  <2> HIDE DEF a
  <2>8. ASSUME NEW q \in QuestionIds
        PROVE  SlotOK(questions[Peer(v)][q], answers'[v][q], issued[Peer(v)],
                      Remaining(v)[Peer(v)], chan[v], q)
    <3>1. CASE q # m.q
      <4>1. ~ AskFor(m, q) /\ ~ FinishOf(m, q)
        BY <1>1, <3>1 DEF AskFor, FinishOf
      <4> QED
        BY <1>1, <2>6, <3>1, <4>1, CalleeUnaffected DEF m
    <3>2. CASE q = m.q
      <4>1. FinishOf(m, q) /\ chan[Peer(v)] \in Seq(Message)
        BY <1>1, <3>2, Together DEF FinishOf
      <4>2. CASE About(m, questions[Peer(v)][q])
        <5>1. questions[Peer(v)][q] \in Question
          BY <2>5, <3>2, <4>2 DEF About
        <5> QED
          BY <2>2, <2>5, <2>7, <3>2, <4>1, <4>2, <5>1, FinishTaken
      <4>3. CASE ~ About(m, questions[Peer(v)][q])
        BY <2>2, <2>5, <2>7, <3>2, <4>1, <4>3, StaleFinishTaken
      <4> QED
        BY <4>2, <4>3
    <3> QED
      BY <3>1, <3>2
  <2>9. \A q \in QuestionIds :
            SlotOK(questions[v][q], answers[Peer(v)][q], issued[v],
                   chan[v], Remaining(v)[Peer(v)], q)
    BY <1>1, CallerUnaffected DEF m
  <2>10. BuiltOK(v)' /\ BuiltOK(Peer(v))'
    BY <1>1, <2>1, Together DEF BuiltOK
  <2> QED
    BY <1>1, <2>1, <2>2, <2>6, <2>8, <2>9, <2>10, KeptBySides
<1> QED
  BY <1>2, <1>3

\* handle_message, Release.
LEMMA HandleReleaseKeepsIds ==
    ASSUME IdsInv, BothConnected, NEW v \in Vats, HandleRelease(v), BothConnected'
    PROVE  IdsKept'
<1> DEFINE m == Incoming(v)
<1>1. /\ TypeOK /\ chan[Peer(v)] # << >> /\ m.t = "release"
      /\ UNCHANGED <<answers, built, issued>>
  BY Together DEF HandleRelease, CanHandle
<1>2. CASE ~MayRelease(v, m.id, m.n)
  <2>1. Disconnect(v, Drained(v))
    BY <1>2 DEF HandleRelease, Fail
  <2> QED
    BY <1>1, <2>1, DisconnectEnds
<1>3. CASE MayRelease(v, m.id, m.n)
  <2>1. chan' = Remaining(v) /\ UNCHANGED questions
    BY <1>3 DEF HandleRelease
  <2>2. Remaining(v)[v] = chan[v]
    BY <1>1, Received
  <2>3. ASSUME NEW q \in QuestionIds
        PROVE  SlotOK(questions[Peer(v)][q], answers[v][q], issued[Peer(v)],
                      Remaining(v)[Peer(v)], chan[v], q)
    <3>1. ~ AskFor(m, q) /\ ~ FinishOf(m, q)
      BY <1>1 DEF AskFor, FinishOf
    <3> QED
      BY <1>1, <3>1, CalleeUnaffected
  <2>4. \A q \in QuestionIds :
            SlotOK(questions[v][q], answers[Peer(v)][q], issued[v],
                   chan[v], Remaining(v)[Peer(v)], q)
    BY <1>1, CallerUnaffected
  <2>5. BuiltOK(v)' /\ BuiltOK(Peer(v))'
    BY <1>1, <2>1, Together DEF BuiltOK
  <2> QED
    BY <1>1, <2>1, <2>2, <2>3, <2>4, <2>5, KeptBySides
<1> QED
  BY <1>2, <1>3

-----------------------------------------------------------------------------
(* No step takes one call for another *)

\* Connections are lost and never found again.
LEMMA NeverReconnects ==
    ASSUME TypeOK, \A u \in Vats : connected[u] => loop[u],
           Next \/ UNCHANGED vars
    PROVE  \A u \in Vats : connected'[u] => connected[u] /\ loop'[u]
<1>1. CASE UNCHANGED <<connected, loop>>
  BY <1>1
<1>2. ASSUME NEW v \in Vats, NEW ch, Disconnect(v, ch), EndLoop(v) \/ UNCHANGED loop
      PROVE  \A u \in Vats : connected'[u] => connected[u] /\ loop'[u]
  <2>1. \A u \in Vats : connected'[u] => connected[u] /\ u # v
    <3>1. CASE connected[v]
      BY <1>2, <3>1 DEF Disconnect, TypeOK
    <3>2. CASE ~ connected[v]
      BY <1>2, <3>2 DEF Disconnect, TypeOK
    <3> QED
      BY <3>1, <3>2
  <2>2. \A u \in Vats : u # v => loop'[u] = loop[u]
    BY <1>2 DEF EndLoop, TypeOK
  <2> QED
    BY <2>1, <2>2
<1>3. ASSUME NEW v \in Vats, Fail(v)
      PROVE  \A u \in Vats : connected'[u] => connected[u] /\ loop'[u]
  BY <1>2, <1>3 DEF Fail
<1>4. ASSUME NEW v \in Vats, Handled(v), UNCHANGED connected
      PROVE  \A u \in Vats : connected'[u] => connected[u] /\ loop'[u]
  BY <1>4 DEF Handled, TypeOK
<1>5. CASE UNCHANGED vars
  BY <1>1, <1>5 DEF vars
<1>6. ASSUME NEW v \in Vats, Application(v)
      PROVE  UNCHANGED <<connected, loop>>
  BY <1>6 DEF Application, Bootstrap, BuildRequest, SendRequest, DropQuestionRef, DropImport
<1>7. ASSUME NEW v \in Vats, NEW q \in QuestionIds, CancelCall(v, q) \/ InitResults(v, q)
      PROVE  UNCHANGED <<connected, loop>>
  BY <1>7 DEF CancelCall, InitResults
<1>8. ASSUME NEW v \in Vats, Return(v)
      PROVE  UNCHANGED <<connected, loop>>
  BY <1>8 DEF Return, ReturnCanceled, ReturnResults, ReturnException, ReturnRedirected
<1>9. ASSUME NEW v \in Vats, HandleMessage(v)
      PROVE  \A u \in Vats : connected'[u] => connected[u] /\ loop'[u]
  <2>1. CASE HandleBootstrap(v)
    <3>1. \/ Handled(v) /\ UNCHANGED connected
          \/ UNCHANGED <<connected, loop>>
          \/ Fail(v)
      BY <2>1 DEF HandleBootstrap
    <3> QED
      BY <1>1, <1>3, <1>4, <3>1
  <2>2. CASE HandleCall(v)
    <3>1. (Handled(v) /\ UNCHANGED connected) \/ Fail(v)
      BY <2>2 DEF HandleCall
    <3> QED
      BY <1>3, <1>4, <3>1
  <2>3. CASE HandleReturn(v)
    <3>1. (Handled(v) /\ UNCHANGED connected) \/ Fail(v)
      BY <2>3 DEF HandleReturn
    <3> QED
      BY <1>3, <1>4, <3>1
  <2>4. CASE HandleFinish(v)
    <3>1. (Handled(v) /\ UNCHANGED connected) \/ Fail(v)
      BY <2>4 DEF HandleFinish
    <3> QED
      BY <1>3, <1>4, <3>1
  <2>5. CASE HandleRelease(v)
    <3>1. (Handled(v) /\ UNCHANGED connected) \/ Fail(v)
      BY <2>5 DEF HandleRelease
    <3> QED
      BY <1>3, <1>4, <3>1
  <2>6. CASE HandleAbort(v)
    BY <1>2, <2>6 DEF HandleAbort
  <2> QED
    BY <1>9, <2>1, <2>2, <2>3, <2>4, <2>5, <2>6 DEF HandleMessage
<1>10. ASSUME NEW v \in Vats, Disconnector(v) \/ ConnectionLost(v)
       PROVE  \A u \in Vats : connected'[u] => connected[u] /\ loop'[u]
  BY <1>2, <1>10 DEF Disconnector, ConnectionLost
<1>11. ASSUME NEW v \in Vats, DowncastMap(v)
       PROVE  UNCHANGED <<connected, loop>>
  BY <1>11, DowncastMapOnly
<1> QED
  BY <1>1, <1>5, <1>6, <1>7, <1>8, <1>9, <1>10, <1>11 DEF Next

\* Every step keeps IdsInv.
LEMMA NextIdsInv == IdsInv /\ [Next]_vars => IdsInv'
<1> SUFFICES ASSUME IdsInv, [Next]_vars PROVE IdsInv'
  OBVIOUS
<1>1. TypeOK /\ \A v \in Vats : connected[v] => loop[v]
  BY DEF IdsInv
<1>2. TypeOK'
  BY <1>1, NextType
<1>3. \A u \in Vats : connected'[u] => connected[u] /\ loop'[u]
  BY <1>1, NeverReconnects
<1>4. BothConnected' => IdsKept'
  <2> SUFFICES ASSUME BothConnected' PROVE IdsKept'
    OBVIOUS
  <2>1. BothConnected
    BY <1>3 DEF BothConnected
  <2>2. CASE UNCHANGED vars
    BY <2>1, <2>2, IdsUntouched DEF vars
  <2>3. ASSUME NEW v \in Vats, Application(v)
        PROVE  IdsKept'
    BY <2>1, <2>3, BootstrapKeepsIds, BuildRequestKeepsIds, SendRequestKeepsIds,
       DropQuestionRefKeepsIds, DropImportKeepsIds DEF Application
  <2>4. ASSUME NEW v \in Vats, NEW q \in QuestionIds, CancelCall(v, q) \/ InitResults(v, q)
        PROVE  IdsKept'
    BY <2>1, <2>4, RunningKeepsIds
  <2>5. ASSUME NEW v \in Vats, Return(v)
        PROVE  IdsKept'
    <3>1. Arguments(v) \subseteq Argument
      BY <1>1, ApplicationChoices
    <3> QED
      BY <2>1, <2>5, <3>1, ReturnCanceledKeepsIds, ReturnResultsKeepsIds,
         ReturnExceptionKeepsIds, NotRedirected DEF Return
  <2>6. ASSUME NEW v \in Vats, HandleMessage(v)
        PROVE  IdsKept'
    <3>1. CASE HandleAbort(v)
      <4>1. Disconnect(v, Drained(v))
        BY <3>1 DEF HandleAbort
      <4> QED
        BY <1>1, <4>1, DisconnectEnds
    <3> QED
      BY <2>1, <2>6, <3>1, HandleBootstrapKeepsIds, HandleCallKeepsIds,
         HandleReturnKeepsIds, HandleFinishKeepsIds, HandleReleaseKeepsIds
         DEF HandleMessage
  <2>7. ASSUME NEW v \in Vats, Disconnector(v) \/ ConnectionLost(v)
        PROVE  FALSE
    <3>1. \E ch : Disconnect(v, ch)
      BY <2>7 DEF Disconnector, ConnectionLost
    <3> QED
      BY <1>1, <3>1, DisconnectEnds
  <2>8. ASSUME NEW v \in Vats, DowncastMap(v)
        PROVE  IdsKept'
    BY <2>1, <2>8, DowncastMapOnly, IdsUntouched
  <2> QED
    BY <2>2, <2>3, <2>4, <2>5, <2>6, <2>7, <2>8 DEF Next
<1> QED
  BY <1>2, <1>3, <1>4 DEF IdsInv, IdsKept

\* It holds of a new connection.
LEMMA InitIdsInv == Init => IdsInv
<1> SUFFICES ASSUME Init PROVE IdsInv
  OBVIOUS
<1>1. TypeOK
  BY InitType
<1>2. \A v \in Vats : /\ loop[v] /\ built[v] = None /\ chan[v] = << >>
                      /\ \A q \in QuestionIds : questions[v][q] = None /\ answers[v][q] = None
  BY DEF Init, InitFrom
<1>3. ASSUME NEW v \in Vats, NEW q \in QuestionIds PROVE Slot(v, q)
  <2>1. Peer(v) \in Vats
    BY PeerType
  <2>2. \A n : SlotOK(None, None, n, << >>, << >>, q)
    BY DEF SlotOK, QuestionOK, AskOK, ReturnOK, FinishOK, AnswerOK, PipeOK
  <2> QED
    BY <1>2, <2>1, <2>2 DEF Slot
<1>4. \A v \in Vats : BuiltOK(v)
  BY <1>2 DEF BuiltOK
<1> QED
  BY <1>1, <1>2, <1>3, <1>4 DEF IdsInv

\* A Finish that is handled finds the answer of its call, or none.
LEMMA FinishMeetsItsCall ==
    ASSUME NEW qn, NEW an, NEW n, NEW out, NEW in, NEW q,
           SlotOK(qn, an, n, out, in, q), an # None,
           1 \in 1 .. Len(out), FinishOf(out[1], q)
    PROVE  an.call = out[1].call
<1>1. CASE About(out[1], qn)
  <2>1. /\ qn # None /\ \A j \in 1 .. Len(out) : AskFor(out[j], q) => j < 1
    BY <1>1 DEF SlotOK, FinishOK, About
  <2>2. \A j \in 1 .. Len(out) : ~ AskFor(out[j], q)
    BY <2>1
  <2>3. \A j \in 1 .. Len(out) : FinishOf(out[j], q) => About(out[j], qn)
    BY <2>1, <2>2 DEF SlotOK, FinishOK
  <2> QED
    BY <1>1, <2>3 DEF SlotOK, AnswerOK, About
<1>2. CASE ~ About(out[1], qn)
  <2>1. /\ qn # None => \E j \in 1 .. Len(out) : AskFor(out[j], q)
        /\ \A j \in 1 .. Len(out) : FinishOf(out[j], q) /\ ~ About(out[j], qn) => j = 1
    BY <1>2 DEF SlotOK, FinishOK
  <2>2. ~ About(an, qn)
    BY <2>1 DEF SlotOK, AskOK, About
  <2>3. PICK j \in 1 .. Len(out) : FinishOf(out[j], q) /\ out[j].call = an.call
    BY <2>2 DEF SlotOK, AnswerOK
  <2> QED
    BY <2>1, <2>2, <2>3 DEF About
<1> QED
  BY <1>1, <1>2

\* IdsNeverConfused is what IdsInv says of the messages being handled.
LEMMA IdsInvNoConfusion == IdsInv => IdsNeverConfused
<1> SUFFICES ASSUME IdsInv, BothConnected, NEW v \in Vats,
                    NEW i \in DOMAIN chan[v]
             PROVE  LET u == Peer(v)
                        m == chan[v][i]
                    IN  /\ m.t = "return" =>
                            /\ questions[u][m.q] # None
                            /\ questions[u][m.q].call = m.call
                            /\ questions[u][m.q].awaiting
                        /\ i = 1 /\ m.t = "finish" /\ answers[u][m.q] # None =>
                            answers[u][m.q].call = m.call
                        /\ i = 1 /\ m.t = "call" /\ m.target.kind = "promisedAnswer"
                                 /\ answers[u][m.target.id] # None =>
                            answers[u][m.target.id].call = m.target.call
  BY DEF IdsNeverConfused
<1> DEFINE u == Peer(v)
           m == chan[v][i]
<1>1. chan[v] \in Seq(Message)
  BY Together
<1>2. m \in Message /\ i \in 1 .. Len(chan[v])
  BY <1>1
<1>3. \A q \in QuestionIds :
        /\ SlotOK(questions[v][q], answers[u][q], issued[v], chan[v], chan[u], q)
        /\ SlotOK(questions[u][q], answers[v][q], issued[u], chan[u], chan[v], q)
  BY Sides
<1>4. ASSUME m.t = "return"
      PROVE  /\ questions[u][m.q] # None
             /\ questions[u][m.q].call = m.call
             /\ questions[u][m.q].awaiting
  <2>1. m.q \in QuestionIds
    BY <1>2, <1>4 DEF Message
  <2>2. ReturnTo(m, m.q)
    BY <1>4 DEF ReturnTo
  <2> QED
    BY <1>2, <1>3, <2>1, <2>2 DEF SlotOK, ReturnOK, About
<1>5. ASSUME i = 1, m.t = "finish", answers[u][m.q] # None
      PROVE  answers[u][m.q].call = m.call
  <2>1. m.q \in QuestionIds
    BY <1>2, <1>5 DEF Message
  <2>2. FinishOf(m, m.q)
    BY <1>5 DEF FinishOf
  <2> QED
    BY <1>2, <1>3, <1>5, <2>1, <2>2, FinishMeetsItsCall
<1>6. ASSUME i = 1, m.t = "call", m.target.kind = "promisedAnswer",
             answers[u][m.target.id] # None
      PROVE  answers[u][m.target.id].call = m.target.call
  <2>1. m.target \in Target
    BY <1>2, <1>6 DEF Message
  <2>2. m.target.id \in QuestionIds
    BY <1>6, <2>1 DEF Target
  <2>3. PipedTo(m, m.target.id)
    BY <1>6 DEF PipedTo
  <2>4. PipedOK(questions[v][m.target.id], answers[u][m.target.id], issued[v],
                chan[v], m.target.id, 1)
    BY <1>2, <1>3, <1>6, <2>2, <2>3 DEF SlotOK, PipeOK
  <2>5. ~ \E k \in 1 .. 1 - 1 : TRUE
    OBVIOUS
  <2> QED
    BY <1>6, <2>4, <2>5 DEF PipedOK
<1> QED
  BY <1>4, <1>5, <1>6

\* FreeIdIsReusable is what it says of a free id.
LEMMA IdsInvReusable == IdsInv => FreeIdIsReusable
<1> SUFFICES ASSUME IdsInv, BothConnected, NEW v \in Vats, NEW q \in QuestionIds,
                    questions[v][q] = None, answers[Peer(v)][q] # None
             PROVE  \E i \in DOMAIN chan[v] :
                        /\ chan[v][i].t = "finish" /\ chan[v][i].q = q
                        /\ chan[v][i].call = answers[Peer(v)][q].call
                        /\ \A j \in 1 .. i - 1 :
                            chan[v][j].t \in {"call", "bootstrap"} => chan[v][j].q # q
  BY DEF FreeIdIsReusable
<1>1. SlotOK(None, answers[Peer(v)][q], issued[v], chan[v], chan[Peer(v)], q)
  BY Sides
<1>2. chan[v] \in Seq(Message)
  BY Together
<1>3. PICK i \in 1 .. Len(chan[v]) :
        FinishOf(chan[v][i], q) /\ chan[v][i].call = answers[Peer(v)][q].call
  BY <1>1 DEF SlotOK, AnswerOK, About
<1>4. \A j \in 1 .. Len(chan[v]) : ~ AskFor(chan[v][j], q)
  BY <1>1 DEF SlotOK, AskOK, About
<1>5. \A j \in 1 .. i - 1 : j \in 1 .. Len(chan[v])
  BY <1>2
<1>6. i \in DOMAIN chan[v]
  BY <1>2
<1> QED
  BY <1>3, <1>4, <1>5, <1>6 DEF FinishOf, AskFor

\* Question ids are reused, and still a Return finds the question of its
\* call waiting, and a Finish or a pipelined call the answer of its call or
\* none (handle_message, handle_finish, get_message_target).
THEOREM NoConfusion == Spec => []IdsNeverConfused
<1>1. Init => IdsInv
  BY InitIdsInv
<1>2. IdsInv /\ [Next]_vars => IdsInv'
  BY NextIdsInv
<1>3. IdsInv => IdsNeverConfused
  BY IdsInvNoConfusion
<1> QED
  BY <1>1, <1>2, <1>3, PTL DEF Spec

\* A question id that is free at the caller can be given to a new call: the
\* Finish that removes the callee's old answer is ahead of it
\* (QuestionRef::drop, ExportTable::erase).
THEOREM FreeIdsReusable == Spec => []FreeIdIsReusable
<1>1. Init => IdsInv
  BY InitIdsInv
<1>2. IdsInv /\ [Next]_vars => IdsInv'
  BY NextIdsInv
<1>3. IdsInv => FreeIdIsReusable
  BY IdsInvReusable
<1> QED
  BY <1>1, <1>2, <1>3, PTL DEF Spec

-----------------------------------------------------------------------------
(* Queues of pipelined calls *)

\* In a table of answers, a call that is queued on r is queued on what r is
\* queued on, r has not returned, and no call is queued on itself.
Queues(as) ==
    \A q \in QuestionIds : as[q] # None =>
        /\ q \notin as[q].waits
        /\ \A r \in as[q].waits :
            as[r] # None /\ Open(as[r]) /\ as[r].waits \subseteq as[q].waits
QueueInv == TypeOK /\ \A v \in Vats : Queues(answers[v])

AnswerTable == [QuestionIds -> Answer \cup {None}]

\* An answer is replaced by one in the same queues.
LEMMA QueuesTouched ==
    ASSUME NEW as \in AnswerTable, NEW p \in QuestionIds, NEW b \in Answer,
           Queues(as), as[p] # None, b.waits = as[p].waits, Open(b) <=> Open(as[p])
    PROVE  Queues([as EXCEPT ![p] = b])
<1>1. b # None
  BY NoneFacts
<1>2. \A q \in QuestionIds : q # p => [as EXCEPT ![p] = b][q] = as[q]
  BY DEF AnswerTable
<1>3. [as EXCEPT ![p] = b][p] = b
  BY DEF AnswerTable
<1>4. \A q \in QuestionIds : as[q] # None => as[q].waits \subseteq QuestionIds
  BY DEF AnswerTable, Answer
<1> DEFINE as2 == [as EXCEPT ![p] = b]
<1>5. \A q \in QuestionIds : /\ as2[q] = None <=> as[q] = None
                             /\ as2[q].waits = as[q].waits
                             /\ Open(as2[q]) <=> Open(as[q])
  BY <1>1, <1>2, <1>3
<1> HIDE DEF as2
<1>6. Queues(as2)
  BY <1>4, <1>5 DEF Queues
<1> QED
  BY <1>6 DEF as2

\* An answer nobody is queued on is forgotten.
LEMMA QueuesForgotten ==
    ASSUME NEW as \in AnswerTable, NEW p \in QuestionIds,
           Queues(as), as[p] # None, ~ Open(as[p])
    PROVE  Queues([as EXCEPT ![p] = None])
<1> DEFINE as2 == [as EXCEPT ![p] = None]
<1>1. as2[p] = None /\ \A q \in QuestionIds : q # p => as2[q] = as[q]
  BY DEF AnswerTable
<1>2. \A q \in QuestionIds : as[q] # None => as[q].waits \subseteq QuestionIds /\ p \notin as[q].waits
  BY DEF AnswerTable, Answer, Queues
<1> HIDE DEF as2
<1>3. Queues(as2)
  BY <1>1, <1>2 DEF Queues
<1> QED
  BY <1>3 DEF as2

\* A call is entered, and may be queued.
LEMMA QueuesEntered ==
    ASSUME NEW as \in AnswerTable, NEW p \in QuestionIds, NEW b \in Answer,
           Queues(as), as[p] = None,
           \A r \in b.waits : as[r] # None /\ Open(as[r]) /\ as[r].waits \subseteq b.waits
    PROVE  Queues([as EXCEPT ![p] = b])
<1> DEFINE as2 == [as EXCEPT ![p] = b]
<1>1. as2[p] = b /\ \A q \in QuestionIds : q # p => as2[q] = as[q]
  BY DEF AnswerTable
<1>2. \A q \in QuestionIds : as[q] # None => as[q].waits \subseteq QuestionIds /\ p \notin as[q].waits
  BY DEF AnswerTable, Answer, Queues
<1>3. b.waits \subseteq QuestionIds /\ p \notin b.waits
  BY DEF Answer
<1> HIDE DEF as2
<1>4. ASSUME NEW q \in QuestionIds, as2[q] # None
      PROVE  /\ q \notin as2[q].waits
             /\ \A r \in as2[q].waits :
                    as2[r] # None /\ Open(as2[r]) /\ as2[r].waits \subseteq as2[q].waits
  <2>1. CASE q = p
    BY <1>1, <1>3, <2>1
  <2>2. CASE q # p
    BY <1>1, <1>2, <1>4, <2>2 DEF Queues
  <2> QED
    BY <2>1, <2>2
<1> QED
  BY <1>4 DEF Queues, as2

\* A call returns: the others leave its queue.
LEMMA QueuesCompleted ==
    ASSUME NEW as \in AnswerTable, NEW p \in QuestionIds, NEW ok \in BOOLEAN,
           Queues(as), as[p] # None, as[p].waits = {},
           NEW bs \in AnswerTable, bs[p] = None \/ bs[p].waits = {},
           \A q \in QuestionIds : q # p => bs[q] = as[q]
    PROVE  Queues(Unqueue(bs, p, ok))
<1> DEFINE cs == Unqueue(bs, p, ok)
<1>1. cs[p] = None \/ cs[p].waits = {}
  BY DEF Unqueue
<1>2. ASSUME NEW q \in QuestionIds, q # p
      PROVE  /\ as[q] = None => cs[q] = None
             /\ as[q] # None => /\ cs[q] # None
                                /\ cs[q].waits = as[q].waits \ {p}
                                /\ Open(cs[q]) <=> Open(as[q])
  <2> DEFINE a == as[q]
             b == [a EXCEPT !.waits = @ \ {p}, !.broken = @ \/ ~ok]
  <2>1. bs[q] = a
    BY <1>2
  <2>2. CASE a = None
    BY <2>1, <2>2 DEF Unqueue
  <2>3. CASE a # None
    <3>1. a \in Answer
      BY <2>3 DEF AnswerTable
    <3>2. cs[q] = IF p \in a.waits THEN b ELSE a
      BY <2>1, <2>3 DEF Unqueue
    <3>3. b \in Answer /\ b.waits = a.waits \ {p} /\ b.status = a.status
      <4> HIDE DEF a
      <4> QED BY <3>1 DEF Answer
    <3>4. CASE p \in a.waits
      <4>1. cs[q] = b
        BY <3>2, <3>4
      <4> HIDE DEF b, cs
      <4> QED
        BY <2>3, <3>3, <4>1, NoneFacts DEF Open
    <3>5. CASE p \notin a.waits
      <4>1. cs[q] = a
        BY <3>2, <3>5
      <4>2. a.waits = a.waits \ {p}
        BY <3>5
      <4> HIDE DEF cs
      <4> QED
        BY <2>3, <4>1, <4>2
    <3> QED
      BY <3>4, <3>5
  <2> QED
    BY <2>2, <2>3
<1>3. \A q \in QuestionIds : as[q] # None => as[q].waits \subseteq QuestionIds
  BY DEF AnswerTable, Answer
<1> HIDE DEF cs
<1>4. ASSUME NEW q \in QuestionIds, cs[q] # None
      PROVE  /\ q \notin cs[q].waits
             /\ \A r \in cs[q].waits :
                    cs[r] # None /\ Open(cs[r]) /\ cs[r].waits \subseteq cs[q].waits
  <2>1. CASE q = p
    BY <1>1, <1>4, <2>1
  <2>2. CASE q # p
    <3>1. as[q] # None /\ cs[q].waits = as[q].waits \ {p}
      BY <1>2, <1>4, <2>2
    <3>2. ASSUME NEW r \in cs[q].waits
          PROVE  cs[r] # None /\ Open(cs[r]) /\ cs[r].waits \subseteq cs[q].waits
      <4>1. r \in QuestionIds /\ r # p /\ r \in as[q].waits
        BY <1>3, <3>1
      <4>2. as[r] # None /\ Open(as[r]) /\ as[r].waits \subseteq as[q].waits
        BY <3>1, <4>1 DEF Queues
      <4> QED
        BY <1>2, <3>1, <4>1, <4>2
    <3> QED
      BY <3>1, <3>2 DEF Queues
  <2> QED
    BY <2>1, <2>2
<1> QED
  BY <1>4 DEF Queues, cs

\* Only the answers of the vat that takes the step change.
LEMMA QueuesOf ==
    ASSUME QueueInv, NEW v \in Vats, NEW as,
           answers' = [answers EXCEPT ![v] = as], Queues(as)
    PROVE  \A u \in Vats : Queues(answers'[u])
<1>1. \A u \in Vats : answers'[u] = IF u = v THEN as ELSE answers[u]
  BY DEF QueueInv, TypeOK
<1> QED
  BY <1>1 DEF QueueInv

\* The answers of a vat are a table.
LEMMA AnswersAreTable ==
    ASSUME QueueInv, NEW v \in Vats
    PROVE  answers[v] \in AnswerTable /\ Queues(answers[v])
  BY DEF QueueInv, TypeOK, AnswerTable

\* eagerly_evaluate and ensure_initialized.
LEMMA RunningQueues ==
    ASSUME QueueInv, NEW v \in Vats, NEW q \in QuestionIds,
           CancelCall(v, q) \/ InitResults(v, q)
    PROVE  \A u \in Vats : Queues(answers'[u])
<1> DEFINE a == answers[v][q]
<1>1. a # None /\ Open(a)
  BY DEF CancelCall, InitResults, Executing, Unreturned, Open
<1>2. a \in Answer /\ answers[v] \in AnswerTable /\ Queues(answers[v])
  BY <1>1, AnswersAreTable DEF AnswerTable
<1>3. \E b \in Answer : /\ b.waits = a.waits /\ Open(b)
                        /\ answers' = [answers EXCEPT ![v] = [answers[v] EXCEPT ![q] = b]]
  <2>1. CASE CancelCall(v, q)
    <3> DEFINE b == [a EXCEPT !.eager = FALSE]
    <3>1. answers' = [answers EXCEPT ![v] = [answers[v] EXCEPT ![q] = b]]
      BY <2>1 DEF CancelCall
    <3>2. b \in Answer /\ b.waits = a.waits /\ Open(b)
      <4> HIDE DEF a
      <4> QED BY <1>1, <1>2 DEF Answer, Open
    <3> HIDE DEF b, a
    <3> QED
      BY <3>1, <3>2
  <2>2. CASE InitResults(v, q)
    <3> DEFINE b == [a EXCEPT !.status = "init"]
    <3>1. answers' = [answers EXCEPT ![v] = [answers[v] EXCEPT ![q] = b]]
      BY <2>2 DEF InitResults
    <3>2. b \in Answer /\ b.waits = a.waits /\ Open(b)
      <4> HIDE DEF a
      <4> QED BY <1>1, <1>2 DEF Answer, Open
    <3> HIDE DEF b, a
    <3> QED
      BY <3>1, <3>2
  <2> QED
    BY <2>1, <2>2
<1>4. PICK b \in Answer : /\ b.waits = a.waits /\ Open(b)
                          /\ answers' = [answers EXCEPT ![v] = [answers[v] EXCEPT ![q] = b]]
  BY <1>3
<1>5. Queues([answers[v] EXCEPT ![q] = b])
  BY <1>1, <1>2, <1>4, QueuesTouched
<1> QED
  BY <1>4, <1>5, QueuesOf

\* A call that returns is queued on nothing, and leaves its own queue empty.
LEMMA ReturnQueues ==
    ASSUME QueueInv, NEW v \in Vats, Return(v)
    PROVE  \A u \in Vats : Queues(answers'[u])
<1>1. ASSUME NEW q \in QuestionIds, NEW ok \in BOOLEAN, Executing(v, q),
             NEW bs \in AnswerTable,
             bs[q] = None \/ bs[q].waits = answers[v][q].waits,
             \A r \in QuestionIds : r # q => bs[r] = answers[v][r],
             answers' = [answers EXCEPT ![v] = Unqueue(bs, q, ok)]
      PROVE  \A u \in Vats : Queues(answers'[u])
  <2>1. answers[v][q] # None /\ answers[v][q].waits = {}
    BY <1>1 DEF Executing, Unreturned
  <2>2. Queues(Unqueue(bs, q, ok))
    BY <1>1, <2>1, AnswersAreTable, QueuesCompleted
  <2> QED
    BY <1>1, <2>2, QueuesOf
<1>2. ASSUME NEW q \in QuestionIds, NEW finish \in BOOLEAN,
             NEW exp \in ExportIds \cup {None}, NEW ok \in BOOLEAN, Executing(v, q),
             answers' = [answers EXCEPT ![v] =
                Unqueue(SentReturn(answers[v], q, finish, exp, ok), q, ok)]
      PROVE  \A u \in Vats : Queues(answers'[u])
  <2> DEFINE a == answers[v][q]
             b == [a EXCEPT !.status = "returned", !.exp = exp, !.ok = ok]
             bs == SentReturn(answers[v], q, finish, exp, ok)
  <2>1. a \in Answer /\ answers[v] \in AnswerTable
    BY <1>2, AnswersAreTable DEF Executing, Unreturned, AnswerTable
  <2>2. bs \in AnswerTable
    BY <2>1, SentReturnType DEF AnswerTable
  <2>3. bs = [answers[v] EXCEPT ![q] = IF finish THEN None ELSE b]
    BY DEF SentReturn
  <2>4. b.waits = a.waits
    <3> HIDE DEF a
    <3> QED BY <2>1 DEF Answer
  <2> HIDE DEF b, bs
  <2>5. bs[q] = None \/ bs[q].waits = a.waits
    BY <2>1, <2>3, <2>4 DEF AnswerTable
  <2>6. \A r \in QuestionIds : r # q => bs[r] = answers[v][r]
    BY <2>1, <2>3 DEF AnswerTable
  <2> QED
    BY <1>1, <1>2, <2>2, <2>5, <2>6 DEF bs
<1>3. ASSUME NEW q \in QuestionIds, NEW ok \in BOOLEAN, ReturnCanceled(v, q, ok)
      PROVE  \A u \in Vats : Queues(answers'[u])
  <2>1. Executing(v, q) /\ answers' = [answers EXCEPT ![v] =
            Unqueue(SentReturn(answers[v], q, TRUE, None, ok), q, ok)]
    BY <1>3 DEF ReturnCanceled
  <2> QED
    BY <1>2, <2>1
<1>4. ASSUME NEW q \in QuestionIds, ReturnException(v, q)
      PROVE  \A u \in Vats : Queues(answers'[u])
  <2>1. Executing(v, q) /\ answers' = [answers EXCEPT ![v] =
            Unqueue(SentReturn(answers[v], q, FALSE, None, FALSE), q, FALSE)]
    BY <1>4 DEF ReturnException
  <2> QED
    BY <1>2, <2>1
<1>5. ASSUME NEW q \in QuestionIds, NEW arg \in Argument, ReturnResults(v, q, arg)
      PROVE  \A u \in Vats : Queues(answers'[u])
  <2> DEFINE w == WriteDescriptor(v, arg)
             nofinish == arg.kind = "none"
             exp == IF w.desc.kind = "senderHosted" THEN w.desc.id ELSE None
  <2>1. Executing(v, q) /\ RoomToExport(v, arg)
    BY <1>5 DEF ReturnResults
  <2>2. w.desc \in Descriptor
    BY <2>1, WriteDescriptorType DEF QueueInv
  <2>3. CASE w.panic
    <3>1. UNCHANGED answers
      BY <1>5, <2>3 DEF ReturnResults
    <3> QED
      BY <3>1 DEF QueueInv
  <2>4. CASE ~ w.panic
    <3>1. answers' = [answers EXCEPT ![v] =
                Unqueue(SentReturn(answers[v], q, nofinish, exp, ~nofinish), q, ~nofinish)]
      BY <1>5, <2>4 DEF ReturnResults
    <3>2. nofinish \in BOOLEAN /\ (~nofinish) \in BOOLEAN
      OBVIOUS
    <3>3. exp \in ExportIds \cup {None}
      <4> HIDE DEF w
      <4> QED BY <2>2 DEF Descriptor
    <3> HIDE DEF nofinish, exp
    <3> QED
      BY <1>2, <2>1, <3>1, <3>2, <3>3
  <2> QED
    BY <2>3, <2>4
<1>6. ASSUME NEW q \in QuestionIds, NEW ok \in BOOLEAN, ReturnRedirected(v, q, ok)
      PROVE  \A u \in Vats : Queues(answers'[u])
  <2> DEFINE a == answers[v][q]
             b == [a EXCEPT !.status = "redirected"]
             bs == [answers[v] EXCEPT ![q] = b]
  <2>1. Executing(v, q) /\ answers' = [answers EXCEPT ![v] = Unqueue(bs, q, ok)]
    BY <1>6 DEF ReturnRedirected
  <2>2. a \in Answer /\ answers[v] \in AnswerTable
    BY <2>1, AnswersAreTable DEF Executing, Unreturned, AnswerTable
  <2>3. b \in Answer /\ b.waits = a.waits
    <3> HIDE DEF a
    <3> QED BY <2>2 DEF Answer
  <2> HIDE DEF b
  <2>4. /\ bs \in AnswerTable /\ bs[q] = b
        /\ \A r \in QuestionIds : r # q => bs[r] = answers[v][r]
    BY <2>2, <2>3 DEF AnswerTable
  <2> HIDE DEF bs
  <2> QED
    BY <1>1, <2>1, <2>3, <2>4
<1>7. Arguments(v) \subseteq Argument
  BY ApplicationChoices DEF QueueInv
<1> QED
  BY <1>3, <1>4, <1>5, <1>6, <1>7 DEF Return

\* handle_bootstrap: its answer is queued on nothing.
LEMMA HandleBootstrapQueues ==
    ASSUME QueueInv, NEW v \in Vats, HandleBootstrap(v), TypeOK'
    PROVE  \A u \in Vats : Queues(answers'[u])
<1> DEFINE m == Incoming(v)
           b == [call |-> m.call, finish |-> FALSE, status |-> "returned",
                 exp |-> WriteDescriptor(v, [kind |-> "local", id |-> BootstrapCap]).desc.id,
                 ok |-> TRUE, broken |-> FALSE, waits |-> {}, eager |-> FALSE]
<1>1. CASE UNCHANGED answers
  BY <1>1 DEF QueueInv
<1>2. CASE ~ UNCHANGED answers
  <2>1. /\ answers[v][m.q] = None
        /\ answers' = [answers EXCEPT ![v][m.q] = b]
    BY <1>2 DEF HandleBootstrap
  <2>2. m.q \in QuestionIds
    <3>1. m \in Message /\ m.t = "bootstrap"
      BY HandlingType DEF HandleBootstrap, QueueInv
    <3> QED
      BY <3>1 DEF Message
  <2>3. b.waits = {}
    OBVIOUS
  <2> HIDE DEF b
  <2>4. answers'[v][m.q] = b /\ TypeOK'
    BY <1>2, <2>1, <2>2 DEF QueueInv, TypeOK
  <2>5. answers'[v][m.q] \in Answer \cup {None}
    BY <2>2, <2>4 DEF TypeOK
  <2>6. CASE b \in Answer
    <3>1. Queues([answers[v] EXCEPT ![m.q] = b])
      BY <2>1, <2>2, <2>3, <2>6, AnswersAreTable, QueuesEntered
    <3>2. answers' = [answers EXCEPT ![v] = [answers[v] EXCEPT ![m.q] = b]]
      BY <2>1
    <3> QED
      BY <3>1, <3>2, QueuesOf
  <2>7. CASE b = None
    <3>1. answers' = answers
      BY <2>1, <2>2, <2>7 DEF QueueInv, TypeOK
    <3> QED
      BY <1>2, <3>1
  <2> QED
    BY <2>4, <2>5, <2>6, <2>7
<1> QED
  BY <1>1, <1>2

\* handle_message, Call: it is queued on an unreturned call and on what that
\* one is queued on.
LEMMA HandleCallQueues ==
    ASSUME QueueInv, NEW v \in Vats, HandleCall(v)
    PROVE  \A u \in Vats : Queues(answers'[u])
<1> DEFINE m == Incoming(v)
           pipelined == m.target.kind = "promisedAnswer"
           p == m.target.id
           broken == pipelined /\ PipelineBroken(v, p)
           waits == IF pipelined THEN QueuedOn(v, p) ELSE {}
           b == [call |-> m.call, finish |-> FALSE, status |-> "new",
                 exp |-> None, ok |-> FALSE, broken |-> broken,
                 waits |-> waits, eager |-> TRUE]
<1>1. TypeOK /\ answers[v] \in AnswerTable /\ Queues(answers[v])
  BY AnswersAreTable DEF QueueInv
<1>2. m \in Message /\ m.t = "call"
  BY <1>1, HandlingType DEF HandleCall
<1>3. m.q \in QuestionIds /\ m.call \in Nat /\ m.target \in Target
  BY <1>2 DEF Message
<1>4. \/ UNCHANGED answers
      \/ answers[v][m.q] = None /\ answers' = [answers EXCEPT ![v][m.q] = b]
  BY DEF HandleCall
<1>5. pipelined => p \in QuestionIds
  BY <1>3 DEF Target
<1>6. waits \subseteq QuestionIds
  <2>1. pipelined => QueuedOn(v, p) \in SUBSET QuestionIds
    BY <1>1, <1>5, QueuedOnType
  <2> QED
    BY <2>1
<1>7. \A r \in waits : /\ answers[v][r] # None /\ Open(answers[v][r])
                       /\ answers[v][r].waits \subseteq waits
  <2>1. CASE pipelined /\ ~PipelineBroken(v, p) /\ Unreturned(v, p)
    <3>1. waits = {p} \cup answers[v][p].waits
      BY <2>1 DEF QueuedOn
    <3>2. answers[v][p] # None /\ Open(answers[v][p])
      BY <2>1 DEF Unreturned, Open
    <3>3. \A r \in answers[v][p].waits :
            /\ answers[v][r] # None /\ Open(answers[v][r])
            /\ answers[v][r].waits \subseteq answers[v][p].waits
      BY <1>1, <1>5, <2>1, <3>2 DEF Queues
    <3> HIDE DEF waits, p
    <3> QED
      BY <3>1, <3>2, <3>3
  <2>2. CASE ~ (pipelined /\ ~PipelineBroken(v, p) /\ Unreturned(v, p))
    <3>1. waits = {}
      BY <2>2 DEF QueuedOn
    <3> QED
      BY <3>1
  <2> QED
    BY <2>1, <2>2
<1>8. broken \in BOOLEAN
  OBVIOUS
<1>9. b \in Answer /\ b.waits = waits
  <2> HIDE DEF m, broken, waits
  <2> QED BY <1>3, <1>6, <1>8 DEF Answer
<1> HIDE DEF b, waits, broken, m
<1>10. CASE answers[v][m.q] = None /\ answers' = [answers EXCEPT ![v][m.q] = b]
  <2>1. Queues([answers[v] EXCEPT ![m.q] = b])
    BY <1>1, <1>3, <1>7, <1>9, <1>10, QueuesEntered
  <2>2. answers' = [answers EXCEPT ![v] = [answers[v] EXCEPT ![m.q] = b]]
    BY <1>10
  <2> QED
    BY <2>1, <2>2, QueuesOf
<1> QED
  BY <1>4, <1>10 DEF QueueInv

\* handle_finish forgets a returned answer, nobody being queued on it, or
\* marks one.
LEMMA HandleFinishQueues ==
    ASSUME QueueInv, NEW v \in Vats, HandleFinish(v)
    PROVE  \A u \in Vats : Queues(answers'[u])
<1> DEFINE m == Incoming(v)
           a == answers[v][m.q]
           b == [a EXCEPT !.finish = TRUE, !.exp = IF m.release THEN None ELSE @]
<1>1. TypeOK /\ answers[v] \in AnswerTable /\ Queues(answers[v])
  BY AnswersAreTable DEF QueueInv
<1>2. m \in Message /\ m.t = "finish"
  BY <1>1, HandlingType DEF HandleFinish
<1>3. m.q \in QuestionIds
  BY <1>2 DEF Message
<1>4. CASE a = None
  <2>1. UNCHANGED answers
    BY <1>4 DEF HandleFinish
  <2> QED
    BY <2>1 DEF QueueInv
<1>5. CASE a # None /\ a.status = "returned"
  <2>1. answers' = [answers EXCEPT ![v] = [answers[v] EXCEPT ![m.q] = None]]
    BY <1>5 DEF HandleFinish
  <2>2. ~ Open(a)
    BY <1>5 DEF Open
  <2> HIDE DEF m
  <2>3. Queues([answers[v] EXCEPT ![m.q] = None])
    BY <1>1, <1>3, <1>5, <2>2, QueuesForgotten
  <2> QED
    BY <2>1, <2>3, QueuesOf
<1>6. CASE a # None /\ a.status # "returned"
  <2>1. answers' = [answers EXCEPT ![v] = [answers[v] EXCEPT ![m.q] = b]]
    BY <1>6 DEF HandleFinish
  <2> HIDE DEF m
  <2>2. a \in Answer
    BY <1>1, <1>3, <1>6 DEF AnswerTable
  <2>3. b \in Answer /\ b.waits = a.waits /\ b.status = a.status
    <3> HIDE DEF a
    <3> QED BY <2>2 DEF Answer
  <2> HIDE DEF b
  <2>4. Open(b) <=> Open(a)
    BY <2>3 DEF Open
  <2>5. Queues([answers[v] EXCEPT ![m.q] = b])
    BY <1>1, <1>3, <1>6, <2>3, <2>4, QueuesTouched
  <2> QED
    BY <2>1, <2>5, QueuesOf
<1> QED
  BY <1>4, <1>5, <1>6

\* Every step keeps the queues.
LEMMA NextQueueInv == QueueInv /\ [Next]_vars => QueueInv'
<1> SUFFICES ASSUME QueueInv, [Next]_vars PROVE QueueInv'
  OBVIOUS
<1>1. TypeOK'
  BY NextType DEF QueueInv
<1>2. CASE UNCHANGED answers
  BY <1>1, <1>2 DEF QueueInv
<1>3. ASSUME NEW v \in Vats, Application(v) \/ Disconnector(v) \/ ConnectionLost(v)
      PROVE  UNCHANGED answers
  BY <1>3 DEF Application, Bootstrap, BuildRequest, SendRequest, DropQuestionRef,
     DropImport, Disconnector, ConnectionLost
<1>4. ASSUME NEW v \in Vats, HandleMessage(v)
      PROVE  \A u \in Vats : Queues(answers'[u])
  <2>1. CASE HandleReturn(v) \/ HandleRelease(v) \/ HandleAbort(v)
    <3>1. UNCHANGED answers
      BY <2>1 DEF HandleReturn, HandleRelease, HandleAbort
    <3> QED
      BY <3>1 DEF QueueInv
  <2> QED
    BY <1>1, <1>4, <2>1, HandleBootstrapQueues, HandleCallQueues, HandleFinishQueues
       DEF HandleMessage
<1>5. CASE \A u \in Vats : Queues(answers'[u])
  BY <1>1, <1>5 DEF QueueInv
<1>6. CASE UNCHANGED vars
  BY <1>2, <1>6 DEF vars
<1>7. ASSUME NEW v \in Vats, DowncastMap(v)
      PROVE  UNCHANGED answers
  BY <1>7, DowncastMapOnly
<1> QED
  BY <1>2, <1>3, <1>4, <1>5, <1>6, <1>7, RunningQueues, ReturnQueues DEF Next

\* Of the calls a call is queued on, one is queued on nothing.
LEMMA HeadOfQueue ==
    ASSUME NEW as \in AnswerTable, NEW q \in QuestionIds, Queues(as),
           as[q] # None, as[q].waits # {}
    PROVE  \E r \in as[q].waits : as[r] # None /\ Open(as[r]) /\ as[r].waits = {}
<1>1. as[q].waits \subseteq QuestionIds
  BY DEF AnswerTable, Answer
<1>2. \A r \in as[q].waits : /\ as[r] # None /\ Open(as[r]) /\ r \notin as[r].waits
                             /\ as[r].waits \subseteq as[q].waits
                             /\ \A t \in as[r].waits : as[t].waits \subseteq as[r].waits
  BY <1>1 DEF Queues
<1> DEFINE T == {as[r].waits : r \in as[q].waits}
           R == StrictSubsetOrdering(QuestionIds)
<1>3. T # {}
  OBVIOUS
<1>4. T \subseteq SUBSET QuestionIds
  BY <1>1, <1>2
<1>5. \E x \in T : \A y \in T : ~ (<<y, x>> \in R)
  <2>1. IsFiniteSet(QuestionIds)
    BY FS_Interval, BoundsAssumption DEF QuestionIds
  <2>2. IsWellFoundedOn(R, SUBSET QuestionIds)
    BY <2>1, FS_StrictSubsetOrderingWellFounded, FS_FiniteSubsetsOfFinite
  <2> HIDE DEF T, R
  <2> QED
    BY <1>3, <1>4, <2>2, WFMin
<1>6. PICK r \in as[q].waits : \A y \in T : ~ (<<y, as[r].waits>> \in R)
  BY <1>5
<1>7. as[r].waits = {}
  <2> SUFFICES ASSUME NEW t \in as[r].waits PROVE FALSE
    OBVIOUS
  <2>1. t \in as[q].waits
    BY <1>2
  <2>2. as[t].waits \subseteq as[r].waits /\ as[t].waits # as[r].waits
    BY <1>2, <2>1
  <2>3. as[t].waits \in T /\ as[r].waits \in T
    BY <2>1
  <2>4. as[t].waits \in SUBSET QuestionIds /\ as[r].waits \in SUBSET QuestionIds
    <3> HIDE DEF T
    <3> QED BY <1>4, <2>3
  <2>5. <<as[t].waits, as[r].waits>> \in R
    BY <2>2, <2>4 DEF StrictSubsetOrdering
  <2> QED
    BY <1>6, <2>3, <2>5
<1> QED
  BY <1>2, <1>7

\* A call that somebody waits for is never left queued on one that nobody
\* runs: it runs, or one of the calls it is queued on does
\* (get_message_target, eagerly_evaluate).
THEOREM QueuedCallsProgress == Spec => []WantedCallsProgress
<1>1. Init => QueueInv
  BY InitType DEF Init, InitFrom, QueueInv, Queues
<1>2. QueueInv /\ [Next]_vars => QueueInv'
  BY NextQueueInv
<1>3. QueueInv => WantedCallsProgress
  <2> SUFFICES ASSUME QueueInv, NEW v \in Vats, NEW q \in QuestionIds,
                      Unreturned(v, q), answers[v][q].eager
               PROVE  \E r \in {q} \cup answers[v][q].waits : Executing(v, r)
    BY DEF WantedCallsProgress
  <2>1. CASE answers[v][q].waits = {}
    BY <2>1 DEF Executing, Driven
  <2>2. CASE answers[v][q].waits # {}
    <3>1. answers[v] \in AnswerTable /\ Queues(answers[v]) /\ answers[v][q] # None
      BY AnswersAreTable DEF Unreturned
    <3>2. PICK r \in answers[v][q].waits :
            answers[v][r] # None /\ Open(answers[v][r]) /\ answers[v][r].waits = {}
      BY <2>2, <3>1, HeadOfQueue
    <3>3. Unreturned(v, r) /\ Driven(v, r)
      BY <3>2 DEF Unreturned, Open, Driven
    <3> QED
      BY <3>2, <3>3 DEF Executing
  <2> QED
    BY <2>1, <2>2
<1> QED
  BY <1>1, <1>2, <1>3, PTL DEF Spec
=============================================================================
