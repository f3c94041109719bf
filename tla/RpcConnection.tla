---------------------------- MODULE RpcConnection ----------------------------
(***************************************************************************)
(* Two vats running ConnectionState of capnp-rpc/src/rpc.rs against each   *)
(* other over one two-party connection: the four tables (questions,        *)
(* answers, exports, imports), the messages Bootstrap, Call, Return,       *)
(* Finish, Release and Abort, cancellation, reference counting, pipelined  *)
(* calls, and the loss of the connection.                                  *)
(*                                                                         *)
(* A vat is single threaded: an action is one uninterrupted stretch of its *)
(* code, from one await to the next.  chan[v] holds the messages v has     *)
(* sent and its peer has not handled; the write queue and the stream keep  *)
(* them in order.  A payload carries at most one capability.  Promises     *)
(* that resolve later (Resolve, Disembargo) are not part of this module: a *)
(* vat exports settled local capabilities only.                            *)
(*                                                                         *)
(* Question ids are reused, so each question also has a number of its own  *)
(* (call), carried by messages and answers.  No action reads it: it is     *)
(* there to state that nobody mistakes one call for another.               *)
(***************************************************************************)
EXTENDS Integers, Sequences, FiniteSets

CONSTANTS
    None,           \* an empty table slot
    Caps,           \* the settled capabilities each vat hosts
    BootstrapCap,   \* the one of them given to RpcSystem::new
    Budget,         \* bound: how many questions each vat asks
    MaxQuestions,   \* bound: size of a question table
    MaxExports,     \* bound: size of an export table
    Quitters,       \* the vats whose Disconnector may be run
    Lossy           \* the vats whose stream may fail or end

Vats == {0, 1}
Peer(v) == 1 - v
QuestionIds == 0 .. MaxQuestions - 1
ExportIds == 0 .. MaxExports - 1

ASSUME CapsAssumption == BootstrapCap \in Caps
ASSUME BoundsAssumption ==
    /\ Budget \in [Vats -> Nat]
    /\ MaxQuestions \in Nat \ {0}
    /\ MaxExports \in Nat \ {0}
ASSUME FaultsAssumption == Quitters \subseteq Vats /\ Lossy \subseteq Vats

VARIABLES
    connected,      \* connection is Ok(_)
    loop,           \* message_loop is waiting for the next message
    chan,           \* messages sent and not yet handled, oldest first
    questions,
    answers,
    exports,
    exportsByCap,
    imports,        \* remote_ref_count of each ImportClient
    stale,          \* the imports that client_downcast_map no longer finds
    built,          \* a Request that has been built and not sent yet
    issued,         \* how many questions the vat has asked
    err,            \* a handler returned an error while connected
    panic           \* where the vat has panicked

vars == <<connected, loop, chan, questions, answers, exports, exportsByCap,
          imports, stale, built, issued, err, panic>>

-----------------------------------------------------------------------------
(* Types *)

\* pending: the QuestionRef still holds its fulfiller.  lost: the Call was
\* written when there was no connection any more.
Question == [call : Nat, awaiting : BOOLEAN, ref : BOOLEAN, skip : BOOLEAN,
             pending : BOOLEAN, lost : BOOLEAN]

\* status: no results yet, results initialised while connected, Return
\* sent, results kept locally.  exp: result_exports.  ok: the results hold
\* a capability.  broken: the call went to a broken pipeline.  waits: the
\* unreturned answers whose pipelines this call is queued on.  eager: the
\* task made by eagerly_evaluate still drives the call.
Answer == [call : Nat, finish : BOOLEAN,
           status : {"new", "init", "returned", "redirected"},
           exp : ExportIds \cup {None}, ok : BOOLEAN, broken : BOOLEAN,
           waits : SUBSET QuestionIds, eager : BOOLEAN]

Export == [refcount : Nat \ {0}, cap : Caps]

Descriptor == [kind : {"none", "senderHosted", "receiverHosted"},
               id : ExportIds]
Target == [kind : {"importedCap"}, id : ExportIds, call : Nat]
          \cup [kind : {"promisedAnswer"}, id : QuestionIds, call : Nat]
Argument == [kind : {"none"}, id : {None}]
            \cup [kind : {"local"}, id : Caps]
            \cup [kind : {"import"}, id : ExportIds]

Message ==
    [t : {"bootstrap"}, q : QuestionIds, call : Nat]
    \cup [t : {"call"}, q : QuestionIds, call : Nat, target : Target,
          cap : Descriptor]
    \cup [t : {"return"}, q : QuestionIds, call : Nat,
          which : {"results", "exception", "canceled"}, cap : Descriptor,
          nofinish : BOOLEAN]
    \cup [t : {"finish"}, q : QuestionIds, call : Nat, release : BOOLEAN]
    \cup [t : {"release"}, id : ExportIds, n : Nat]
    \cup [t : {"abort", "unimplemented"}]

PanicSites == {"bootstrap", "write_descriptor", "client_downcast_map"}

\* The empty slot is none of the things a slot can hold.
ASSUME NoneAssumption ==
    None \notin Int \cup Caps \cup Question \cup Answer \cup Export
             \cup [target : Target, arg : Argument] \cup PanicSites

InitFrom(asked) ==
    /\ connected = [v \in Vats |-> TRUE]
    /\ loop = [v \in Vats |-> TRUE]
    /\ chan = [v \in Vats |-> << >>]
    /\ questions = [v \in Vats |-> [q \in QuestionIds |-> None]]
    /\ answers = [v \in Vats |-> [q \in QuestionIds |-> None]]
    /\ exports = [v \in Vats |-> [e \in ExportIds |-> None]]
    /\ exportsByCap = [v \in Vats |-> [c \in Caps |-> None]]
    /\ imports = [v \in Vats |-> [e \in ExportIds |-> None]]
    /\ stale = [v \in Vats |-> {}]
    /\ built = [v \in Vats |-> None]
    /\ issued = asked
    /\ err = [v \in Vats |-> FALSE]
    /\ panic = [v \in Vats |-> None]

Init == InitFrom([v \in Vats |-> 0])

-----------------------------------------------------------------------------
(* Tables and messages *)

\* ExportTable::push gives the least free id (module ExportTable).
HasFree(t) == \E id \in DOMAIN t : t[id] = None
FreeId(t) == CHOOSE id \in DOMAIN t :
                /\ t[id] = None
                /\ \A j \in DOMAIN t : j < id => t[j] # None

Alive(v) == panic[v] = None

\* OutgoingMessage::send on the connection of v, ch being the channels so
\* far.  Without a connection nothing is sent; what a vat that has stopped
\* reading would be sent is not kept.
Transmit(ch, v, m) ==
    IF connected[v] /\ loop[Peer(v)] THEN [ch EXCEPT ![v] = Append(ch[v], m)]
                                     ELSE ch

AbortMsg == [t |-> "abort"]
UnimplementedMsg == [t |-> "unimplemented"]

\* ConnectionState::write_descriptor: the descriptor of a capability, and
\* the tables after it has been written.  panic is the failing unwrap() of
\* an exports_by_cap entry that names no export.
WriteDescriptor(v, arg) ==
    LET same == [exports |-> exports[v], byCap |-> exportsByCap[v],
                 panic |-> FALSE, desc |-> [kind |-> "none", id |-> 0]]
        seen == exportsByCap[v][arg.id]
        fresh == FreeId(exports[v])
    IN CASE arg.kind = "none" -> same
         [] arg.kind = "import" ->
              [same EXCEPT !.desc = [kind |-> "receiverHosted", id |-> arg.id]]
         [] arg.kind = "local" /\ seen # None ->
              IF exports[v][seen] = None
              THEN [same EXCEPT !.panic = TRUE]
              ELSE [same EXCEPT !.desc = [kind |-> "senderHosted", id |-> seen],
                                !.exports[seen].refcount = @ + 1]
         [] OTHER ->
              [same EXCEPT !.desc = [kind |-> "senderHosted", id |-> fresh],
                           !.exports[fresh] = [refcount |-> 1, cap |-> arg.id],
                           !.byCap[arg.id] = fresh]

\* The bound on the export table allows the descriptor to be written.
RoomToExport(v, arg) ==
    arg.kind = "local" /\ exportsByCap[v][arg.id] = None => HasFree(exports[v])

\* write_descriptor finds the client of an import in client_downcast_map
\* (ClientNotFound, if it does not).
MayDescribe(v, arg) == arg.kind = "import" => arg.id \notin stale[v]

\* ConnectionState::receive_cap and import: a senderHosted capability adds
\* one to the count of its ImportClient, made if there is none.  Each time
\* a Client is made for it, whose WeakClient replaces the one of an earlier
\* Client in client_downcast_map (ClientFound).
ReceiveCap(v, desc) ==
    IF desc.kind = "senderHosted"
    THEN [imports EXCEPT ![v][desc.id] = IF @ = None THEN 1 ELSE @ + 1]
    ELSE imports
ClientFound(v, desc) ==
    IF desc.kind = "senderHosted" THEN [stale EXCEPT ![v] = @ \ {desc.id}]
                                  ELSE stale

\* ConnectionState::release_export.
MayRelease(v, id, n) ==
    exports[v][id] # None /\ n <= exports[v][id].refcount
Lowered(export, n) == [export EXCEPT !.refcount = @ - n]
\* Mutant: the count is tested for zero before it is lowered.
ReleaseTooLate(v, id, n) ==
    /\ exports' = [exports EXCEPT ![v][id] = Lowered(@, n)]
    /\ UNCHANGED exportsByCap
\* Mutant: an erased export stays in exports_by_cap.
ReleaseForgetsCap(v, id, n) ==
    /\ exports' = [exports EXCEPT ![v][id] =
            IF exports[v][id].refcount = n THEN None ELSE Lowered(@, n)]
    /\ UNCHANGED exportsByCap
Release(v, id, n) ==
    IF exports[v][id].refcount = n
    THEN /\ exports' = [exports EXCEPT ![v][id] = None]
         /\ exportsByCap' = [exportsByCap EXCEPT ![v][exports[v][id].cap] = None]
    ELSE /\ exports' = [exports EXCEPT ![v][id] = Lowered(@, n)]
         /\ UNCHANGED exportsByCap

-----------------------------------------------------------------------------
(* The end of the connection *)

\* Mutant: disconnect does not reject.
RejectedNever(question) == question

\* ConnectionState::disconnect rejects every question somebody waits for.
Rejected(question) ==
    IF question # None /\ question.ref THEN [question EXCEPT !.pending = FALSE]
                                      ELSE question

\* ConnectionState::disconnect: every waiting question is rejected, the
\* exports are cleared (exports_by_cap is not), Abort is sent, and the
\* connection is replaced by the error.  A second call does nothing.
Disconnect(v, ch) ==
    IF connected[v]
    THEN /\ connected' = [connected EXCEPT ![v] = FALSE]
         /\ questions' = [questions EXCEPT ![v] = [q \in QuestionIds |->
                                        Rejected(questions[v][q])]]
         /\ exports' = [exports EXCEPT ![v] = [e \in ExportIds |-> None]]
         /\ chan' = Transmit(ch, v, AbortMsg)
    ELSE /\ chan' = ch
         /\ UNCHANGED <<connected, questions, exports>>

\* message_loop is over: what is left in the stream is never read.
EndLoop(v) == loop' = [loop EXCEPT ![v] = FALSE]
Drained(v) == [chan EXCEPT ![Peer(v)] = << >>]

\* A handler returns Err: the task fails, and ConnectionErrorHandler
\* disconnects.
Fail(v) ==
    /\ Disconnect(v, Drained(v))
    /\ EndLoop(v)
    /\ err' = [err EXCEPT ![v] = @ \/ connected[v]]

\* Disconnector::disconnect.  message_loop still waits for one message.
Disconnector(v) ==
    /\ v \in Quitters /\ Alive(v) /\ connected[v]
    /\ Disconnect(v, chan)
    /\ UNCHANGED <<loop, answers, exportsByCap, imports, stale, built, issued,
                   err, panic>>

\* The stream ends or fails under message_loop.
ConnectionLost(v) ==
    /\ v \in Lossy /\ Alive(v) /\ loop[v]
    /\ Disconnect(v, Drained(v))
    /\ EndLoop(v)
    /\ UNCHANGED <<answers, exportsByCap, imports, stale, built, issued, err,
                   panic>>

-----------------------------------------------------------------------------
(* The caller *)

\* What the application may use: an import it holds, or a question whose
\* pipeline it holds.
Targets(v) ==
    {[kind |-> "importedCap", id |-> e, call |-> 0] :
        e \in {e \in ExportIds : imports[v][e] # None}}
    \cup {[kind |-> "promisedAnswer", id |-> q, call |-> questions[v][q].call] :
        q \in {q \in QuestionIds : questions[v][q] # None /\ questions[v][q].ref}}
Arguments(v) ==
    {[kind |-> "none", id |-> None]}
    \cup {[kind |-> "local", id |-> c] : c \in Caps}
    \cup {[kind |-> "import", id |-> e] :
        e \in {e \in ExportIds : imports[v][e] # None}}

\* Mutant: a Request holds no reference to what it names.
HeldByNobody(v, kind, id) == FALSE

\* The Request keeps its target and the capabilities in its parameters.
HeldByRequest(v, kind, id) ==
    built[v] # None /\ <<kind, id>> \in
        {<<built[v].target.kind, built[v].target.id>>,
         <<built[v].arg.kind, built[v].arg.id>>}

\* The entry Question::new() and QuestionRef::new() make.
NewQuestion(v) ==
    [call |-> issued[v] + 1, awaiting |-> TRUE, ref |-> TRUE, skip |-> FALSE,
     pending |-> TRUE, lost |-> ~connected[v]]
MayAsk(v) == issued[v] < Budget[v] /\ HasFree(questions[v])
Ask(v) ==
    /\ questions' = [questions EXCEPT ![v][FreeId(questions[v])] = NewQuestion(v)]
    /\ issued' = [issued EXCEPT ![v] = @ + 1]

Panic(v, site) == panic' = [panic EXCEPT ![v] = site]

\* ConnectionState::bootstrap, which panics on a dead connection.
Bootstrap(v) ==
    /\ Alive(v) /\ MayAsk(v)
    /\ IF connected[v]
       THEN /\ Ask(v)
            /\ chan' = Transmit(chan, v, [t |-> "bootstrap",
                            q |-> FreeId(questions[v]), call |-> issued[v] + 1])
            /\ UNCHANGED panic
       ELSE Panic(v, "bootstrap") /\ UNCHANGED <<questions, issued, chan>>
    /\ UNCHANGED <<connected, loop, answers, exports, exportsByCap, imports,
                   stale, built, err>>

\* Client::new_call and Request::new: a request needs a connection when it
\* is built.
BuildRequest(v, target, arg) ==
    /\ Alive(v) /\ connected[v] /\ built[v] = None /\ MayAsk(v)
    /\ built' = [built EXCEPT ![v] = [target |-> target, arg |-> arg]]
    /\ UNCHANGED <<connected, loop, chan, questions, answers, exports,
                   exportsByCap, imports, stale, issued, err, panic>>

\* Request::send and send_internal: the descriptors are written, then the
\* question is entered, then the Call is sent.  Nothing looks at the
\* connection.
SendRequest(v) ==
    /\ Alive(v) /\ built[v] # None /\ MayAsk(v)
    /\ RoomToExport(v, built[v].arg) /\ MayDescribe(v, built[v].arg)
    /\ built' = [built EXCEPT ![v] = None]
    /\ LET w == WriteDescriptor(v, built[v].arg) IN
       IF w.panic
       THEN /\ Panic(v, "write_descriptor")
            /\ UNCHANGED <<questions, issued, chan, exports, exportsByCap>>
       ELSE /\ exports' = [exports EXCEPT ![v] = w.exports]
            /\ exportsByCap' = [exportsByCap EXCEPT ![v] = w.byCap]
            /\ Ask(v)
            /\ chan' = Transmit(chan, v, [t |-> "call",
                            q |-> FreeId(questions[v]), call |-> issued[v] + 1,
                            target |-> built[v].target, cap |-> w.desc])
            /\ UNCHANGED panic
    /\ UNCHANGED <<connected, loop, answers, imports, stale, err>>

\* Mutants: the callee is told always, or never, to release the results.
ReleaseAlways(question) == TRUE
ReleaseNever(question) == FALSE

\* QuestionRef::drop.  A cancelled call's results will be ignored, so the
\* callee is told to release their capabilities; a returned call's have
\* been imported, and are released one by one.
ReleaseResultCaps(question) == question.awaiting

\* Mutant: the id is freed although the Return is still to come.
DroppedAtOnce(question) == None

\* QuestionRef::drop: a question that still awaits its Return stays in the
\* table without its QuestionRef.
Dropped(question) ==
    IF question.awaiting
    THEN [question EXCEPT !.ref = FALSE, !.pending = FALSE]
    ELSE None

\* QuestionRef::drop: the application has dropped the promise, the pipeline
\* and the response.
DropQuestionRef(v, q) ==
    /\ Alive(v)
    /\ questions[v][q] # None /\ questions[v][q].ref
    /\ ~HeldByRequest(v, "promisedAnswer", q)
    /\ chan' = IF questions[v][q].skip THEN chan
               ELSE Transmit(chan, v, [t |-> "finish", q |-> q,
                        call |-> questions[v][q].call,
                        release |-> ReleaseResultCaps(questions[v][q])])
    /\ questions' = [questions EXCEPT ![v][q] = Dropped(@)]
    /\ UNCHANGED <<connected, loop, answers, exports, exportsByCap, imports,
                   stale, built, issued, err, panic>>

\* ImportClient::drop: the last local reference to an import is gone.
DropImport(v, e) ==
    /\ Alive(v)
    /\ imports[v][e] # None
    /\ ~HeldByRequest(v, "importedCap", e) /\ ~HeldByRequest(v, "import", e)
    /\ imports' = [imports EXCEPT ![v][e] = None]
    /\ stale' = [stale EXCEPT ![v] = @ \ {e}]
    /\ chan' = Transmit(chan, v, [t |-> "release", id |-> e, n |-> imports[v][e]])
    /\ UNCHANGED <<connected, loop, questions, answers, exports, exportsByCap,
                   built, issued, err, panic>>

-----------------------------------------------------------------------------
(* The callee *)

Unreturned(v, q) ==
    answers[v][q] # None /\ answers[v][q].status \in {"new", "init"}

\* Mutant: a pipelined call does not keep the call it is queued on going.
DrivenBySelf(v, q) == answers[v][q].eager

\* The future of the call exists: its own task drives it, or a pipelined
\* call queued on it does.
Driven(v, q) ==
    \/ answers[v][q].eager
    \/ \E r \in QuestionIds : /\ Unreturned(v, r) /\ answers[v][r].eager
                              /\ q \in answers[v][r].waits
Executing(v, q) ==
    Unreturned(v, q) /\ answers[v][q].waits = {} /\ Driven(v, q)

\* eagerly_evaluate: once handle_finish has dropped the completion promise
\* the task ends and drops its share of the call, unless the call completes
\* as the task is polled for the last time.
CancelCall(v, q) ==
    /\ Alive(v) /\ Unreturned(v, q)
    /\ answers[v][q].finish /\ answers[v][q].eager
    /\ answers' = [answers EXCEPT ![v][q].eager = FALSE]
    /\ UNCHANGED <<connected, loop, chan, questions, exports, exportsByCap,
                   imports, stale, built, issued, err, panic>>

\* PipelineInnerSender::complete: the calls queued on q go on, to a broken
\* capability unless the results hold one.
Unqueue(as, q, ok) ==
    [r \in QuestionIds |->
        IF as[r] # None /\ q \in as[r].waits
        THEN [as[r] EXCEPT !.waits = @ \ {q}, !.broken = @ \/ ~ok]
        ELSE as[r]]

\* ConnectionState::answer_has_sent_return.
SentReturn(as, q, finish, exp, ok) ==
    [as EXCEPT ![q] = IF finish THEN None
                      ELSE [@ EXCEPT !.status = "returned", !.exp = exp, !.ok = ok]]

ReturnMsg(v, q, which, cap, nofinish) ==
    [t |-> "return", q |-> q, call |-> answers[v][q].call, which |-> which,
     cap |-> cap, nofinish |-> nofinish]

\* ResultsInner::ensure_initialized, on the method's first use of its
\* results while there is a connection.
InitResults(v, q) ==
    /\ Alive(v) /\ connected[v] /\ Executing(v, q)
    /\ answers[v][q].status = "new" /\ ~answers[v][q].broken
    /\ answers' = [answers EXCEPT ![v][q].status = "init"]
    /\ UNCHANGED <<connected, loop, chan, questions, exports, exportsByCap,
                   imports, stale, built, issued, err, panic>>

\* The results are an Rpc message, not a local one.
RpcResults(v, q) == connected[v] \/ answers[v][q].status = "init"

\* ResultsDone::from_results_inner after a Finish: Return.canceled,
\* whatever the outcome of the call; ok is whether its results hold a
\* capability.
ReturnCanceled(v, q, ok) ==
    /\ Alive(v) /\ Executing(v, q) /\ RpcResults(v, q)
    /\ answers[v][q].finish
    /\ answers[v][q].broken => ~ok
    /\ chan' = Transmit(chan, v, ReturnMsg(v, q, "canceled",
                                    [kind |-> "none", id |-> 0], FALSE))
    /\ answers' = [answers EXCEPT ![v] =
            Unqueue(SentReturn(answers[v], q, TRUE, None, ok), q, ok)]
    /\ UNCHANGED <<connected, loop, questions, exports, exportsByCap, imports,
                   stale, built, issued, err, panic>>

\* ResultsDone::from_results_inner, the call having succeeded.  Results
\* without capabilities need no Finish: their answer is forgotten at once.
ReturnResults(v, q, arg) ==
    /\ Alive(v) /\ Executing(v, q) /\ RpcResults(v, q)
    /\ ~answers[v][q].finish /\ ~answers[v][q].broken
    /\ RoomToExport(v, arg) /\ MayDescribe(v, arg)
    /\ LET w == WriteDescriptor(v, arg)
           nofinish == arg.kind = "none"
           exp == IF w.desc.kind = "senderHosted" THEN w.desc.id ELSE None
       IN IF w.panic
          THEN /\ Panic(v, "write_descriptor")
               /\ UNCHANGED <<chan, answers, exports, exportsByCap>>
          ELSE /\ exports' = [exports EXCEPT ![v] = w.exports]
               /\ exportsByCap' = [exportsByCap EXCEPT ![v] = w.byCap]
               /\ chan' = Transmit(chan, v,
                            ReturnMsg(v, q, "results", w.desc, nofinish))
               /\ answers' = [answers EXCEPT ![v] = Unqueue(
                    SentReturn(answers[v], q, nofinish, exp, ~nofinish),
                    q, ~nofinish)]
               /\ UNCHANGED panic
    /\ UNCHANGED <<connected, loop, questions, imports, stale, built, issued,
                   err>>

\* ResultsDone::from_results_inner, the call having failed.
ReturnException(v, q) ==
    /\ Alive(v) /\ Executing(v, q) /\ RpcResults(v, q)
    /\ ~answers[v][q].finish
    /\ chan' = Transmit(chan, v, ReturnMsg(v, q, "exception",
                                    [kind |-> "none", id |-> 0], FALSE))
    /\ answers' = [answers EXCEPT ![v] =
            Unqueue(SentReturn(answers[v], q, FALSE, None, FALSE), q, FALSE)]
    /\ UNCHANGED <<connected, loop, questions, exports, exportsByCap, imports,
                   stale, built, issued, err, panic>>

\* ResultsDone::from_results_inner with results first used after the
\* connection was lost: they stay local, and the answer stays in its table.
ReturnRedirected(v, q, ok) ==
    /\ Alive(v) /\ Executing(v, q) /\ ~RpcResults(v, q)
    /\ answers[v][q].broken => ~ok
    /\ answers' = [answers EXCEPT ![v] =
            Unqueue([answers[v] EXCEPT ![q].status = "redirected"], q, ok)]
    /\ UNCHANGED <<connected, loop, chan, questions, exports, exportsByCap,
                   imports, stale, built, issued, err, panic>>

-----------------------------------------------------------------------------
(* client_downcast_map *)

\* An import that was received more than once has as many Clients, but only
\* the last is in client_downcast_map, which does not hold it.  The last one
\* is dropped, and an earlier one is still held.
DropNewestClient(v, e) ==
    /\ Alive(v)
    /\ e \notin stale[v] /\ imports[v][e] # None /\ imports[v][e] > 1
    /\ stale' = [stale EXCEPT ![v] = @ \cup {e}]
    /\ UNCHANGED <<connected, loop, chan, questions, answers, exports,
                   exportsByCap, imports, built, issued, err, panic>>

\* WeakClient::upgrade fails under Request::send or ResultsDone, which takes
\* it for unreachable: a capability that is sent is looked up, and so is a
\* target that the application holds through a PromiseClient.  It does so
\* before it enters the question, so the bounds on questions do not count.
ClientNotFound(v) ==
    /\ Alive(v)
    /\ \/ /\ built[v] # None
          /\ \/ ~MayDescribe(v, built[v].arg)
             \/ /\ built[v].target.kind = "importedCap"
                /\ built[v].target.id \in stale[v]
       \/ \E q \in QuestionIds, arg \in Arguments(v) :
             /\ Executing(v, q) /\ RpcResults(v, q)
             /\ ~answers[v][q].finish /\ ~answers[v][q].broken
             /\ ~MayDescribe(v, arg)
    /\ Panic(v, "client_downcast_map")
    /\ UNCHANGED <<connected, loop, chan, questions, answers, exports,
                   exportsByCap, imports, stale, built, issued, err>>

-----------------------------------------------------------------------------
(* handle_message *)

Incoming(v) == Head(chan[Peer(v)])
CanHandle(v, types) ==
    /\ Alive(v) /\ loop[v]
    /\ chan[Peer(v)] # << >>
    /\ Incoming(v).t \in types

\* The handler succeeds: message_loop waits for another message only if
\* there still is a connection.
Handled(v) == loop' = [loop EXCEPT ![v] = connected[v]]
Remaining(v) ==
    IF connected[v] THEN [chan EXCEPT ![Peer(v)] = Tail(@)] ELSE Drained(v)

\* handle_bootstrap.
HandleBootstrap(v) ==
    /\ CanHandle(v, {"bootstrap"})
    /\ LET m == Incoming(v)
           arg == [kind |-> "local", id |-> BootstrapCap]
           w == WriteDescriptor(v, arg)
       IN IF ~connected[v]
          THEN /\ Handled(v) /\ chan' = Remaining(v)
               /\ UNCHANGED <<connected, questions, answers, exports,
                              exportsByCap, err, panic>>
          ELSE IF w.panic
          THEN /\ Panic(v, "write_descriptor")
               /\ UNCHANGED <<connected, loop, chan, questions, answers,
                              exports, exportsByCap, err>>
          ELSE IF answers[v][m.q] # None
          THEN Fail(v) /\ UNCHANGED <<answers, exportsByCap, panic>>
          ELSE /\ RoomToExport(v, arg)
               /\ exports' = [exports EXCEPT ![v] = w.exports]
               /\ exportsByCap' = [exportsByCap EXCEPT ![v] = w.byCap]
               /\ answers' = [answers EXCEPT ![v][m.q] =
                    [call |-> m.call, finish |-> FALSE, status |-> "returned",
                     exp |-> w.desc.id, ok |-> TRUE, broken |-> FALSE,
                     waits |-> {}, eager |-> FALSE]]
               /\ chan' = Transmit(Remaining(v), v,
                    [t |-> "return", q |-> m.q, call |-> m.call,
                     which |-> "results", cap |-> w.desc, nofinish |-> FALSE])
               /\ Handled(v)
               /\ UNCHANGED <<connected, questions, err, panic>>
    /\ UNCHANGED <<imports, stale, built, issued>>

\* get_message_target: the answer a pipelined call is queued on, and
\* whether its pipeline is broken or gone.
PipelineBroken(v, q) ==
    \/ ~connected[v]
    \/ answers[v][q] = None
    \/ answers[v][q].finish
    \/ answers[v][q].status = "returned" /\ ~answers[v][q].ok
QueuedOn(v, q) ==
    IF ~PipelineBroken(v, q) /\ Unreturned(v, q)
    THEN {q} \cup answers[v][q].waits ELSE {}

\* handle_message, Call: the target is looked up, the capabilities are
\* received, the answer is entered and the method started.
HandleCall(v) ==
    /\ CanHandle(v, {"call"})
    /\ LET m == Incoming(v)
           pipelined == m.target.kind = "promisedAnswer"
       IN IF \/ ~pipelined /\ exports[v][m.target.id] = None
             \/ answers[v][m.q] # None
          THEN Fail(v) /\ UNCHANGED <<answers, imports, stale>>
          ELSE /\ imports' = ReceiveCap(v, m.cap)
               /\ stale' = ClientFound(v, m.cap)
               /\ answers' = [answers EXCEPT ![v][m.q] =
                    [call |-> m.call, finish |-> FALSE, status |-> "new",
                     exp |-> None, ok |-> FALSE,
                     broken |-> pipelined /\ PipelineBroken(v, m.target.id),
                     waits |-> IF pipelined THEN QueuedOn(v, m.target.id)
                                            ELSE {},
                     eager |-> TRUE]]
               /\ chan' = Remaining(v) /\ Handled(v)
               /\ UNCHANGED <<connected, questions, exports, err>>
    /\ UNCHANGED <<exportsByCap, built, issued, panic>>

\* Mutant: no Return is ever answered by a Finish.
SkipAlways(question, m) == TRUE

\* handle_message, Return: no Finish is needed if the callee says so.
SkipFinish(question, m) == question.skip \/ m.nofinish

\* handle_message, Return.
HandleReturn(v) ==
    /\ CanHandle(v, {"return"})
    /\ LET m == Incoming(v)
           question == questions[v][m.q]
           returned == [question EXCEPT !.awaiting = FALSE,
                                        !.skip = SkipFinish(question, m)]
       IN IF question = None
          THEN Fail(v) /\ UNCHANGED <<imports, stale>>
          ELSE /\ questions' = [questions EXCEPT ![v][m.q] =
                    IF ~question.ref THEN None
                    ELSE IF m.which = "canceled" THEN returned
                    ELSE [returned EXCEPT !.pending = FALSE]]
               /\ imports' = IF question.ref /\ m.which = "results"
                             THEN ReceiveCap(v, m.cap) ELSE imports
               /\ stale' = IF question.ref /\ m.which = "results"
                           THEN ClientFound(v, m.cap) ELSE stale
               /\ chan' = IF question.ref /\ m.which = "canceled"
                          THEN Transmit(Remaining(v), v, UnimplementedMsg)
                          ELSE Remaining(v)
               /\ Handled(v)
               /\ UNCHANGED <<connected, exports, err>>
    /\ UNCHANGED <<answers, exportsByCap, built, issued, panic>>

\* handle_finish: the result exports are released if the caller asks for
\* it, the promise that keeps the call going is dropped, and an answer that
\* has returned is forgotten.
HandleFinish(v) ==
    /\ CanHandle(v, {"finish"})
    /\ LET m == Incoming(v)
           a == answers[v][m.q]
           drop == a # None /\ m.release /\ a.exp # None
       IN /\ answers' = IF a = None THEN answers
                        ELSE [answers EXCEPT ![v][m.q] =
                                IF a.status = "returned" THEN None
                                ELSE [a EXCEPT !.finish = TRUE,
                                        !.exp = IF m.release THEN None ELSE @]]
          /\ IF drop /\ ~MayRelease(v, a.exp, 1)
             THEN Fail(v) /\ UNCHANGED exportsByCap
             ELSE /\ IF drop THEN Release(v, a.exp, 1)
                             ELSE UNCHANGED <<exports, exportsByCap>>
                  /\ chan' = Remaining(v) /\ Handled(v)
                  /\ UNCHANGED <<connected, questions, err>>
    /\ UNCHANGED <<imports, stale, built, issued, panic>>

\* handle_message, Release.
HandleRelease(v) ==
    /\ CanHandle(v, {"release"})
    /\ LET m == Incoming(v)
       IN IF ~MayRelease(v, m.id, m.n)
          THEN Fail(v) /\ UNCHANGED exportsByCap
          ELSE /\ Release(v, m.id, m.n)
               /\ chan' = Remaining(v) /\ Handled(v)
               /\ UNCHANGED <<connected, questions, err>>
    /\ UNCHANGED <<answers, imports, stale, built, issued, panic>>

\* handle_message, Abort; and handle_unimplemented of any message that is
\* not a Resolve, an error of its own.
HandleAbort(v) ==
    /\ CanHandle(v, {"abort", "unimplemented"})
    /\ Disconnect(v, Drained(v))
    /\ EndLoop(v)
    /\ err' = [err EXCEPT ![v] =
                    @ \/ (connected[v] /\ Incoming(v).t = "unimplemented")]
    /\ UNCHANGED <<answers, exportsByCap, imports, stale, built, issued,
                   panic>>

-----------------------------------------------------------------------------
Application(v) ==
    \/ Bootstrap(v)
    \/ \E target \in Targets(v), arg \in Arguments(v) :
            BuildRequest(v, target, arg)
    \/ SendRequest(v)
    \/ \E q \in QuestionIds : DropQuestionRef(v, q)
    \/ \E e \in ExportIds : DropImport(v, e)

Return(v) ==
    \/ \E q \in QuestionIds, ok \in BOOLEAN : ReturnCanceled(v, q, ok)
    \/ \E q \in QuestionIds, arg \in Arguments(v) : ReturnResults(v, q, arg)
    \/ \E q \in QuestionIds : ReturnException(v, q)
    \/ \E q \in QuestionIds, ok \in BOOLEAN : ReturnRedirected(v, q, ok)

DowncastMap(v) ==
    \/ \E e \in ExportIds : DropNewestClient(v, e)
    \/ ClientNotFound(v)

HandleMessage(v) ==
    \/ HandleBootstrap(v)
    \/ HandleCall(v)
    \/ HandleReturn(v)
    \/ HandleFinish(v)
    \/ HandleRelease(v)
    \/ HandleAbort(v)

Next ==
    \E v \in Vats :
        \/ Application(v)
        \/ \E q \in QuestionIds : CancelCall(v, q)
        \/ \E q \in QuestionIds : InitResults(v, q)
        \/ Return(v)
        \/ DowncastMap(v)
        \/ HandleMessage(v)
        \/ Disconnector(v)
        \/ ConnectionLost(v)

Spec == Init /\ [][Next]_vars

\* While there is a connection the executor keeps polling its tasks, so a
\* message that has arrived is handled and a method that can run returns
\* (methods are assumed to terminate).
Fairness ==
    \A v \in Vats : /\ WF_vars(connected[v] /\ HandleMessage(v))
                    /\ WF_vars(connected[v] /\ Return(v))
                    /\ WF_vars(connected[v]
                            /\ \E q \in QuestionIds : CancelCall(v, q))
FairSpec == Spec /\ Fairness

-----------------------------------------------------------------------------
(* Properties *)

\* Type correctness.
TypeOK ==
    /\ connected \in [Vats -> BOOLEAN]
    /\ loop \in [Vats -> BOOLEAN]
    /\ chan \in [Vats -> Seq(Message)]
    /\ questions \in [Vats -> [QuestionIds -> Question \cup {None}]]
    /\ answers \in [Vats -> [QuestionIds -> Answer \cup {None}]]
    /\ exports \in [Vats -> [ExportIds -> Export \cup {None}]]
    /\ exportsByCap \in [Vats -> [Caps -> ExportIds \cup {None}]]
    /\ imports \in [Vats -> [ExportIds -> Nat \cup {None}]]
    /\ stale \in [Vats -> SUBSET ExportIds]
    /\ built \in [Vats -> [target : Target, arg : Argument] \cup {None}]
    /\ issued \in [Vats -> Nat]
    /\ err \in [Vats -> BOOLEAN]
    /\ panic \in [Vats -> PanicSites \cup {None}]

BothConnected == \A v \in Vats : connected[v]

\* Whatever the two applications do, no vat ever sends its peer a message
\* the peer's handlers reject: no Call to a dead export or on an id in
\* use, no Return to a forgotten question, no Release of more references
\* than were given.
NoProtocolError == \A v \in Vats : ~err[v]

\* The references to export e of v that its peer holds or is about to
\* hold: its import's count, the descriptors on their way to it that it
\* will import, the Release messages on their way back, and the results of
\* a cancelled call that its Finish on the way back will release.
Outstanding(v, e) ==
    LET u == Peer(v)
        Imported == IF imports[u][e] = None THEN 0 ELSE imports[u][e]
        Coming == {i \in DOMAIN chan[v] :
                    LET m == chan[v][i] IN
                    /\ m.t \in {"call", "return"}
                    /\ m.cap = [kind |-> "senderHosted", id |-> e]
                    /\ m.t = "return" => /\ questions[u][m.q] # None
                                         /\ questions[u][m.q].ref}
        Released == UNION {{<<i, k>> : k \in 1 .. chan[u][i].n} :
                        i \in {i \in DOMAIN chan[u] : chan[u][i].t = "release"
                                                   /\ chan[u][i].id = e}}
        Finished == {i \in DOMAIN chan[u] :
                    LET m == chan[u][i] IN
                    /\ m.t = "finish" /\ m.release
                    /\ answers[v][m.q] # None
                    /\ answers[v][m.q].call = m.call
                    /\ answers[v][m.q].exp = e}
    IN Imported + Cardinality(Coming) + Cardinality(Released)
                + Cardinality(Finished)

\* Reference counting is exact: the refcount of every export is the number
\* of references outstanding, so an export neither dies while the peer can
\* name it nor outlives the peer's last reference, through any race of
\* Return, Finish and Release.
RefCountConservation ==
    BothConnected =>
        \A v \in Vats, e \in ExportIds :
            (IF exports[v][e] = None THEN 0 ELSE exports[v][e].refcount)
                = Outstanding(v, e)

\* While the connection lasts exports_by_cap is the inverse of exports: a
\* capability has at most one export, which write_descriptor finds.
ExportsMatch(v) ==
    /\ \A c \in Caps : exportsByCap[v][c] # None =>
            /\ exports[v][exportsByCap[v][c]] # None
            /\ exports[v][exportsByCap[v][c]].cap = c
    /\ \A e \in ExportIds : exports[v][e] # None =>
            exportsByCap[v][exports[v][e].cap] = e
ExportsByCapExact == \A v \in Vats : connected[v] => ExportsMatch(v)

\* The unwrap() of write_descriptor and the panic of bootstrap are reached
\* only when there is no connection any more.
DeadConnectionPanics ==
    \A v \in Vats :
        panic[v] \in {"bootstrap", "write_descriptor"} => ~connected[v]

\* Only an import that was received more than once is ever missed.
MissedImports ==
    \A v \in Vats :
        /\ \A e \in stale[v] : imports[v][e] # None /\ imports[v][e] > 1
        /\ panic[v] = "client_downcast_map" => stale[v] # {}

\* Why a vat panics, of the panics in the code the module models
\* (PanicSites): it has lost its connection; or, connected or not, it looks
\* for the client of an import whose last client was dropped before an
\* earlier one, and the import was received at least twice.
PanicsExplained == DeadConnectionPanics /\ MissedImports

\* Question ids are reused, and still no message is taken to be about
\* another call than its sender meant: a Return finds the question of its
\* call still waiting, and a Finish or a pipelined call finds the answer of
\* its call or none.
IdsNeverConfused ==
    BothConnected =>
        \A v \in Vats : LET u == Peer(v) IN
            \A i \in DOMAIN chan[v] :
                LET m == chan[v][i] IN
                /\ m.t = "return" =>
                    /\ questions[u][m.q] # None
                    /\ questions[u][m.q].call = m.call
                    /\ questions[u][m.q].awaiting
                /\ i = 1 /\ m.t = "finish" /\ answers[u][m.q] # None =>
                    answers[u][m.q].call = m.call
                /\ i = 1 /\ m.t = "call" /\ m.target.kind = "promisedAnswer"
                       /\ answers[u][m.target.id] # None =>
                    answers[u][m.target.id].call = m.target.call

\* A capability handed back to its host is still exported when the message
\* arrives, even if the sender dropped its import right after sending.
ReceiverHostedIsLive ==
    BothConnected =>
        \A v \in Vats :
            chan[v] # << >> /\ Head(chan[v]).t \in {"call", "return"}
                /\ Head(chan[v]).cap.kind = "receiverHosted" =>
                    exports[Peer(v)][Head(chan[v]).cap.id] # None

\* A free question id can be given to a new call: if the peer still has an
\* answer under that id, the Finish that removes it is on its way, ahead of
\* any new call.
FreeIdIsReusable ==
    BothConnected =>
        \A v \in Vats, q \in QuestionIds :
            questions[v][q] = None /\ answers[Peer(v)][q] # None =>
                \E i \in DOMAIN chan[v] :
                    /\ chan[v][i].t = "finish" /\ chan[v][i].q = q
                    /\ chan[v][i].call = answers[Peer(v)][q].call
                    /\ \A j \in 1 .. i - 1 :
                        chan[v][j].t \in {"call", "bootstrap"} =>
                            chan[v][j].q # q

\* A call somebody waits for is never left queued behind a call that was
\* cancelled or has returned: it runs, or one of the calls it is queued on
\* does.
WantedCallsProgress ==
    \A v \in Vats, q \in QuestionIds :
        Unreturned(v, q) /\ answers[v][q].eager =>
            \E r \in {q} \cup answers[v][q].waits : Executing(v, r)

\* disconnect leaves no caller waiting: once a vat has lost its connection,
\* the only unsettled promises are those of requests that were sent when
\* there was no connection any more.
DisconnectSettles ==
    \A v \in Vats, q \in QuestionIds :
        ~connected[v] /\ questions[v][q] # None /\ questions[v][q].pending =>
            questions[v][q].lost

\* A comment in write_descriptor: "Should never fail because exports_by_cap
\* should match exports."
WriteDescriptorNeverFails == \A v \in Vats : panic[v] # "write_descriptor"

\* Every call whose result somebody still waits for is settled: by its
\* Return, or by the end of the connection, unless one of the vats does not
\* find a client and stops where it is, without disconnecting.
CallsAreSettled ==
    \A v \in Vats, q \in QuestionIds :
        (questions[v][q] # None /\ questions[v][q].pending
                                /\ ~questions[v][q].lost)
            ~> \/ questions[v][q] = None \/ ~questions[v][q].pending
               \/ \E u \in Vats : panic[u] = "client_downcast_map"

=============================================================================
