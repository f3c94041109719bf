-------------------------- MODULE PromiseResolution --------------------------
(***************************************************************************)
(* An exported promise and what becomes of it (capnp-rpc/src/rpc.rs,       *)
(* queued.rs, sender_queue.rs).  The exporter hosts promises, which are    *)
(* queued::Clients; it gives them to the importer, which wraps the import  *)
(* in a PromiseClient and calls it.  A promise may resolve to a further    *)
(* promise, to a capability of the exporter, to one of the importer (whose *)
(* PromiseClient then needs an embargo), or fail; the exporter's           *)
(* resolve_exported_promise task tells the importer with a Resolve.        *)
(*                                                                         *)
(* Both vats are single threaded and an action is one stretch of code      *)
(* between two awaits: a message handler, a poll of a spawned task, or a   *)
(* step of the application.  The questions that carry the calls are in     *)
(* RpcConnection; here a call is <<reference, number>>, and is "initiated" *)
(* when ClientHook::call is invoked on a settled capability.  Call,        *)
(* Disembargo and Reply find the client they ask client_downcast_map for;  *)
(* that this may fail, and how, is in RpcConnection.                       *)
(***************************************************************************)
EXTENDS Integers, Sequences, FiniteSets

CONSTANTS
    None,       \* no value
    Promises,   \* the local promises of the exporter
    Own,        \* a settled capability of the exporter
    Peer,       \* the exporter's client of a capability of the importer
    Failed,     \* the broken capabilities that failed promises redirect to
    Pipelined,  \* the promises that are capabilities of a call's results
    Givable,    \* the capabilities the exporter's application hands out
    MaxGives,   \* bound: how often it does
    MaxCalls,   \* bound: calls made by the importer
    MaxExports, \* bound: size of the exporter's table
    Lossy       \* the vats whose stream may fail ("A" importer, "B" exporter)

Caps == Promises \cup {Own, Peer} \cup Failed
Refs == 1 .. MaxGives
Ids == 0 .. MaxExports - 1
Vats == {"A", "B"}

ASSUME CapsAssumption ==
    /\ None \notin Caps
    /\ Own \notin Promises \cup Failed /\ Peer \notin Promises \cup Failed
    /\ Own # Peer /\ Failed \cap Promises = {}
ASSUME GivableAssumption == Givable \subseteq Promises \cup {Own}
ASSUME PipelinedAssumption == Pipelined \subseteq Promises
ASSUME PromiseBounds ==
    /\ MaxGives \in Nat \ {0}
    /\ MaxExports \in Nat \ {0}
    /\ Lossy \subseteq Vats

VARIABLES
    up,         \* whether each vat's connection is Ok
    toA, toB,   \* messages sent and not yet handled
    fault,      \* the error a message handler of each vat returned
    \* the exporter
    res,        \* the redirect of each promise
    queued,     \* its call_forwarding_queue
    exports, byCap,
    tasks,      \* the resolve_exported_promise tasks
    replies,    \* the tasks that will answer a Disembargo
    gives,
    \* the importer
    held,       \* the client its application holds under each reference
    clients,    \* the PromiseClients, named by the reference that made them
    imports,
    old,        \* the replaced cap of a PromiseClient, dropped by a task
    embargoes,  \* which PromiseClient waits for each embargo
    gate,       \* the queued client an embargoed PromiseClient points to
    \* history
    made,       \* how many calls were made
    initiated   \* the calls that reached a settled capability, in that order

exporterVars == <<res, queued, exports, byCap, tasks, replies, gives>>
importerVars == <<held, clients, imports, old, embargoes, gate>>
vars == <<up, toA, toB, fault, exporterVars, importerVars, made, initiated>>

\* The importer's clients: its own capability, a broken one, an ImportClient,
\* a PromiseClient and the queued client behind the embargo of one.
Nothing == <<"none", 0>>
Local == <<"local", 0>>
Broken == <<"broken", 0>>
Import(id) == <<"import", id>>
Promised(c) == <<"promise", c>>
Gated(c) == <<"queue", c>>

NoGate == [calls |-> <<>>, st |-> "none"]

Init ==
    /\ up = [v \in Vats |-> TRUE]
    /\ toA = <<>> /\ toB = <<>>
    /\ fault = [v \in Vats |-> "none"]
    /\ res = [p \in Promises |-> None]
    /\ queued = [p \in Promises |-> <<>>]
    /\ exports = [id \in Ids |-> None]
    /\ byCap = [c \in Caps |-> None]
    /\ tasks = {} /\ replies = {}
    /\ gives = 0
    /\ held = [r \in Refs |-> Nothing]
    /\ clients = [c \in Refs |-> None]
    /\ imports = [id \in Ids |-> None]
    /\ old = [c \in Refs |-> Nothing]
    /\ embargoes = [e \in Refs |-> None]
    /\ gate = [c \in Refs |-> NoGate]
    /\ made = 0
    /\ initiated = <<>>

-----------------------------------------------------------------------------
(* The exporter. *)

\* get_resolved() until it returns None: the end of the chain of redirects
\* that starts with c.
Unresolved(c) == c \in Promises => res[c] = None
LeadsTo(c, d) ==
    \A S \in SUBSET Promises :
        c \in S /\ (\A p \in S : res[p] \in Promises => res[p] \in S) => \E p \in S : res[p] = d
Resolved(c) ==
    IF Unresolved(c) THEN c ELSE CHOOSE d \in Caps : Unresolved(d) /\ LeadsTo(c, d)
\* when_more_resolved() is Some.
IsPromise(c) == c \in Promises
FreeIds(t) == {id \in DOMAIN t : t[id] = None}
Lowest(S) == CHOOSE i \in S : \A j \in S : i <= j

\* The tables after write_descriptor(c), and the descriptor it wrote.
WriteDescriptor(c, exps, known, spawned) ==
    LET inner == Resolved(c)
        fresh == Lowest(FreeIds(exps))
    IN  IF inner = Peer
        THEN [exports |-> exps, byCap |-> known, tasks |-> spawned,
              desc |-> [kind |-> "receiverHosted", id |-> 0]]
        ELSE IF known[inner] # None
        THEN [exports |-> [exps EXCEPT ![known[inner]].refs = @ + 1],
              byCap |-> known, tasks |-> spawned,
              desc |-> [kind |-> "senderHosted", id |-> known[inner]]]
        ELSE [exports |-> [exps EXCEPT ![fresh] =
                  [cap |-> inner, refs |-> 1, canonical |-> TRUE]],
              byCap |-> [known EXCEPT ![inner] = fresh],
              tasks |-> IF IsPromise(inner)
                        THEN spawned \cup {[id |-> fresh, on |-> inner, no |-> gives, cancelled |-> FALSE]}
                        ELSE spawned,
              desc |-> [kind |-> IF IsPromise(inner) THEN "senderPromise" ELSE "senderHosted",
                        id |-> fresh]]

\* The bound on the table leaves room for what write_descriptor will add.
Room(c, exps, known) ==
    Resolved(c) # Peer /\ known[Resolved(c)] = None => FreeIds(exps) # {}

\* Dropping resolve_op cancels the task, once the task is polled.
Cancelled(ids) == {IF t.id \in ids THEN [t EXCEPT !.cancelled = TRUE] ELSE t : t \in tasks}

DisconnectB(what, inbox) ==
    /\ up' = [up EXCEPT !["B"] = FALSE]
    /\ fault' = [fault EXCEPT !["B"] = what]
    /\ exports' = [id \in Ids |-> None]
    /\ tasks' = Cancelled(Ids)
    /\ toA' = Append(toA, [type |-> "Abort"])
    /\ toB' = inbox
    /\ UNCHANGED <<res, queued, byCap, replies, gives, importerVars, made, initiated>>

Sends(calls) == [i \in DOMAIN calls |-> [type |-> "Call", call |-> calls[i]]]

\* ClientHook::call on c for each of the calls in turn, q being the queues.
\* A call to a broken capability, or over a lost connection, fails at once.
Forward(c, calls, q) ==
    LET final == Resolved(c)
    IN  /\ queued' = IF IsPromise(final) THEN [q EXCEPT ![final] = @ \o calls] ELSE q
        /\ toA' = IF final = Peer /\ up["B"] THEN toA \o Sends(calls) ELSE toA
        /\ initiated' = IF final = Own THEN initiated \o calls ELSE initiated

\* queued::ClientInner::resolve: the application settles promise p, or p
\* fails, which makes a broken capability of its own.
ResolvePromise(p, c) ==
    /\ res[p] = None
    /\ c # p /\ Resolved(c) # p
    /\ c \in Failed => \A q \in Promises : res[q] # c
    /\ res' = [res EXCEPT ![p] = c]
    /\ Forward(c, queued[p], [queued EXCEPT ![p] = <<>>])
    /\ UNCHANGED <<up, toB, fault, exports, byCap, tasks, replies, gives,
                   importerVars, made>>

\* The application sends c to the importer, in the payload of some message;
\* the importer's application will keep it under the next reference.
Give(c) ==
    /\ up["B"] /\ gives < MaxGives /\ Room(c, exports, byCap)
    /\ LET w == WriteDescriptor(c, exports, byCap, tasks)
       IN  /\ exports' = w.exports /\ byCap' = w.byCap /\ tasks' = w.tasks
           /\ toA' = Append(toA, [type |-> "Cap", desc |-> w.desc, ref |-> gives + 1])
    /\ gives' = gives + 1
    /\ UNCHANGED <<up, toB, fault, res, queued, replies, importerVars, made, initiated>>

\* A poll of a cancelled task: select() looks at the promise first, and only
\* when that is pending at the cancellation.
DropTask(t) ==
    /\ t.cancelled /\ res[t.on] = None
    /\ tasks' = tasks \ {t}
    /\ UNCHANGED <<up, toA, toB, fault, res, queued, exports, byCap, replies, gives,
                   importerVars, made, initiated>>

\* What when_more_resolved() of a promise yields when the promise fails: the
\* error of the call, which it drives, if it is a capability of its results;
\* otherwise the broken capability, as any other resolution.
Rejected(t) == t.on \in Pipelined /\ res[t.on] \in Failed

\* The error: the importer is told so, whatever became of the entry.
SendException(t) ==
    /\ Rejected(t)
    /\ tasks' = tasks \ {t}
    /\ toA' = IF up["B"]
              THEN Append(toA, [type |-> "Resolve", id |-> t.id, desc |-> None])
              ELSE toA
    /\ UNCHANGED <<up, toB, fault, res, queued, exports, byCap, replies, gives,
                   importerVars, made, initiated>>

\* The entry is gone: the task ends with an error nobody receives.
EntryNotFound(t) ==
    /\ res[t.on] # None /\ ~Rejected(t) /\ exports[t.id] = None
    /\ tasks' = tasks \ {t}
    /\ UNCHANGED <<up, toA, toB, fault, res, queued, exports, byCap, replies, gives,
                   importerVars, made, initiated>>

\* The rest of resolve_exported_promise: the entry now stands for the
\* resolution, which either takes it over or is announced by a Resolve.
Redirected(t) == [exports EXCEPT ![t.id].cap = Resolved(res[t.on]), ![t.id].canonical = FALSE]
Forgotten(t) ==
    IF exports[t.id].canonical THEN [byCap EXCEPT ![exports[t.id].cap] = None] ELSE byCap

ReuseEntry(t) ==
    LET c == Resolved(res[t.on])
    IN  /\ res[t.on] # None /\ ~Rejected(t) /\ exports[t.id] # None
        /\ IsPromise(c) /\ Forgotten(t)[c] = None
        /\ exports' = [Redirected(t) EXCEPT ![t.id].canonical = TRUE]
        /\ byCap' = [Forgotten(t) EXCEPT ![c] = t.id]
        /\ tasks' = (tasks \ {t}) \cup {[t EXCEPT !.on = c]}
        /\ UNCHANGED <<up, toA, toB, fault, res, queued, replies, gives,
                       importerVars, made, initiated>>

SendResolve(t) ==
    LET c == Resolved(res[t.on])
        w == WriteDescriptor(c, Redirected(t), Forgotten(t), tasks \ {t})
    IN  /\ res[t.on] # None /\ ~Rejected(t) /\ exports[t.id] # None
        /\ IsPromise(c) => Forgotten(t)[c] # None
        /\ Room(c, exports, Forgotten(t))
        /\ exports' = w.exports /\ byCap' = w.byCap /\ tasks' = w.tasks
        /\ toA' = Append(toA, [type |-> "Resolve", id |-> t.id, desc |-> w.desc])
        /\ UNCHANGED <<up, toB, fault, res, queued, replies, gives,
                       importerVars, made, initiated>>

\* The task of handle_disembargo, which runs after it and so after every call
\* that was forwarded before.
Reply(e) ==
    /\ e \in replies
    /\ replies' = replies \ {e}
    /\ toA' = IF up["B"] THEN Append(toA, [type |-> "ReceiverLoopback", embargo |-> e]) ELSE toA
    /\ UNCHANGED <<up, toB, fault, res, queued, exports, byCap, tasks, gives,
                   importerVars, made, initiated>>

\* handle_message
HandleCall(m) ==
    /\ m.type = "Call"
    /\ IF exports[m.id] = None
       THEN DisconnectB("not a current export", Tail(toB))
       ELSE /\ toB' = Tail(toB)
            /\ Forward(exports[m.id].cap, <<m.call>>, queued)
            /\ UNCHANGED <<up, fault, res, exports, byCap, tasks, replies, gives,
                           importerVars, made>>

HandleRelease(m) ==
    /\ m.type = "Release"
    /\ IF exports[m.id] = None \/ exports[m.id].refs < m.refs
       THEN DisconnectB("invalid release", Tail(toB))
       ELSE /\ toB' = Tail(toB)
            /\ IF exports[m.id].refs > m.refs
               THEN /\ exports' = [exports EXCEPT ![m.id].refs = @ - m.refs]
                    /\ UNCHANGED <<byCap, tasks>>
               ELSE /\ exports' = [exports EXCEPT ![m.id] = None]
                    /\ byCap' = IF exports[m.id].canonical
                                THEN [byCap EXCEPT ![exports[m.id].cap] = None] ELSE byCap
                    /\ tasks' = Cancelled({m.id})
            /\ UNCHANGED <<up, toA, fault, res, queued, replies, gives,
                           importerVars, made, initiated>>

HandleSenderLoopback(m) ==
    /\ m.type = "SenderLoopback"
    /\ IF exports[m.id] = None
       THEN DisconnectB("not a current export", Tail(toB))
       ELSE IF Resolved(exports[m.id].cap) # Peer
       THEN DisconnectB("does not point back", Tail(toB))
       ELSE /\ toB' = Tail(toB)
            /\ replies' = replies \cup {m.embargo}
            /\ UNCHANGED <<up, toA, fault, res, queued, exports, byCap, tasks, gives,
                           importerVars, made, initiated>>

HandleAbortB(m) == m.type = "Abort" /\ DisconnectB(fault["B"], Tail(toB))

HandleB ==
    /\ up["B"] /\ toB # <<>>
    /\ \/ HandleCall(Head(toB))
       \/ HandleRelease(Head(toB))
       \/ HandleSenderLoopback(Head(toB))
       \/ HandleAbortB(Head(toB))

-----------------------------------------------------------------------------
(* The importer. *)

\* The Rc of an ImportClient is held by references of the application, by
\* unresolved or redirected PromiseClients, and by caps about to be dropped.
Kept(id, refs, pcs, olds) ==
    \/ \E r \in Refs : refs[r] = Import(id)
    \/ \E c \in Refs : pcs[c] # None /\ pcs[c].cap = Import(id)
    \/ \E c \in Refs : olds[c] = Import(id)
\* A PromiseClient lives while the application holds it.
Used(pcs, refs) ==
    [c \in Refs |-> IF \E r \in Refs : refs[r] = Promised(c) THEN pcs[c] ELSE None]

\* What dropping clients does, imps being the import table before: an
\* ImportClient with no holder leaves the table and sends its Release.
Collect(imps, refs, pcs, olds, out) ==
    LET gone == {id \in Ids : imps[id] # None /\ ~Kept(id, refs, pcs, olds)}
        pick == CHOOSE id \in gone : TRUE
    IN  /\ imports' = [id \in Ids |-> IF id \in gone THEN None ELSE imps[id]]
        /\ toB' = IF gone # {} /\ up["A"]
                  THEN Append(out, [type |-> "Release", id |-> pick, refs |-> imps[pick].refs])
                  ELSE out
        /\ held' = refs /\ clients' = pcs /\ old' = olds

FirstImport == [refs |-> 1, app |-> Nothing, promise |-> None]

\* Mutant: a repeated import is not counted.
ImportedOnce(id) ==
    IF imports[id] = None THEN [imports EXCEPT ![id] = FirstImport] ELSE imports

\* import(): the table with one more reference to id.
Imported(id) ==
    IF imports[id] = None THEN [imports EXCEPT ![id] = FirstImport]
    ELSE [imports EXCEPT ![id].refs = @ + 1]

\* Mutant: disconnect leaves the embargoes alone.
LiftNone == gate

\* The embargoes' fulfillers are rejected.
LiftAll ==
    [c \in Refs |-> IF \E e \in Refs : embargoes[e] = c
                    THEN [gate[c] EXCEPT !.st = "failed"] ELSE gate[c]]

DisconnectA(what, inbox, out) ==
    LET hit == {c \in Refs : clients[c] # None /\ \E id \in Ids :
                    imports[id] # None /\ imports[id].promise = c}
    IN  /\ up' = [up EXCEPT !["A"] = FALSE]
        /\ fault' = [fault EXCEPT !["A"] = what]
        /\ clients' = [c \in Refs |->
              IF c \in hit THEN [clients[c] EXCEPT !.cap = Broken]
              ELSE clients[c]]
        /\ old' = [c \in Refs |-> IF c \in hit THEN clients[c].cap ELSE old[c]]
        /\ imports' = [id \in Ids |-> IF imports[id] = None THEN None
                                      ELSE [imports[id] EXCEPT !.promise = None]]
        /\ gate' = LiftAll
        /\ embargoes' = [e \in Refs |-> None]
        /\ toB' = Append(out, [type |-> "Abort"])
        /\ toA' = inbox
        /\ UNCHANGED <<held, exporterVars, made, initiated>>

\* receive_cap, for a capability the application keeps.
ReceiveCap(m) ==
    /\ m.type = "Cap"
    /\ LET d == m.desc
           r == m.ref
           imp == Imported(d.id)
       IN  \/ /\ d.kind = "receiverHosted"
              /\ held' = [held EXCEPT ![r] = Local]
              /\ UNCHANGED <<clients, imports, fault>>
           \/ /\ d.kind = "senderHosted"
              /\ held' = [held EXCEPT ![r] = Import(d.id)]
              /\ imports' = [imp EXCEPT ![d.id].app = Import(d.id)]
              /\ UNCHANGED <<clients, fault>>
           \/ /\ d.kind = "senderPromise"
              /\ LET app == IF imp[d.id].app = Nothing THEN Promised(r) ELSE imp[d.id].app
                     new == imp[d.id].app = Nothing
                     dangling == ~new /\ app[1] = "promise" /\ clients[app[2]] = None
                 IN  /\ held' = [held EXCEPT ![r] = IF dangling THEN Nothing ELSE app]
                     /\ clients' = IF new
                           THEN [clients EXCEPT ![r] =
                                    [cap |-> Import(d.id), called |-> FALSE]]
                           ELSE clients
                     /\ imports' = IF new
                           THEN [imp EXCEPT ![d.id].app = app, ![d.id].promise = r] ELSE imp
                     /\ fault' = IF dangling
                           THEN [fault EXCEPT !["A"] = "dangling client ref"] ELSE fault
    /\ toA' = Tail(toA)
    /\ UNCHANGED <<up, toB, exporterVars, old, embargoes, gate, made, initiated>>

\* Mutant: a capability of this vat is called at once.
NeedsEmbargoNever(c, with) == FALSE

\* PromiseClient::resolve(replacement) for client c.
NeedsEmbargo(c, with) == with = Local /\ clients[c].called

\* Mutant: the embargo's number is written where the target belongs.
DisembargoSwapped(c, e) == [type |-> "SenderLoopback", embargo |-> e, id |-> e]
Disembargo(c, e) == [type |-> "SenderLoopback", embargo |-> e, id |-> clients[c].cap[2]]

ResolveClient(c, with, imps) ==
    LET e == Lowest({x \in Refs : embargoes[x] = None})
        embargo == NeedsEmbargo(c, with)
        after == [clients EXCEPT ![c].cap = IF embargo THEN Gated(c) ELSE with]
    IN  /\ embargoes' = IF embargo THEN [embargoes EXCEPT ![e] = c] ELSE embargoes
        /\ gate' = IF embargo THEN [gate EXCEPT ![c].st = "embargoed"] ELSE gate
        /\ Collect(imps, held, after, [old EXCEPT ![c] = clients[c].cap],
                   IF embargo
                   THEN Append(toB, Disembargo(c, e)) ELSE toB)

\* The error path drops the replacement: an import made for it is released
\* before the connection is closed.
HandedBack(m) ==
    IF m.desc # None /\ m.desc.kind # "receiverHosted" /\ imports[m.desc.id] = None
    THEN Append(toB, [type |-> "Release", id |-> m.desc.id, refs |-> 1]) ELSE toB

\* handle_resolve
HandleResolve(m) ==
    /\ m.type = "Resolve"
    /\ LET with == IF m.desc = None THEN Broken
                   ELSE IF m.desc.kind = "receiverHosted" THEN Local ELSE Import(m.desc.id)
           received == IF with[1] = "import"
                       THEN [Imported(m.desc.id) EXCEPT ![m.desc.id].app = with] ELSE imports
           c == received[m.id].promise
           taken == [received EXCEPT ![m.id].promise = None]
       IN  IF received[m.id] = None
           THEN /\ Collect(received, held, clients, old, toB)
                /\ UNCHANGED <<up, fault, embargoes, gate, exporterVars>>
                /\ toA' = Tail(toA)
           ELSE IF c = None
           THEN /\ DisconnectA("not a promise", Tail(toA), HandedBack(m))
           ELSE IF clients[c] = None
           THEN /\ Collect(taken, held, clients, old, toB)
                /\ UNCHANGED <<up, fault, embargoes, gate, exporterVars>>
                /\ toA' = Tail(toA)
           ELSE /\ ResolveClient(c, with, taken)
                /\ UNCHANGED <<up, fault, exporterVars>>
                /\ toA' = Tail(toA)
    /\ UNCHANGED <<made, initiated>>

HandleCallA(m) ==
    /\ m.type = "Call"
    /\ initiated' = Append(initiated, m.call)
    /\ toA' = Tail(toA)
    /\ UNCHANGED <<up, toB, fault, exporterVars, importerVars, made>>

HandleReceiverLoopback(m) ==
    /\ m.type = "ReceiverLoopback"
    /\ IF embargoes[m.embargo] = None
       THEN DisconnectA("invalid embargo", Tail(toA), toB)
       ELSE /\ gate' = [gate EXCEPT ![embargoes[m.embargo]].st = "released"]
            /\ embargoes' = [embargoes EXCEPT ![m.embargo] = None]
            /\ toA' = Tail(toA)
            /\ UNCHANGED <<up, toB, fault, exporterVars, held, clients, imports, old,
                           made, initiated>>

HandleAbortA(m) == m.type = "Abort" /\ DisconnectA(fault["A"], Tail(toA), toB)

HandleA ==
    /\ up["A"] /\ toA # <<>>
    /\ \/ ReceiveCap(Head(toA))
       \/ HandleResolve(Head(toA))
       \/ HandleCallA(Head(toA))
       \/ HandleReceiverLoopback(Head(toA))
       \/ HandleAbortA(Head(toA))

\* The task that drops the cap a PromiseClient pointed to before.
DropOld(c) ==
    /\ old[c] # Nothing
    /\ Collect(imports, held, clients, [old EXCEPT ![c] = Nothing], toB)
    /\ UNCHANGED <<up, toA, fault, exporterVars, embargoes, gate, made, initiated>>

\* The queued client behind an embargo is driven by the calls waiting in it:
\* it forwards them in order, and from then on passes calls straight through.
DriveGate(c) ==
    /\ gate[c].calls # <<>> /\ gate[c].st \in {"released", "failed"}
    /\ initiated' = IF gate[c].st = "released" THEN initiated \o gate[c].calls ELSE initiated
    /\ gate' = [gate EXCEPT ![c] =
          [calls |-> <<>>, st |-> IF @.st = "released" THEN "open" ELSE "broken"]]
    /\ UNCHANGED <<up, toA, toB, fault, exporterVars, held, clients, imports, old,
                   embargoes, made>>

\* Request::send on the client held under r: write_target follows the
\* PromiseClient to its cap, and a cap elsewhere redirects the request.
Call(r) ==
    /\ held[r] # Nothing /\ made < MaxCalls
    /\ made' = made + 1
    /\ LET call == <<r, made + 1>>
           pc == held[r][1] = "promise"
           cap == IF pc THEN clients[held[r][2]].cap ELSE held[r]
           g == gate[cap[2]]
       IN  /\ clients' = IF pc THEN [clients EXCEPT ![held[r][2]].called = TRUE] ELSE clients
           /\ toB' = IF cap[1] = "import" /\ up["A"]
                     THEN Append(toB, [type |-> "Call", id |-> cap[2], call |-> call])
                     ELSE toB
           /\ initiated' = IF cap = Local \/ (cap[1] = "queue" /\ g.st = "open")
                           THEN Append(initiated, call) ELSE initiated
           /\ gate' = IF cap[1] = "queue" /\ g.st \notin {"open", "broken"}
                      THEN [gate EXCEPT ![cap[2]].calls = Append(@, call)] ELSE gate
    /\ UNCHANGED <<up, toA, fault, exporterVars, held, imports, old, embargoes>>

\* The caller drops the promise of a call that still waits: its Remover takes
\* it out of the queue.
Abandon(c) ==
    /\ \E i \in DOMAIN gate[c].calls :
          gate' = [gate EXCEPT ![c].calls =
                      SubSeq(@, 1, i - 1) \o SubSeq(@, i + 1, Len(@))]
    /\ UNCHANGED <<up, toA, toB, fault, exporterVars, held, clients, imports, old,
                   embargoes, made, initiated>>

DropRef(r) ==
    /\ held[r] # Nothing
    /\ LET left == [held EXCEPT ![r] = Nothing]
       IN  Collect(imports, left, Used(clients, left), old, toB)
    /\ UNCHANGED <<up, toA, fault, exporterVars, embargoes, gate, made, initiated>>

-----------------------------------------------------------------------------
LoseA == "A" \in Lossy /\ up["A"] /\ DisconnectA(fault["A"], toA, toB)
LoseB == "B" \in Lossy /\ up["B"] /\ DisconnectB(fault["B"], toB)

ResolveTask(t) ==
    \/ DropTask(t)
    \/ SendException(t)
    \/ EntryNotFound(t)
    \/ ReuseEntry(t)
    \/ SendResolve(t)

Next ==
    \/ HandleA \/ HandleB
    \/ \E t \in tasks : ResolveTask(t)
    \/ \E e \in replies : Reply(e)
    \/ \E c \in Refs : DropOld(c) \/ DriveGate(c) \/ Abandon(c)
    \/ \E p \in Promises, c \in Caps : ResolvePromise(p, c)
    \/ \E c \in Givable : Give(c)
    \/ \E r \in Refs : Call(r) \/ DropRef(r)
    \/ LoseA \/ LoseB

Spec == Init /\ [][Next]_vars

\* The message loops and the spawned tasks are polled; applications owe
\* nothing.
FairSpec ==
    /\ Spec
    /\ WF_vars(HandleA) /\ WF_vars(HandleB)
    /\ \A e \in Refs : WF_vars(Reply(e))
    /\ \A c \in Refs : WF_vars(DriveGate(c))

-----------------------------------------------------------------------------
(* Types *)

Calls == Refs \X Nat
Desc == [kind : {"receiverHosted", "senderHosted", "senderPromise"}, id : Ids]
MessageA ==
    [type : {"Abort"}]
    \cup [type : {"Cap"}, desc : Desc, ref : Refs]
    \cup [type : {"Resolve"}, id : Ids, desc : Desc \cup {None}]
    \cup [type : {"Call"}, call : Calls]
    \cup [type : {"ReceiverLoopback"}, embargo : Refs]
MessageB ==
    [type : {"Abort"}]
    \cup [type : {"Call"}, id : Ids, call : Calls]
    \cup [type : {"Release"}, id : Ids, refs : Nat \ {0}]
    \cup [type : {"SenderLoopback"}, id : Ids, embargo : Refs]
Export == [cap : Caps, refs : Nat \ {0}, canonical : BOOLEAN]
Task == [id : Ids, on : Promises, no : Nat, cancelled : BOOLEAN]
Imports == {Import(id) : id \in Ids}
ImportEntry ==
    [refs : Nat \ {0}, app : {Nothing} \cup Imports \cup {Promised(c) : c \in Refs},
     promise : Refs \cup {None}]
Client ==
    [cap : {Local, Broken} \cup Imports \cup {Gated(c) : c \in Refs}, called : BOOLEAN]
Gate ==
    [calls : Seq(Calls), st : {"none", "embargoed", "released", "open", "failed", "broken"}]

Faults ==
    {"none", "not a promise", "invalid embargo", "dangling client ref",
     "not a current export", "does not point back", "invalid release"}

ASSUME NoneAssumption ==
    None \notin Nat \cup Desc \cup Export \cup ImportEntry \cup Client

TypeOK ==
    /\ up \in [Vats -> BOOLEAN]
    /\ toA \in Seq(MessageA) /\ toB \in Seq(MessageB)
    /\ fault \in [Vats -> Faults]
    /\ res \in [Promises -> Caps \cup {None}]
    /\ queued \in [Promises -> Seq(Calls)]
    /\ exports \in [Ids -> Export \cup {None}]
    /\ byCap \in [Caps -> Ids \cup {None}]
    /\ tasks \subseteq Task /\ replies \subseteq Refs
    /\ gives \in Nat /\ gives <= MaxGives
    /\ held \in [Refs -> {Nothing, Local} \cup Imports \cup {Promised(c) : c \in Refs}]
    /\ clients \in [Refs -> Client \cup {None}]
    /\ imports \in [Ids -> ImportEntry \cup {None}]
    /\ old \in [Refs -> {Nothing, Local, Broken} \cup Imports \cup {Gated(c) : c \in Refs}]
    /\ embargoes \in [Refs -> Refs \cup {None}]
    /\ gate \in [Refs -> Gate]
    /\ made \in Nat /\ initiated \in Seq(Calls)

-----------------------------------------------------------------------------
\* Calls made through one reference reach the capability it stands for in the
\* order they were made, whatever happens to the promise meanwhile: the
\* embargo of PromiseClient::resolve holds back the later ones.
CallOrder ==
    \A i, j \in DOMAIN initiated :
        i < j /\ initiated[i][1] = initiated[j][1] => initiated[i][2] < initiated[j][2]

\* The reference count of an export is what the importer holds or is about to
\* receive or give back, also when a Resolve finds its import released.
Carries(m, id) ==
    m.type \in {"Cap", "Resolve"} /\ m.desc # None
    /\ m.desc.kind # "receiverHosted" /\ m.desc.id = id
Count(id) == IF imports[id] = None THEN 0 ELSE imports[id].refs
GivenBack(id) ==
    UNION {{i} \X (1 .. toB[i].refs) : i \in {i \in DOMAIN toB : toB[i].type = "Release" /\ toB[i].id = id}}
RefsConserved ==
    (up["A"] /\ up["B"]) => \A id \in Ids :
        (IF exports[id] = None THEN 0 ELSE exports[id].refs) =
            Count(id) + Cardinality({i \in DOMAIN toA : Carries(toA[i], id)})
            + Cardinality(GivenBack(id))

\* A call held back by an embargo is let through, or fails: the Disembargo
\* comes back, or the connection is lost and disconnect() rejects it.
EmbargoEnds == \A c \in Refs : (gate[c].calls # <<>>) ~> (gate[c].calls = <<>>)

\* The handlers accept whatever the peer's code sends: ids are current, an
\* embargo comes back once, no more references are given back than there are,
\* and import() finds the PromiseClient its table points to.  Two messages of
\* a conforming peer are refused all the same.  A promise that is exported
\* again is described as settled, and its Resolve then finds an import that is
\* "not a promise", which the formula allows.  And a Disembargo whose target
\* was redirected by the task of another promise "does not point back": that
\* takes a second promise to be given (StrayRedirect), so the formula excludes
\* it for Givable = {p} and is false for Givable = {p, q}.
HandlersSucceed ==
    fault["B"] = "none" /\ fault["A"] \in {"none", "not a promise"}

\* "We know that our entry in the export table is still live because when it
\* is destroyed the asynchronous resolution task (i.e. this code) is canceled"
\* (resolve_exported_promise): a task redirects no entry but its own promise's.
StrayRedirect ==
    \E t \in tasks : /\ ReuseEntry(t) \/ SendResolve(t)
                     /\ Resolved(exports[t.id].cap) # Resolved(t.on)
NoStrayRedirect == [][~ StrayRedirect]_vars
=============================================================================
