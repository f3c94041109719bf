# A verification project for capnproto-rust

TLA+ models of this repository: the RPC connection of `capnp-rpc` with promise
resolution and the queues, task sets, flow control and reconnection around it;
the path of a message from the write queue through framing, packing and a byte
stream to its reader; the layout of messages in segments; and the accessors the
code generator makes, next to the dynamic ones. TLC checks the models on small
instances, TLAPS proves theorems about eight of them for every value of the
constants. `PROJECT.json` gives, for every definition, the source lines it
models.

## 1. Inventory

| component | state it keeps | operations | what is hard |
|---|---|---|---|
| export table (`rpc.rs`, `ExportTable`) | vector of slots, heap of free ids | push, erase, find, iterate | ids reused in any order; `disconnect` replaces the table |
| connection state (`rpc.rs`, `ConnectionState`) | questions, answers, exports, `exports_by_cap`, imports, embargoes, the connection or the error that ended it | bootstrap, new_call/send, drop of a question or import, one handler per message, return, disconnect | messages crossing each other; ids reused; reference counts kept on two sides; cancellation of calls that others are pipelined on; the connection lost between two steps |
| promise resolution (`PromiseClient`, `queued.rs`, `sender_queue.rs`, Resolve/Disembargo) | redirect, queued calls, embargoes, weak references to clients | resolve, call, disembargo, drop | order of calls across a resolution; a Resolve that meets a release |
| two-party network (`twoparty.rs`) | write-queue handle, input stream, window size | send, receive, shutdown | end of stream, shutdown with messages queued |
| rpc system (`lib.rs`) | task set, connection state | bootstrap, accept loop, Disconnector | termination |
| task set (`task_set.rs`) | channel, futures in progress, on-empty fulfillers | add, terminate, on_empty, poll | tasks push while they run; waiters and termination |
| flow control (`flow_control.rs`) | in_flight, max_message_size, blocked sends, empty_fulfiller | send, ack task, reaper, wait_all_acked | lost wakeups, unsigned arithmetic, failed acks |
| reconnecting client (`reconnect.rs`) | current target, generation | new_call, call, send, wrap, set_target | late failures of calls to an old target |
| write queue (`capnp-futures/write_queue.rs`) | mpsc channel, in_flight counter | send, len, terminate, the writing task | several threads, failing writer, task dropped |
| message streams (`read_stream.rs`, `serialize.rs` of capnp-futures) | position in the segment table | poll | partial reads, limits, truncation |
| packed streams (`serialize_packed.rs` of capnp-futures) | stage, buffered word, run | poll_read, poll_write | partial reads and writes in every stage |
| framing, packing (`capnp/serialize*.rs`) | none | encode, decode, with and without allocation | limits, padding, agreement of the readers |
| byte channel (`async-byte-channel`) | buffer, two cursors, two wakers | poll_read, poll_write, close | lost wakeups |
| arena, pointer layout (`capnp/message.rs`, `capnp/private`) | segments of words | allocate, follow far pointers, zero, upgrade, copy, canonicalize | full segments, moved objects, words left behind |
| accessors, reflection (`any_pointer.rs`, `dynamic_struct.rs`, ...) | one struct's data and pointers | get, set, init, clear, which, has, groups | union arms and groups share the same bits |
| generated code, `capnpc` | none | the accessors, and how they follow from a schema | numbers in three generated files and one generator |
| read limiter (`private/read_limiter.rs`) | remaining words | can_read | an unsynchronised counter |

How they interact: `RpcSystem` owns a `TaskSet` that drives the network's write
queue and, through another `TaskSet`, one `ConnectionState`. The connection
state sends through the write queue (never waiting for it), and its message
loop reads from the stream one message at a time. Method calls run as tasks;
`ExportTable` numbers questions and exports. A streaming call goes through a
`FixedWindowFlowController`, which has a `TaskSet` of its own. The reconnecting
client wraps any client, usually a bootstrap of a new connection. Messages are
built through generated or dynamic accessors, which write the struct that the
layout code placed in the arena's segments; the framing code sends the segments.

What makes each correct: no id in use twice and none lost (export table);
reference counts that add up across both vats and the wire, no message the peer
must reject, no mix-up of calls that share an id, no caller left waiting
(connection); calls in the order they were made, whatever a promise resolves to
(promise resolution); messages that arrive whole and in order, promises that
settle, nobody asleep with work to do (write queue, streams, byte channel); every
reader finding the same message, and the one that was written (framing, packing);
no early and no missing wakeup (task set, flow control); a failed target given up
and a healthy one kept (reconnect); a message that reads back as it was built,
without stray words (layout); fields that keep their values whatever happens to
their neighbours (accessors).

## 2. Modules

| module | models | built on |
|---|---|---|
| `IdTable` | what an id table promises: the least unused id, nothing else disturbed | |
| `ExportTable` | `ExportTable` of `rpc.rs` | implements `IdTable` |
| `ExportTableProofs` | its theorems | `ExportTable` |
| `RpcConnection` | two `ConnectionState`s and the messages between them | |
| `RpcConnectionProofs` | its theorems about types, exports, disconnect, question ids and queued calls | `RpcConnection` |
| `RpcRefsProofs` | its theorems about reference counts and protocol errors | `RpcConnectionProofs` |
| `PromiseResolution` | an exported promise, its importer, Resolve and Disembargo | |
| `PromiseProofs` | its theorems about types, reference counts and rejected messages | `PromiseResolution` |
| `CallOrderProofs` | its theorem about the order of calls | `PromiseProofs` |
| `TaskSet` | `task_set.rs` | |
| `FlowControl` | `flow_control.rs` | composed with `TaskSet` |
| `FlowControlProofs` | theorems about both | `FlowControl` |
| `Reconnect` | `reconnect.rs` | |
| `ReconnectProofs` | its theorems | `Reconnect` |
| `WriteQueue` | `write_queue.rs` | |
| `Framing` | `capnp/serialize.rs`, `no_alloc_buffer_segments.rs`: operators | |
| `AsyncFraming` | `capnp-futures/serialize.rs`: the reader's future as a record | `Framing` |
| `MessagePipe` | what a stream of messages promises | |
| `Transport` | write queue, framing, byte channel and receiver together | `WriteQueue`, `AsyncFraming`; implements `MessagePipe` |
| `TransportProofs` | theorems about the write queue alone and about the composition | `Transport` |
| `Packing` | `capnp/serialize_packed.rs`: operators | `Framing` |
| `PackedStream` | `capnp-futures/serialize_packed.rs` | `AsyncFraming`, `Packing` |
| `Layout` | `private/layout.rs`, the builder's arena | |
| `Fields` | how an accessor touches a struct's sections; notation of the tables | |
| `Codegen` | what `codegen.rs` generates for a struct | `Fields` |
| `RpcTables`, `TwopartyTables`, `SchemaTables` | the structs of the three generated files | `Fields` |
| `Accessors` | generated and dynamic accessors on one struct | `Codegen` |
| `MC*` | instances for TLC | |

Definitions that begin a plausible bug are marked `Mutant` in the modules; no
next-state relation uses them. `PROJECT.json` pairs each with the property that
catches it.

### ExportTable

`slots` is the vector of `Option<T>`, `free_ids` the min-heap of `Reverse<u32>`
as a set. `PushReuse` and `PushAppend` are the two branches of `push`; `Reset`
is the replacement by a fresh table in `disconnect`. The refinement maps
`slots` to a function from ids to entries.

### RpcConnection

A vat is single threaded, so an action is one uninterrupted stretch of code
from one `await` to the next, with everything it calls. `chan[v]` is the FIFO
of messages vat `v` has sent and its peer has not handled. Correspondence:

- application: `Bootstrap`, `BuildRequest` (`new_call`), `SendRequest`
  (`Request::send`; building and sending are two steps because the application
  may wait in between), `DropQuestionRef`, `DropImport`;
- message loop: `HandleBootstrap`, `HandleCall`, `HandleReturn`,
  `HandleFinish`, `HandleRelease`, `HandleAbort`, each with its error paths
  (`Fail`: the task's error handler disconnects);
- a running call: `InitResults` (the results message is made, over the
  connection or locally if there is none), then one of `ReturnResults`,
  `ReturnException`, `ReturnCanceled`, `ReturnRedirected`, or `CancelCall`;
- the end: `Disconnector`, `ConnectionLost`.

Data is abstracted: a payload carries at most one capability, capabilities are
model values, methods are arbitrary and assumed to terminate. Each question
has a number `call` of its own, carried along by messages and answers and read
by no guard, so that the properties can say which call a reused id stands for.

Points worth knowing. A Finish that arrives before the Return drops the call's
completion promise. The task that `eagerly_evaluate` made may be polled once
more before it notices, so the call may still end with `ReturnCanceled`;
otherwise `CancelCall` drops it and no Return is sent. A call pipelined on an
unreturned answer is queued on it (`waits`) and keeps it running. After
`Disconnector` the message loop still handles one message. After a disconnect
calls may still finish, their results then go nowhere or stay local. Delivery
of Abort also stands for the peer's end of stream.

An import that is received several times has one `ImportClient` and as many
`Client`s, and the last `Client` made is the one in `client_downcast_map`, which
does not hold it. `stale` is the set of imports for which the last one has been
dropped while an earlier one is still held (`DropNewestClient`); receiving the
import again mends it (`ClientFound`). `write_descriptor` and `write_target` look
the client of an import up there and take it for unreachable that it is missing:
`MayDescribe` is the lookup, `ClientNotFound` the panic of a vat whose lookup fails.

Not in this module: promises that resolve later (they are `PromiseResolution`),
capabilities of the peer's answers sent back to it (`receiverAnswer` descriptors),
tail calls, `set_pipeline`, calls forwarded to the caller's own capabilities.

### PromiseResolution

Vat B exports promises (`queued::Client`s), vat A imports them and wraps each in
a `PromiseClient`. B's application gives a promise away (`Give`), resolves it
(`ResolvePromise`) to another promise, to a capability of its own, to one of A's,
or to an error; the `resolve_exported_promise` task then runs in one of the ways
its code has: it finds its entry gone (`EntryNotFound`), moves or forgets the
entry (`ReuseEntry`, `Forgotten`), and sends a Resolve with the replacement or
the exception. A calls, drops references and abandons calls at any time;
`HandleResolve` is `handle_resolve` with `PromiseClient::resolve`, which raises
an embargo where calls may still be on their way round (`NeedsEmbargo`,
`Disembargo`), `gate` the queue that holds calls back meanwhile. Both streams may
fail, and `disconnect` lifts what is embargoed. `fault` records what a handler
returned an error for.

A promise that fails becomes a broken capability of its own (`Failed`). For most
`queued::Client`s `when_more_resolved` yields that capability as it would any
other, and the task exports it and sends a Resolve with it. Only a promise that is
a capability of a call's results (`Pipelined`) drives the call and gets its error
instead (`Rejected`), and only then the Resolve carries an exception. When a
Resolve finds an import that is not a promise, its replacement is given back ahead
of the Abort (`HandedBack`). The lookups in `client_downcast_map` are taken to
succeed here; `RpcConnection` has what happens when they do not.

`Resolved` is `get_innermost_client`: the end of a chain of redirects, which
`ResolvePromise` keeps free of circles. A task remembers with `no` how many
capabilities had been given when it was made, so that a number that is given
away twice has two tasks; a capability's message says under which reference (`ref`)
the importer's application will keep it; a call is its reference and its number in
the order of making, and `initiated` is the log of the calls that reached a
capability of either vat. No guard reads any of them but `ref`.

### WriteQueue

`send` is two steps, `Count` (`fetch_add`) and `Push` (`unbounded_send`),
because handles are used from several threads. The task waits for the channel,
for `write_message` and for `flush`; both may fail, and the task may be dropped
at any moment. When it ends, the oneshots of everything it owned are canceled.

### Framing, AsyncFraming, Transport

A stream is a sequence of units of four bytes (half a word), each a number below
`U32`, because that is the size of a table's entry; a smaller modulus keeps the
wrapping of the segment count. `usize` is taken to have 64 bits. The future of
`try_read_message` is a record that `Fed` and `AtEnd` advance by what a read
gives. In `Transport` each poll of the byte channel holds its lock and is one
step; a side that parks is not polled before it is woken. The write queue of
`WriteQueue` writes through it, `receive_incoming_message` reads from it, and
`Pipe` is the refinement mapping to `MessagePipe`: what the sender knows to be
written, what the receiver has got, and how each side ended.

### Packing, PackedStream

Packing treats the eight bytes of a word alike, so a word has two bytes here and
a tag two bits; `RUN_MAX` is the 255 of the code. `PackedStream` has one action
per stage of `PackedWrite` and of `PackedRead`, each taking as many units as the
stream below and the buffer above allow, so that every partial read and write
happens. Its four sources are the asynchronous packer, the synchronous one, an
arbitrary packed stream, and an arbitrary plain stream.

### Layout

A message is a sequence of segments of words; a word is data, a pointer or zero
(null, a zero of data and the empty tag are the same word, as in the code). The
actions are the operations of `PointerBuilder`: init, get with an upgrade, list
inits, `set_capability`, clear, `copy_from`, and `copy_content_from` and the data
setters of `StructBuilder`; each takes any pointer within reach. Beside the
segments, `tree` keeps the value the application has built, changed by what each
operation means. Sizes are in words: lists of elements smaller than a word,
text and data, malformed messages and read limits are left out. The allocator is
`HeapAllocator` with `FixedSize` ("primarily useful for testing cross-segment
pointers", `message.rs:736`), which makes segments fill up at once.

### Fields, Codegen, tables, Accessors

Each struct of a generated file is a record: what its getters read, what its
setters and initialisers write, in which order, its schema node and its member
tables. `Codegen` computes the same from the node, following `codegen.rs`.
`Accessors` runs two fields of one struct through every sequence of static and
dynamic operations; fields interfere only by the places they occupy, pair by
pair, so two at a time are enough. A data section is the set of its one bits,
which keeps default masks (an exclusive or) exact. `arm` and `want` are what the
program expects: the union members it chose and the values it stored. A get of a
builder writes where the pointer is null: the generated one of a struct
(`StaticGetBuilder`), the dynamic one also of a text or data (`DynamicGetBuilder`),
so that `has` turns true.

### TaskSet, FlowControl

`StartPoll` is the first loop of `poll`, `Complete` one round of the second,
with the items the task pushes as it finishes; `EndPoll` is `Pending`. Pushes
from outside happen between polls, as everything lives in one thread. The
stream's end (all handles dropped) changes nothing that can be observed.
`FlowControl` uses these actions for its ack tasks: `Acked` is the ack task
from `ack.await` to its end, `AckFails` its error and the reaper.

### Reconnect

Every result of `connect` is a fresh target that is alive, dead or broken;
targets die at any time. `Init` covers both the lazy and the eager client.
A call is built and sent in one step (`Call`) or in two (`NewCall`, `Send`).
`epoch` records when its request was built.

## 3. Runs

| run | instance | checks |
|---|---|---|
| `export_table` | 5 slots, 2 entries | heap = empty slots, refinement of `IdTable` |
| `rpc_calls` | vat 0 asks 3 times, or vat 0 twice and vat 1 once; 2 question ids | types, conservation of references, ids never confused, a free id is reusable, wanted calls make progress, no message is rejected, a capability handed back is still exported |
| `rpc_disconnect` | 2 questions, 2 capabilities, both vats may quit and lose the stream | index of exports exact, why a vat panics, disconnect settles, every call is settled (liveness) |
| `promises` | 2 promises, one of them given, twice; one may fail; 2 calls, 2 export ids, both streams may fail | calls keep their order, references are conserved, handlers refuse no message but a Resolve of what is not a promise, embargoes end (liveness) |
| `tasks` | a flow controller with 3 messages (sizes 1, 2, 2), window 1; or any owner with 2 tasks; 2 waiters | on_empty never early, busy waiters answered (liveness), byte count exact, what may be in flight at most, blocked sends settle (liveness) |
| `reconnect` | 3 calls, 4 targets, 1 set_target | a target that failed is given up, one that works is kept |
| `transport` | 2 senders, 3 messages of 1 to 3 segments, one too large; 2 terminates; a channel of 3 units | wire is a prefix, terminate drains, a parked side is idle, promises settle and everything arrives (liveness), refinement of `MessagePipe` |
| `codec` | messages of 1 or 2 segments and up to 4 words; packed streams of up to 7 units; all plain streams | messages come back, all readers agree (two but for what `ReadersAgree` names), both unpackers agree |
| `layout` | segments of 5 words, 4 operations, 3 struct sizes | reads back, every word owned, canonical form |
| `accessors` | all structs of the three generated files, all pairs of fields | writes stay inside, static and dynamic reads, generated = generator |

Why the bounds are enough: three questions on two ids let an id be used,
finished, reused and still meet a message of its first use, and give a pipeline
of depth two; two capabilities let an export be erased while another stays; a
promise given twice and resolving to another promise meets a released import, a
reused export number and a second resolution under an embargo; two messages
larger than the window and a smaller one reach every branch of the window
arithmetic; two calls in flight and a third afterwards are what late failures
need; a channel of three units is smaller than any table with a segment, so
every message is cut; four words give a run, its end and a word after it; in
segments of five words the second object no longer fits, and four operations
build, fill, move and overwrite it, behind single and double landing pads.
Every action of the modules fires in some run.

`patient` in `FlowControl` records whether the caller has waited for every send
so far; only then is there a bound on what is in flight. `orphans` in `Layout`
records that an operation was used that leaves its old object behind.

Runs that end in a violation compare the code with what the repository says of
it:

| run | said | done |
|---|---|---|
| `rpc_write_descriptor` | `rpc.rs:1442`: "Should never fail because exports_by_cap should match exports." | `disconnect` clears `exports`, not `exports_by_cap`; a call that returns afterwards panics |
| `packed_long_run` | `capnp-futures/src/serialize_packed.rs:251`: "packs any data passed into it" | the count of a run is cut to a byte; a longer run does not come back |

Deadlock checking is off except in `export_table`: the applications may stop
asking, a vat may be disconnected, a stream, queue or set may end, operations
are bounded, and then nothing is left to do.

### Observations

What came up while modelling and has no run of its own.

Connection:
- A request built before a disconnect and sent after it is never settled
  (`rpc.rs:1933`), although `rpc.rs:2042` counts on "a regular send() which will
  fail appropriately". `DisconnectSettles` exempts exactly these.
- `client_downcast_map` holds one `Client` of an import, the last one made
  (`rpc.rs:2992`). When that one is dropped and an earlier one is not, the lookup
  fails, and sending the import, or a call through it, reaches an `unreachable!()`
  (`rpc.rs:1431`, `:1278`) on a connected vat. `PanicsExplained` allows for it where
  an import was received at least twice, and for nothing else while a vat is
  connected; `rpc_calls` and `rpc_disconnect` both reach it. Its vat stops without
  disconnecting, so `CallsAreSettled` says nothing of what happens next.
- A call finished before it has returned may be dropped without a Return
  (`rpc.rs:813`); the caller's question id then stays taken for the life of the
  connection, against `rpc.capnp:400` and `:575`.
- The task of an exported promise may find another entry under its number: the
  promise resolves, the importer's Release frees the number, the same turn of the
  event loop gives it to another capability, and `eagerly_evaluate` polls the task
  before its cancellation. The entry of the other capability is then redirected,
  although "We know that our entry in the export table is still live"
  (`rpc.rs:1324`). `NoStrayRedirect` says that this does not happen; TLC refutes it
  within nine steps when `Givable` is `{p, q}`. In `promises`, where one promise is
  given, it does not happen. References are conserved either way; the order of
  calls is not, and a Disembargo may be refused because its target "does not point
  back": with `{p, q}` TLC refutes `CallOrder` and `HandlersSucceed` too. Section 4
  has the proofs.
- `write_descriptor` says senderHosted for a promise it has exported before, so
  a later Resolve finds an import that is not a promise and ends the connection
  (`rpc.capnp:1017`). `HandlersSucceed` exempts this one error. It is the only one
  where one promise is given, as in `promises`; where two are, the one above is the
  other.
- `PromiseClient::when_more_resolved` called after the resolution registers a
  waiter that nobody answers.

Queues:
- `on_empty` on a task set without tasks is not answered (`task_set.rs:184`),
  although it "finishes at the next time when the task set is empty"
  (`task_set.rs:128`); `BusyWaitersAnswered` speaks of sets with tasks.
- `len()` of the write queue goes on counting messages dropped when the task
  ended. A `send` after `terminate()` does not "immediately" fail
  (`write_queue.rs:146`) but when the task reaches the Done.
- The reconnecting client may reconnect twice for one lost target
  (`reconnect_test.rs:169`: "once, not twice"): a request built before a
  reconnection and sent after it carries the new generation.
  `HealthyTargetKept` speaks of calls built and sent in one generation.

Streams:
- `try_read_message_no_alloc` ("Like `try_read_message()`", `serialize.rs:319`)
  reads the rest of the segment table with `read` where the others use `read_exact`,
  and ignores how much it got (`serialize.rs:370`): what a short read leaves out is
  zeroes. A stream that ends inside the table may so be accepted, which all other
  readers refuse. `ReadersAgree` compares it on full reads, and says nothing of it on
  streams that end inside the table; on every other stream its errors count too.
- `BufferSegments::new` panics on a buffer shorter than its table says, where
  the other readers return an error; `ReadersAgree` expects the panic exactly there.
- When the stream below is not ready, the asynchronous packer lets a run cross
  from one `write_all` to the next; the synchronous unpacker refuses such a
  stream. The asynchronous unpacker takes the end of the stream after a lone tag
  for a clean end. `UnpackersAgree` allows for both.
- `PackedRead` resumes a partly drained word at bit `buf_pos - 1`
  (`serialize_packed.rs:164`), which is the wrong bit once a zero byte has been
  given out. The readers of the repository ask for whole words and runs are whole
  words too, so a word is always drained at once; `DrainingBuffer` relies on it.

Layout and accessors:
- The upgrade of a list of structs zeroes one word too few (`layout.rs:1593`: it
  starts at the tag, with the length of the elements); `copy_pointer` of a null
  source (2164) and `set_capability_pointer` (1981) leave the old object in the
  segment. `zero_object` panics on capability pointers (597).
- The check of `copy_content_from` for a struct copied onto itself (3732) looks
  inverted; `get_writable_list_pointer` for pointers on a list of structs with
  data adjusts the offset (1422) a second time in `into_reader` (3893). Both are
  outside the model.
- A dynamic set of an AnyPointer or capability from what was read of another
  always fails, after the union was switched; so does setting a group that
  holds one, after the group was cleared.
- A dynamic get of a builder does not look at the union: of a member that is not
  chosen it writes the default into the pointer, if that is null, which the chosen
  member may share (`dynamic_struct.rs:297` to 427). The getters of the generated
  code are reached through `which()`, and of those in these files only the ones of
  structs write.
- A default of -0.0 counts as zero in the generator. The order of
  `MEMBERS_BY_NAME` is not compared.

### Fairness

- `RpcConnection`: as long as a vat is connected, its executor polls its tasks,
  so arrived messages are handled, methods return and dropped calls are
  cancelled. Nothing is assumed of a disconnected vat, of the applications, or
  of the loss of the connection.
- `PromiseResolution`: a connected vat handles what has arrived, and drives its
  gates; a stream need not fail, and applications need not do anything.
- `Transport`: the task is polled unless it is parked in the channel, and so is
  the receiver; a `send` that has counted its message pushes it. Nothing is
  assumed of the failure of the stream or the drop of task, handles or receiver.
- `TaskSet`: a woken set is polled and a poll ends. A poll may yield early, but
  `FuturesUnordered` serves its futures in turn, so a task (or Terminate) that
  stays ready is not passed over for ever: strong fairness. Every task gets
  ready some day.
- `FlowControl`: its acks are tasks of the set, and every call is answered or
  fails, so this is the fairness of the set. The set may be dropped, which
  `BlockedSendsSettle` allows for.

## 4. Proofs

`ExportTableProofs`, for every bound and every set of entries:
`TypeCorrect`, `FreeIdsAreEmptySlots` and `Refinement`. The inductive invariant
is the conjunction of the type invariant and "the heap holds exactly the empty
slots": `PushReuse` is the least-id push of `IdTable` only because no
empty slot is missing from the heap, and `PushAppend` only because an empty
heap means a full vector.

`RpcConnectionProofs`, for every number of questions, exports and capabilities,
every budget and every choice of faulty vats:

- `TypeCorrect`. One lemma per action; that no export is kept with a count of
  zero is part of it, so `Release` must erase exactly at zero.
- `ExportsMatchWhileConnected` and `PanicsAreExplained`, from `ExportInv ==
  ExportsByCapExact /\ DeadConnectionPanics` and, for the lookups in
  `client_downcast_map`, `MissedImports`. The parts of `ExportInv` need each
  other: the `unwrap()` of `write_descriptor` succeeds because the index is
  exact. `WriteDescriptorMatches` and `ReleaseMatches` show that the two
  operations on the tables keep the index exact, `WriteKeeps` and
  `ReleaseKeeps` lift them to the actions. The case that would break it is the
  disconnected vat, which the invariant exempts.
- `DisconnectSettlesCalls`, from `SettleInv`: a pending question has its
  QuestionRef, and is either on a live connection or was lost when it was sent.
  The first half is what makes `disconnect`, which looks only at questions with
  a QuestionRef, complete.
- `NoConfusion` and `FreeIdsReusable`, from one invariant per question id
  (`SlotOK`) about the caller's entry, the callee's entry and the messages of
  both channels. It says: at most one Call under the id is on its way, its
  question awaits it, and nothing of it has come back; at most one Return is, to
  a question that awaits it; a Finish is either about the present question,
  dropped by its caller, and behind its Call, or about a former one and ahead of
  the next Call; an answer is about the present question, or has returned and
  its Finish is on its way; a pipelined call has nothing ahead of it that could
  change what its target id means. The invariant is a predicate of values, so
  the lemmas are about what one handler does to one entry and one channel
  (`Asked`, `DroppedAwaiting`, `TakenUp`, `Closed`, `ReceivedHeld`,
  `FinishTaken`, `StaleFinishTaken`, ...); the actions are put together from
  them, once for the vat as caller and once as callee. `IdsInv` adds that a
  request not yet sent keeps the question it names, which is why a
  `QuestionRef` must live as long as the requests built on its pipeline.
- `QueuedCallsProgress`, from `QueueInv`: the calls a call is queued on have not
  returned, are queued on no more than it is, and it is not one of them. Being
  queued on fewer calls is well founded, so one of them is queued on nothing.

`RpcRefsProofs`, for the same constants again:

- `CountsConserved`, from `RefsInv`: `IdsInv`, `ExportInv` and, while both vats
  are connected, `Books`. For each export a `Ledger` balances its refcount with
  what its peer holds, the descriptors on their way to it (`ComingTo`), the
  Releases on their way back (`GivenBack`) and the Finishes that will release
  results (`FinishedOf`). What is not inductive in that alone is a call dropped
  while its Return is on its way: the reference in the Return is then never
  imported and must be settled by the Finish, exactly once. `HeldOK` says why it
  is, by relating the results an answer holds to the question and to the messages
  of both channels.
- `HandedBackIsLive`, from `LiveInv`: a message names an export only while its
  sender holds the import, or with the Release that gives the import up behind it
  (`NamedOK`), and a request not yet sent holds what it names. By the ledger a
  reference that is held or on its way back keeps the export in its table.
- `NoErrors`, from `SilentInv`. While both are connected, `LiveInv` excludes each
  rejection: a Call meets a free answer, a Return its question, a Finish its
  answer, a Release a count that is large enough. When one end goes, its tables
  are cleared but the other still reads what it left, so that the two sides can no
  longer be compared. `LeftOK` says what is then enough, of the reader's tables
  and the rest of the channel alone: for some set of exports that the peer had
  held, each export counts at least what is held, given back and finished. That
  the invariant of the connected vats gives `LeftOK` at the moment one goes, and
  that the reader's steps keep it to the end of the channel, are the two halves
  of the proof. TLC checked `LeftOK` on the instance of `rpc_disconnect` first.
- `StaysConnected`: where nobody disconnects and the stream does not fail, no
  error of the protocol itself ends the connection.

`ReconnectProofs`, for every number of calls, targets and `set_target`s:
`TypeCorrect`, `FailedTargetsAbandoned` and the action property
`HealthyTargetsKept`. The invariant relates the generation a call remembers to
the target that was current then: a call of the current generation failed on the
current target, one of an older generation on a target given up since.

`TransportProofs`, for every set of messages and handles, first of `WriteQueue`:
`TypeCorrect`, `WirePrefix`, `DrainedBeforeDone`. The invariant is that what is
written, what the task holds and what is in the channel are, in this order, the log
of what was pushed, that nothing is pushed twice, that a promise is fulfilled exactly
when its message is written, and that a Done is answered only when the task has ended
with all before it written.

Then of `Transport`: `ImplementsWriteQueue` (each step of the queue over the byte
channel is a step of `WriteQueue` or a stutter) carries these over as
`WireInOrder` and `DrainedOverChannel`; `ParkedIdle` follows from `WakerInv`,
which adds to it that the writer parks only with bytes left to write.

`FlowControlProofs`, for every set of tasks, sizes and window: `TaskSetNotEarly`
for a set with any owner, and for the flow controller `TypeCorrect`, `NotEarly`,
`InFlight`, `WindowBound`. The set's invariant is that the channel is what is
left of the log of pushes, that what was taken from it is in progress or done,
and that a waiter is answered only with all before it done. The controller adds
that a blocked send has been counted, that a message not pushed has no ack task,
and that there is room for one more message whenever nobody is blocked; the size
in flight is a cardinality, so that the lemmas are about adding and removing the
units of one message.

The assumptions are those named in the modules: the bootstrap capability is one
of the vat's, bounds and sizes are natural numbers, `None` is none of the values
a slot holds.

`PromiseProofs`, for every set of promises, every bound and every choice of
streams that fail, proves first `TypeCorrect` and `ReferencesConserved`, from one
inductive invariant, `Account`. Its parts:

- `Tables`: types; `ChainInv`, that every chain of redirects has exactly one end,
  without which `Resolved` would mean nothing; `ExportInv`, that `exports_by_cap`
  is the inverse of the canonical exports.
- `Clients`: `RefsInv`, a reference whose capability is still on its way is in no
  table of the importer; `ClientsInv`, a PromiseClient is in the table as long as
  the application holds it; `PromiseInv`, an import that remembers a PromiseClient
  is what this client points to; `KeptInv`, an import is in the table exactly as
  long as something keeps its ImportClient; `EmbargoInv`, an embargo is of a
  client that was resolved.
- `Ledger`: for each export, its count is that of the import, and the descriptors
  on their way to the importer, and the Releases on their way back.

The balance alone is not inductive: that an import is given back, with all that
was counted for it, once and no sooner than nobody can reach it, is `KeptInv`, and
that a Resolve drops the right import is `PromiseInv`. `WriteEffect` says what
`write_descriptor` adds for one id, `CollectEffect` and `CollectBalance` what the
drop of clients takes away: at most one import loses its last holder in a step,
which is why the model sends at most one Release. Most of the length is
`HandleResolve`, where an import is received, a client leaves another one, and
each of the two may already be gone.

Two more theorems are about the errors of the handlers. `FaultsBounded` holds
without a hypothesis: of the six errors in `Faults` only two ever occur, "not a
promise" at the importer and "does not point back" at the exporter. Its invariant,
`Sound`, adds to `Account`:

- `NamedInv`, a Call or a Disembargo on its way names an export that the importer
  still holds, or gives back behind it; `LeftInv`, the same for what is still read of an
  importer that has gone, counted against the references it held;
- `FreshInv`, a promise described as senderPromise is the import of nobody yet, which
  is why `receive_cap` never finds a dangling client;
- `TokenInv`, an embargo is asked for, being answered or answered, once.

`HandlersAccept` states `HandlersSucceed` for behaviours that satisfy
`NoStrayRedirect`, which is what the comment of `resolve_exported_promise` assumes
(see the observation in section 3) and what the code does not ensure: without it a
Disembargo may find that its export points elsewhere. Its invariant adds
`ResolveInv`, that the Resolves on their way say where their exports lead, and
`BackInv`, that an export a Disembargo names points back to the importer. A call, a
release or another resolution does not change where an export leads: a promise is
resolved once, and an entry that a task redirects leads where it led before, which
is `MeaningStays`.

`CallOrderProofs` proves `CallsInOrder`, which states `CallOrder` under the same
hypothesis. It is needed: with `Givable` `{p, q}` TLC finds, in a trace of fourteen
states, a call forwarded at once by a stray redirect past an earlier one that still
waits for its promise. In the invariant a call is at one of five stages: begun, on
the way back to the caller's vat, queued at the exporter for a promise, on the way
to the exporter, held by an embargo. `Lined` says of them:

- `Order`: calls of one reference are in order within each stage and from stage to
  stage, and the next number is greater than all of them.
- `Flow`: those on their way all have one end, the peer's capability, the exporter's
  or a promise (`FlowInv`), and it is where the import that the reference stands for
  leads (`CurrentInv`). So a call never overtakes one that is queued. This is where
  the hypothesis is used, and why the proof needs `ResolveInv`: a client that turns to
  the export a Resolve names turns to the same end.
- `Holders`: what a client's state says of the calls through it. None is on its way
  when the client was never called, which is why `PromiseClient::resolve` may then
  skip the embargo (`RestInv`), when its embargo is lifted (`ThroughInv`), or when the
  reference has not arrived (`UnbornInv`); held calls are in the queue of their own
  reference's client only (`WaitInv`), and only while it is not open (`GateInv`).
- `FlushInv`: while an embargo waits for a Disembargo, no call of its client is behind
  it, on either channel, and those ahead of it all end at the peer, so that when it
  comes back they have begun.

TLC checked each part on instances with two and three calls before the proof.

Only model-checked: everything temporal beyond `[]` (liveness under fairness is
out of the prover's reach); the refinement of `MessagePipe`, which needs the sum of
the sizes of a sequence of messages and the round trip of the framing. `Layout`,
`Accessors`, `PackedStream` and the codec operators are recursive over data, which the
prover cannot induct on.

## 5. Plan

Every component the inventory names is modelled, but for the parts section 6
lists, and every invariant of a run that does not rest on induction over data is
proved. What could follow is the code the models leave out: the read limiter with
several threads, and calls forwarded to the caller's own imports.

## 6. Not modelled, and why

- Tail calls, `set_pipeline`, calls forwarded to the caller's own imports, and
  `receiverAnswer` descriptors (capabilities of an answer sent back to its vat).
  Third-party handoff (level 3 of the protocol) is answered with `unimplemented`.
- Local and broken clients appear only as what a call to them does; attach and
  split are plumbing for futures.
- The read limiter: it only approximates its limit between threads, and nothing
  in the repository promises more.
- List elements smaller than a word, text and data blobs, traversal and nesting
  limits and malformed messages in the layout; `GrowHeuristically`, which only
  chooses the size of the next segment.
- The text of the generated code (names, types, generics, interfaces), and
  stringification; of the generator, the getters that an annotation makes return an
  `Option`, and parameters of AnyPointer type, neither of which the three generated
  files have.
- `FuturesUnordered`, the mpsc and oneshot channels, the executor and the stream
  are external and modelled by how the code uses them.
