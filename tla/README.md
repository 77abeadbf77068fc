# Verification of wired: connections, their streams and the worker threads

wired is a QUIC, HTTP/3, WebTransport and MoQT server SDK in freestanding C.
This directory holds TLA+ models of the parts of it that carry state across
steps, threads or packets, the TLC configurations that check them on small
instances, and TLAPS proofs of what matters most for every size.

    tlc -workers 2 -config SendSession.cfg MCSendSession   # a run
    tlapm SrvInbox_proofs.tla                              # a proof

`PROJECT.json` lists the components, runs, findings, hazards and theorems, and
maps every definition to the lines it models.

## 1. Inventory

| Component (under `src/src`) | State | Operations | Hard because | What makes it correct | Module |
| --- | --- | --- | --- | --- | --- |
| inbox ring `app/http3/server/srvinbox` | two u32 counters, a few slots | push, pop | two threads, plain slots, wrap | no slot shared, exact bounded FIFO | `SrvInbox` |
| registry and threaded driver `srvthreads`, `srvrun_bcast.c`, `srvrun_conn.c` | registry slots, inbox mesh, shutdown word | register, unregister, broadcast, drain, spawn, join | many threads, early failures, slot reuse | one owner per slot, each broadcast once and in order, mapped while used, shutdown ends | `SrvThreads` |
| send queue and session `sendq`, `sendsess`; response streaming `srvrun_stream.c`, `_abort.c`, `_pump.c`, `_slice.c`, `_recover.c`, `_pto_probe.c` | cursor, ring, log, requeue, sent-packet record, timers | take, split, untake, ack, lost, probe, reclaim, refill, reap, pump | ACKs, losses and timers in any order, full arrays, ring reuse | every byte delivered, in flight or queued; bytes intact, one final size, released means delivered | `SendSession` |
| send-side flow control `srvrun_sess.c`, `srvrun_pump.c`, `srvloop/dispatch_*.c` | credits, latches, cached total | gather, apply, claim, stop, pump, notify | reordered, early and lost frames | within the limits, never stuck | `FlowCredit` |
| request streams `srvloop/dispatch_*.c`, `srvrun_persistent.c`, `_answer.c`, `_method.c`, `_reannounce.c` | reassembly slots, closed streams, lists of the step, MAX_STREAMS | land, complete, reject, reset, stop, answer, reap, grant | slots freed and listed in one step; lost and repeated frames | one answer on its own stream, one end, one credit per stream | `ReqStreams` |
| receive windows and accounting `srvloop_wt_window.c`, `srvloop_rxacct.c`, `srvrun_req.c`, `srvrun_grant.c` | windows, accounting entries, advertised limits | land, deliver, grant, retire | acknowledged before kept; entries used again | what is acknowledged is kept; a conforming client is not closed and gets room | `RecvCredit` |
| WebTransport sessions `srvrun_reset.c`, `srvrun_server_wt.c`, `srvrun_gen.h`, `dispatch_gather.c` | session slots with generations, receive and send slots | open, offer, deliver, reset, stop, close | slots used again while names of them are kept | a reference reaches its session or none; bytes heard once | `WtSessions` |
| connection table `srvrun_claim.c`, `_evict.c`, `_free.c`, `_http.c`, `_closing.c`; datagram ring `srvrun_dgring*.c` | slots with generations, clock, queued datagrams | route, claim, evict, boot, close, sweep, free | references held across reuse | every session told once, no entry without a connection, datagrams to their owner | `ConnTable` |
| boot flight, anti-amplification `srvrun_boot.c`, `_amp.c`, `_resend.c`, `_pto.c` | budget, withheld tail, ClientHello parts | receive, send, resend, probe | loss before validation; both sides wait | at most three times what was received, never stuck | `BootFlight` |
| MoQT reliable relay `app/moqt/run/moqtrel.c`, `moqtrun_rel*.c`, `moqtrun_cut*.c` | ring with a cursor per subscriber, fragment, holds | deliver, drain, replay, cut, shed, hold | refusals, late joins, wrap, backpressure, bytes sent ahead | every subscriber's stream is exactly its Objects | `MoqtRelay` |
| MoQT lossy relay, control, cache; ACK generation, key update, paths, connection ids, PMTU, QPACK tables, supervisor | per-connection state | frames, timers, signals | reordering | RFC 9000, 9001, 9002 and 9204 invariants | not yet |
| crypto, TLS, packet codecs, input and output | little | pure functions | computation | test vectors, fuzzing | no |

How they interact: one worker runs one loop (`srvrun_step`). An iteration drains
the worker's own inbox row, receives a batch of datagrams, routes each through
the connection table to a slot, feeds it to the boot or to the step of the
connection (`wired_srvloop_step`, which leaves ACK ranges, flow-control frames,
completed and rejected requests, resets and closes in the step's latches and
lists), and then `srvrun` walks what the step left: ACKs and losses, credits,
reap and refill, sessions, new responses, grants, a send pass. Then it runs
every slot's timers. The MoQT hub is an application of the WebTransport layer:
it is called for deliveries and ticks and calls back to open, send on, reset and
hold streams. Workers share nothing but the registry, the inbox mesh and the
shutdown word.

## 2. Modules

| Module | Models | State and actions |
| --- | --- | --- |
| `SrvInbox` | one ring of the mesh | one action per access to shared memory of `push` and `pop`; counters are taken modulo `Wrap`; `nprod`, `ncons`, `sent`, `given` are histories |
| `LossyFifo` | what the ring promises | `Offer`, then `Accept` (takes room) or `Refuse` (takes a full channel); `Deliver` in order |
| `SrvThreads` | the registry, the mesh of FIFOs, workers and the control thread | one action per atomic access to the registry (`Claim` is one compare-exchange, `LoadTid` and `PushRow` are the two loads of a push); a ring is the FIFO that `SrvInbox` implements |
| `SendSession` | one response: queue over a ring, log, requeue, sent-packet record, timers, network and peer | one action per handler of the step or tick: `FeedAcks`, `Reap`, `PumpSend`, `PumpFail`, `PumpEnds`, `LossTimer`, `PtoFires`, `Ping`, `Tick`; `Deliver` and `Drop` are the network |
| `FlowCredit` | credits of one connection with several responses | `Gather*` fill the step's latches, `ApplyCredits`, `StartResp`, `StopResp`, `PumpStarts`, `PumpOne`, `PumpBlocked`, `PumpEnds` follow `srvrun_sess_on_step` |
| `ReqStreams` | request streams from landing to credit | `ReqStep` is a datagram through the whole pipeline of a step; `GoAway`, `CloseSession`, `GrantRetry`, `Reannounce`; `Deliver` and `Lose` of MAX_STREAMS |
| `RecvCredit` | windows, grants, accounting | `Arrive`, `ArriveReset`, `Poke` are one step of the server each, with the grants it makes; `Connect`, `Close`, hold, reap; the client's `Send`, `ClientReset`; grants arrive or are lost |
| `WtSessions` | sessions, their streams and references | `WtStep` is a datagram; the application's calls `open_bidi`, `stream_reply`, `stream_reset`, `close_session`; `srvrun_reap_one_wtsend` |
| `ConnTable` | the table of one worker, the datagram ring | `ServeI` (an Initial), `ServeP` (a later packet), `srvrun_fire_ptos`, `srvrun_dgring_push`, `srvrun_send_app_close`, `Shutdown`, `srvrun_close_drained`, `Tick` |
| `BootFlight` | one handshake with its client | `Deliver`, `BootPto`, `ClientTimer`, `Lose` |
| `MoqtRelay` | one ring-backed relay | `relay_start`, `relay_continue` (a delivery), `rel_tick`, `Join`, `relays_clear_sub`, `ForwardOff`, `WaitOver`, `PublisherGone` |
| `ModLemmas` | facts the provers lack: `%`, least and greatest of a set, cardinalities, sums over sets, folds over sequences | |
| `SrvInbox_proofs` | the ring: exclusive slots, exact FIFO, refinement of `LossyFifo` | |
| `SrvThreads_proofs` | the registry, the claim scan, the mesh's life, the ring contract, the order of broadcasts | |
| `SendSession_proofs` | types, one final size, bytes intact, nothing forgotten, released means delivered | |
| `FlowCredit_proofs` | types, stream limits are kept, the cached total is exact | |
| `ReqStreams_proofs` | types, one end told, one answer, nothing after a reset, one credit per stream | |
| `Worker_proofs` | the connection table: types, sessions told once, datagrams to their owner, no leaked entry; the boot: types, the amplification bound | |
| `WtSessions_proofs` | types, streams with their session, ends, references, bytes heard once | |
| `MC*` | instances for TLC | model values, symmetry |

The modules that several runs or one MC module share have their own names for
`Init`, `Next` and `Spec` (`TableInit`, `BootNext`, `WtSpec`, `ReqSpec`, ...), so
that `MCWorker` extends `SrvThreads`, `ConnTable` and `BootFlight`, and `MCServer`
extends `FlowCredit`, `ReqStreams` and `WtSessions`: TLC evaluates the assumptions the proofs
use, and a run and a theorem speak of the same definition of a property.

`SrvInbox` composes into `SrvThreads` through its abstraction: `SrvInbox` is
proved to implement `LossyFifo`, `SrvThreads` uses bounded sequences in place of
the rings, and its property `SingleProducerSingleConsumer`, proved for every
fleet, is the contract the ring's proof assumes. The modules of one connection
cut it along what they treat as a choice: `SendSession` the credit, `FlowCredit`
the acknowledgement, `ReqStreams` the bytes of a body, `RecvCredit` the handlers,
`WtSessions` the CONNECT request, `ConnTable` what a packet does to its
connection, `MoqtRelay` what a session accepts.

Abstractions.

* `SendSession`: a slice is a range of stream offsets; the log and the requeue,
  whose order the code calls irrelevant, are sets. `ring[i]` holds the offset of
  the byte stored in cell `i`, so that overwriting a byte that is still needed
  shows up as a packet that is not intact. An armed timer may fire, and the time
  threshold of loss detection is a choice of packet number. The congestion
  window, the pacer and the scheduler between slots only decide when a send pass
  stops, which is a choice. Path MTU discovery is one shrink of the slice size
  after a loss of a large slice. The response is not that of a CONNECT, whose
  stream never gets a FIN (`srvrun_method.c:226`).
* `ReqStreams`: a request is its head and its tail; a step is a pipeline of
  operators in the order of the calls. `NoFrameAfterReset` excepts streams
  answered 429 because every slot is busy. `CreditBounded` counts the streams that
  are released without a credit and those whose credit comes early for what the
  code gives them, and allows a second credit to a session's CONNECT and to one
  answered 429; `RaiseIsReleases` is the rule without those exceptions, and is
  refuted. With `StaleSlots` the inputs include the ones that free a slot which the
  step has listed (`LeavesStaleSlot`). Two resets may share a datagram.
* `RecvCredit`: the client conforms. The first frame of a WebTransport stream is
  not overtaken, and that of a uni stream not repeated while the stream is open
  (`WtSessions` has both). A signal is one unit, HEADERS one, a DATA header two;
  bodies are well framed and accepted. A newer grant overtakes an older one. The
  bytes that the ceiling leaves out (signals, HEADERS, control streams) are
  covered by the slack the code adds.
* `WtSessions`: a stream is two pieces, the first with the signal, the second
  with the FIN. A frame may hold the signal whole, or only its beginning for the
  streams in `Split` (the runs split one stream's signal; an instance that splits
  all three passes as well). A stream offered with an incomplete signal goes to the
  first active session; `guess` remembers that, `to` the session it was given to.
  With `UniRepeats` the first piece of an open uni stream may be
  repeated.
* `ConnTable`: a sweep over the slots is one operator on the set of slots it
  reaches, since what it does to a slot does not depend on the others. The
  datagram ring is a function over its cells; a cell holds an entry or nothing,
  and a drain is told which entries the pacer holds back (`held`).
  A claim is one life of a slot and stands for the connection id
  chosen for it; every packet of a dead claim may still arrive. Stateless resets
  and the ghosts that decide on them are left out, and so are the idle time counted
  from the last send (`idle_tx_ms`) and the limit of packet numbers (`tx_pn`) among
  the reasons to reap a slot: the idle time runs from the last receipt.
* `BootFlight`: sizes in units of 400 bytes; a datagram may be lost, stay under
  way or overtake others. Cryptography always succeeds.
* `MoqtRelay`: a byte is named by its offset in the publisher's stream, and an
  Object ID written anew is the negated offset, so that a byte in the wrong
  place, lost, or sent twice shows. The header and an Object's ID are one byte
  each. A ring is free and the header was saved; all Objects are in one Group
  and none is recorded nonexistent. Once the ring is returned nothing more is
  modelled. Within a call the slots do not depend on each other, so the outcomes
  of each are combined (`Turns`); how many sends a session accepts is a choice.
  A time-out may happen whenever bytes are pending, new ones included.
  The publisher's limit is a window past what it sent unless it is held.

The plain read of `slot->len` after its release in `wired_srvinbox_pop` is a data
race; `PopReturn` lets it return the old or the new value. `FifoExact` covers the
length only while the consumer owns the slot; the mesh's drain uses the result to
ask whether it is 0, which both answer alike.

Operators marked "Defect" are wrong versions of the definition that follows them,
each a plausible slip. They are in no specification; substituted for the real one
they show that a property can fail (`mutants` in `PROJECT.json`).

## 3. Runs

Four runs pass. Each holds several parts that share no state; a behaviour picks
one and stays with it, so that the state counts add up and do not multiply.

| Run | Parts and instance | Shows |
| --- | --- | --- |
| `worker` (3 min) | threads: 3 workers on 3 slots, one broadcast each; mesh: 2 workers with 2 broadcasts each; table: 3 claims by 2 clients on 2 slots; boot: one flight of a whole budget, probes that run out; relay: 8 bytes in Objects of 1, 3 and 3, window 2, ring 6, rounds of 1, fragments below 2, filters 1-3, 2-2 and 3-3, 2 subscribers | registry sound, no worker left out, mesh mapped while used, one producer and one consumer per ring, broadcasts once and in order; sessions told once, datagrams to their owner, no leaked entry; amplification bound, with the goodbye that asks no gate; every subscriber's stream exact |
| `send` (3 min) | tight: ring of 4, response of up to 5 bytes in slices of 2 then 1, log and requeue of 2, 5 packets, 1 loss, any late or partial ACK, spurious timers, 1 PTO; roomy: 8 entries, packets that fail to encode or seal; recv: uploads of up to 6 bytes, windows of 3, bodies of 2, connection limit 5, one accounting entry | no hole, bytes intact, released means delivered, one final size; acknowledged bytes kept, no false close, room left while something moves |
| `server` (4 min) | flow: 2 streams, 2 slots, one latch entry, packets of 2, limits 1 and 2 up to 4, reordered raises; req: 3 requests on a table of 2, one session; wt: 2 sessions, a bidi whose signal may be split, a uni and a local stream, generations about to wrap | stream limits, exact total; answered once, credits bounded by the streams that are over, nothing after a reset, one end told; owners, references, ends and bytes of WebTransport streams |
| `live` (2 min) | ring: depth 2, counters modulo 4, lengths 1 and 2 and one too long; threads: 2 workers; send: 3 bytes, 1 loss, 3 PTOs; flow: lost BLOCKED frames; boot: flights of 2 to 5 datagrams larger than a budget, 2 losses | slots never shared, exact FIFO across wraps, refines `LossyFifo`, everything popped; broadcasts drained, shutdown completes, response delivered, blocked response gets through, handshake completes |

The bounds let each of the interesting cases happen: counters and generations
wrap and rings fill; a registry slot, a response slot, a request slot, a session
slot, a connection slot and an accounting entry are each used again while
something still names the old owner; the storage ring is refilled while slices
are in flight, a requeued slice is split, an ACK comes after its packet was
declared lost, a PTO fires spuriously; a latch is full, a limit is stale, early
or less than a packet; a window is filled to its last byte; a budget ends inside
a flight; the relay's ring wraps, its publisher is held and released, an Object
outgrows the fragment buffer, a subscriber joins late and in mid-stream.

Symmetry is used for workers, clients, streams, slots and subscribers where
nothing orders them, and only for safety. `CHECK_DEADLOCK FALSE` is set where the
system may stop: a finished run of the driver, a delivered response, exhausted
bounds.

Eight runs check a property that states what a comment or a document says and
the code does not do; TLC refutes each.

| Run | Property | What the counterexample shows |
| --- | --- | --- |
| `send_decline` | `DeclineEndsStream` | a handler that ends a drained streaming response without bytes leaves no packet for the FIN; the slot is released |
| `flow_conn` | `WithinConnLimit` | the connection total forgets released slots, so more is sent than MAX_DATA allows |
| `req_stale` | `AnsweredOnce` | a slot freed in the step is still on its list of completed requests, and is answered as whatever it holds |
| `req_credit` | `RaiseIsReleases` | a malformed CONNECT is released without a stream credit, against "raise == releases" |
| `recv_bodies` | `MaxDataFollows` | the first of two bodies uses up MAX_DATA and ends; nothing moves, so the second gets no room on the connection |
| `wt_uni` | `HeardOnce` | the repeated first frame of a uni stream claims a second slot; its bytes are heard twice |
| `boot_flip` | `HandshakeCompletes` | a client that lost the ServerHello but uses our connection id is only sent the Handshake half |
| `relay_head` | `RelayExact` | a stream that opens with its header alone is not cut to the start Object of a subscriber |

The passing runs leave the inputs of five of them out (`HandlerDeclines`,
`StaleSlots`, `UniRepeats`, the split hello with a long flight, the opening
`"head"`). The other three refute a rule that the passing runs check in the form
the code keeps: `WithinStreamLimit` next to `WithinConnLimit`, `CreditBounded` next
to `RaiseIsReleases`, `RoomLeftUncut` next to `MaxDataFollows`.

Three further departures are stated in a passing property, which names them as its
exception and bounds them. A boot that is given up with its client at 1-RTT sends a
goodbye at each level that asks no gate and is counted in no budget
(`srvrun_resend.c:177`, `srvrun_close_long.c:70-87`), so that an unvalidated address
can be sent more than three times what it sent; `AmplificationBound` allows it three
datagrams, once, against `srvrun.h:430` and `srvrun_close_long.c:35`. A WebTransport
stream that is offered before its signal is whole goes to the first active session
(`srvrun_wt_slot.c:176`; `srvrun_refuse.c:83` does not look at `sig_pending`), which
with two sessions may not be the one the signal names, although
`docs/security/vuln-ledger.md:905` calls the misrouting fixed; `OwnerIsItsSession`
excepts exactly those streams (`guess`), which still stay with the session they were
given to. The credit of a CONNECT comes while its slot is still taken
(`srvrun_stream.c:68`), so that a stream within the limit may find no slot
(`dispatch_route.c:100`, against the "lockstep" of `srvloop_wt.h:133-138`), and comes
twice when the stream is reset in a datagram that ends a later stream too, since
only the last closes its session (`dispatch_max.c:72`, `srvrun_held.c:35`);
`CreditBounded` counts both.

Further observations by the models or from reading for them, without a run of
their own: bytes that overtake the rest of a split signal are acknowledged and
dropped (`dispatch_wt.c`, `srvloop_wt_sig_resolve` returns 0), and ones that fall
within the 16 bytes of the signal buffer are taken up with a gap before them
(`wt_sig_absorb`, `dispatch_wt.c:77-91`; the gap is not modelled); a CONNECT that
is held and comes again together with its FIN or reset leaves a freed slot on a
list like one that has a session (`LeavesStaleSlot` covers both); with a full
requeue the remainder of a split takes the last entry and a slice that then fails
to seal is dropped (`tight` does not fail seals for that reason); the sweep of
the next batch reaps a closing slot without noting a ghost (`srvrun_http.c:11`,
against `srvrun_closing.c:15`); a subscriber that ended at its End Object pins
the relay's ring (`moqtrel.c:22`), and a FIN that comes with the bytes that
poison a relay is forwarded (`moqtrun_rel_tick.c:140`, opening `"lost"`).

### Fairness

* `live`, ring: the consumer starts and finishes pops, since every iteration of a
  worker's loop drains its row. Nothing is assumed of the producer.
* `live`, threads: weak fairness of each thread (the kernel schedules it); strong
  fairness of leaving the loop (the drain ticks are bounded) and of the drain,
  which each iteration runs whatever the callbacks broadcast.
* `live`, send: strong fairness of delivery (losses are bounded), of ACKs getting
  through, of due timers and of the send tick, because `srvrun_step` runs
  `srvrun_fire_ptos` on every iteration, also when datagrams keep coming; of
  sending, because the window, the pacer and the credit open again. Timers only
  fire when nothing is under way (`Spurious = FALSE`), since unbounded spurious
  PTOs would use up the probe budget.
* `live`, flow: a peer that hears a BLOCKED frame raises the limit and repeats
  it until it arrives; not every BLOCKED frame is lost; the loop goes round.
* `live`, boot: the net falls silent again and again (what is under way arrives
  or is lost, of which there is a bound), and the client's timer fires as long as
  it is not done, as RFC 9002 asks of it. Nothing is assumed of the server's own
  timer, whose budget of probes is finite.

## 4. Proofs

`SrvInbox_proofs`, from `Depth > 0`, `Wrap > Depth` and `Depth` dividing `Wrap`
(depth 4 and 2^32 in the code), for any messages:

* `RingInductive`: the invariant `IInv` is inductive. `SlotExclusive` and
  `FifoExact` are not: they need that the wrapped counters are the true counts
  modulo the width and at most `Depth` apart (`Counters`), that a producer
  past its check has room and a consumer past its check has a message
  (`Owners`), and that each slot between the counts holds the message published
  there (`Contents`). The full and empty tests are exact because the distance is
  less than the width (`TestsExact`, on `ModDifference` of `ModLemmas`).
* `RingTypeCorrect`, `RingSlotExclusive`, `RingFifoExact` follow.
* `RingImplementsFifo`: the start of a push is an offer, the publish step an
  accept, the second look that still finds no room a refusal of a full channel, the
  release step a delivery of the head; every other step stutters. A push that drops
  with room left has no such step (the mutant `PushReloadDrops`).

`SrvThreads_proofs`, for every number of workers and slots, from the tids being
distinct from the registry's markers:

* `RegistryInvariant`: `RegInv` and `LifeInv` are inductive. `RegistrySound`
  alone is not: that publishing a slot cannot overwrite somebody's entry needs
  that a slot being filled is marked as claimed and was filled by its claimer
  (`Claimed`); that nobody publishes twice needs that the owner of an entry is
  past its claim and before its unregistration (`Published`); a push needs that
  the pusher is registered and that a row once written is always some worker's,
  even when the slot was released since (`Pushing`).
* `RegistryIsSound` and `NeverUnmappedUnderAWorker` follow.
* `ClaimInvariant`, `EveryoneListed`: a scan that passed a slot found it taken by
  a worker other than its own, and each worker takes one slot; counting slots
  against workers, a scan ends in a claim before it runs out of slots.
* `BroadcastsInOrder`: what a worker has got, what waits in its ring and what is
  still to be pushed are in the order of sending (`AppendRises`, `PushOrders`,
  `DrainOrders`), also over a row whose slot changed hands.
* `RingContract`: a push goes to the caller's column (`PushTarget`), a drain to
  the caller's row (`DrainTarget`), and no other step touches a ring.

`FlowCredit_proofs`, from the ranges of the constants and finitely many slots:

* `StreamLimitKept`: no stream is sent beyond its limit, for every number of
  streams and slots and every packet size. The invariant adds to the property
  that a latched value was announced for its stream (`LatchAnnounced`), that a
  slot's credit was, that a slot's cursor is what its stream has sent and no two
  slots serve one stream (`SlotsSound`), and that an unclaimed stream has sent
  nothing (`Fresh`).
* `AcctKept`: in a send pass the cached total is the sum over the slots. The sum is
  a fold over a set; `ModLemmas` shows that the function it recurs on exists for
  every finite set (`SumExists`) and that one more of one summand is as much more of
  the sum (`SumBump`), so that a slice which moves one cursor moves the total by the
  same amount (`ConsumedBump`).
* `CreditTypeCorrect`: `TypeOK`, with the latch within its entries.

`ReqStreams_proofs`, from `ReqAssumption` (request ids are numbers, finitely many),
for every number of streams and slots, every mix of requests, every set of
datagrams and every network. A datagram is handled by nine loops over its frames,
the slots and the lists that the step leaves. Each call has a lemma that says what
it changes (`ReleaseIs`, `StopIs`, `StartIs`, ...). A loop is a left fold:
`ModLemmas` proves that a fold has the value of a run of its steps (`RunExists`,
`RunIs`) and that what each entry carries on holds at the end (`RunKeeps`); since an
operator cannot be the parameter of a lemma here, each loop gets its own copy of
that fact (`LandFold`, `CompleteFold`, ...).

* `ReqTyped`, `EndTold`, for all input, `StaleSlots` included: `Told` relates the
  flags of a slot in use to what was sent to the peer's QPACK encoder and said to
  the application, says that nothing was of a stream without a slot and at most one
  end of a closed one. `EndToldOnce` alone is not inductive: that a second
  cancellation is not sent rests on the slot's flags, and that a released stream is
  not taken up again on the closed set.
* `AnswersKept`, `NothingAfterReset`, for `~ StaleSlots`: `ReqRest` is inductive.
  `Asked` says for each stream how far its answer is (an answer implies a response
  in flight, a session or a closed stream; a response in flight is on a live stream
  below the GOAWAY that was neither refused nor paid for; a session's stream can
  still send), `Taken` and `Holding` say what the slots and the held CONNECTs may
  be. Within a step the invariant is `Good`: the entries of the lists that are still
  to come name slots in use that hold a request of this datagram (`Lists`); each
  call that frees a slot must not free one of those, which is what
  `~ LeavesStaleSlot` is for. The run `req_stale` shows that the hypothesis is not
  idle.
* `CreditKept`, for `~ StaleSlots`: `Balance(k, p)` says that the
  limit, with `p` credits still to come in this step, is the base plus the streams
  that are over and paid for, plus at most one more for each that was answered 429
  and closed or that was paid for early. Every call is shown to close no stream without a credit, given or to
  come, and to give none twice (`Pays`).

`SendSession_proofs`, for every ring, slice, log and record size and every
response length:

* `SendTypeCorrect`: `Typed` is inductive; it adds to the types that every slice
  and packet lies within what was taken from the queue, and that packet numbers
  in use are below the next one and name one slice of the log. The proof goes by what a handler may do to the slices
  (`TakeShape`, `LossShape`, `ProbeShape`, `ReapShape`, ...), so that the later
  invariants are proved about shapes and not about every handler again.
* `OneFinalSize`: `FinalSizeStable` is inductive given `Typed`: only the last
  slice of a response that no longer streams gets the FIN.
* `BytesAlwaysIntact`: `RingInv` says that the cells of the unsent part and of
  every slice in the log or requeue hold their own offsets. A refill keeps it
  because the ring's floor is the least offset still needed (`FloorIs`,
  `RefillKeeps`); a slice is read whole because none spans the wrap (`ModAdd`).
* `NothingForgotten`: `Delivery` says that every offset below the cursor is with
  the peer or in a slice of the log or requeue. Hypothesis `FailsWithRoom`:
  `wired_sendsess_untake` drops a slice when it finds the requeue full, which can
  happen once a shrunken slice size splits requeued slices; no send fails in that
  state.
* `ReleasedIsDelivered`: from `FailsWithRoom` and handlers that do not decline
  (`~ HandlerDeclines`, the finding of `send_decline`).

`Worker_proofs`, the boot, from `BootAssumption` (the ranges of the constants):
`BootTypeCorrect` and `NeverAmplifies`. `Good` says that no more of the flight is
sent than there is and that the budget is not overdrawn before the path is
validated, but for the goodbye, which is sent once, as the slot is given up. Each path that sends is shown to lead from a `Good` state to a `Good`
one without touching what the client has (`To`), and paths compose
(`Transitive`).

`Worker_proofs`, the table, from `TableAssumption`, for every table and ring size and
every timeout: `TableInv` is inductive and gives `TableTypeCorrect`,
`SessionsHearOnce`, `DatagramsToTheirOwner` and `NoEntryLeaks`. `Sound` relates
slots, claims and sessions: a slot in use has one claim and one client, a session
is only on a connection that is up and not closing, a queued datagram carries the
generation of a claim that was made. In the middle of a call a slot may be live
without a connection, so the lemmas about calls use `BusyBut(t, I)`, all slots but
`I`.

`WtSessions_proofs`, from `WtAssumption`, for every number of sessions, streams
and slots:

* `WtInvariant`: `WtInv` is inductive. A datagram's step is a pipeline, so every
  operator is shown to lead from a `Sound` connection to a `Sound` one (`To`),
  and a step follows by composing them. `OwnerIsItsSession` alone is not
  inductive: a session slot may be given away only because no slot in use names
  it, which holds because a stream's slot names the session it was given to and
  that session is not the empty one (`Placed`, `RxSound`, `TxSound`). That a reset ends a
  send part at most once needs that an ended one is seen to be ended
  (`TxSound`), and that in turn that no slot exists of a stream of ours before
  it is opened.
* `WtTypeCorrect`, `StreamsStayWithTheirSession`, `SendPartsEndOnce` follow.
* `BytesHeardOnce` (`~ UniRepeats`, the finding of `wt_uni`): `HeardSound` says
  that a stream has at most one slot, delivered exactly as far as was heard, and
  that a stream without one has ended or was not heard; so a late piece can not
  open a stream again.
* `ReferencesExact` (`FewSessions`: fewer sessions than 2^32 generations):
  `RefSound` bounds the distance of a reference's generation from the last one
  given by the number of sessions so far, so that a new generation differs from
  all before it (`NextGen`), across the wrap that skips 0.

Only model-checked: `RecvCredit` and `MoqtRelay`; `TypeOK` of `SrvThreads`; the
liveness properties, because fairness and `ENABLED` are beyond the prover. The
hypotheses above are the inputs of the violation runs, or states this document
names, and the runs show that they are not idle; the passing runs satisfy them.

## 5. Not modelled, and the plan

The map covers a small share, about 5%, of the repository's lines: most of them
are cryptography, TLS and wire codecs, tables, declarations and the control plane
of MoQT. The models cover the server loop's stateful core.

Left out inside the modelled parts: WebTransport send slots in `FlowCredit`, path
MTU probing, ECN, 0-RTT, the signal mask window while threads start, the drain
ticks of a graceful shutdown (a loop may end any time after the shutdown word is
set), messages of length zero in the mesh, stateless resets, QPACK encoder
stream bytes, frames and field sections refused with an error of the whole
connection, a CONNECT refused for its Origin, path or stream id, the closes that ask no amplification gate besides the goodbye
(handshake errors `srvrun_raw.c:131`, replies in the closing state
`srvrun_live.c:148-153`, refusals `srvrun_boot.c:135-150`, the end of the drain
`srvrun_recv.c:152`), the urgency of datagrams, the capsules of a session, Groups, priorities and switching sets
of MoQT. Liveness of uploads is stated as room at quiescence (`RoomLeftUncut`)
and not as a temporal property. The hazards of `PROJECT.json` that have a note
are the open ones.

Next modules, in order: ACK generation and duplicate packets; key update and
packet protection phases; path validation and connection ids; the lossy relay of
MoQT with superseded Groups; the buffer pool; the QPACK dynamic table; the
supervisor of forked workers. Not planned: cryptography, PKI, codecs, version
negotiation (stateless), kernel input and output, congestion control (numeric;
its effect on control is a choice in `SendSession`).

Next theorems: `AckedIsKept` and `NoFalseClose` of `RecvCredit`, `RelayExact` of
`MoqtRelay`, `TypeOK` of `SrvThreads`.
