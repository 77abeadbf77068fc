----------------------------- MODULE FlowCredit -----------------------------
(***************************************************************************)
(* Send-side flow control of one connection (srvrun_sess.c, srvrun_pump.c, *)
(* srvloop's dispatch of MAX_DATA and MAX_STREAM_DATA): the response slots *)
(* draw on their own stream credit and on the one connection credit; the   *)
(* peer raises both with frames that may arrive late, out of order and     *)
(* before the slot they are for is claimed; a sender that runs out says so *)
(* with DATA_BLOCKED and STREAM_DATA_BLOCKED, which may be lost.           *)
(*                                                                         *)
(* Acknowledgements and loss are SendSession.tla's: here a fully sent slot *)
(* may be acknowledged, and reaped, in any later step.  The window and the *)
(* pacer may end a send pass at any point.                                 *)
(***************************************************************************)
EXTENDS Integers, FiniteSets, FiniteSetsExt

CONSTANTS
  Streams,      \* request streams
  Slots,        \* response slots (SRVRUN_RESP_SLOTS)
  None,         \* no stream
  SeenCap,      \* WIRED_SRVLOOP_MAX_STREAMS: streams one step's latch holds
  Mps,          \* stream bytes of a full packet (srvrun_mps)
  InitData,     \* the peer's initial_max_data
  InitStream,   \* the peer's initial_max_stream_data_bidi_local
  Raise,        \* how far one raise of the peer goes
  MaxLimit,     \* bound: the limits the peer gets to
  MaxLen,       \* bound: bytes of a response
  Reordered     \* older limits may arrive after newer ones

ASSUME CreditAssumption ==
  /\ Mps \in Nat \ {0} /\ Raise \in Nat \ {0}
  /\ MaxLimit \in Nat /\ MaxLen \in Nat /\ SeenCap \in Nat
  /\ InitData \in 0 .. MaxLimit /\ InitStream \in 0 .. MaxLimit
  /\ Reordered \in BOOLEAN /\ None \notin Streams /\ IsFiniteSet(Slots)

VARIABLES
  slot,         \* slot[i]: in_use, stream, q.cur, q.len, stream_credit, sdb
  started,      \* streams whose response was claimed
  conn_credit, blocked_at, \* conn_credit, data_blocked.sent_at
  acct,         \* acct_consumed, the cached total
  flying,       \* some stream byte is in flight
  max_data_seen,   \* this step's MAX_DATA latch (0: none seen)
  max_stream_data, \* this step's MAX_STREAM_DATA latches, by stream
  phase,        \* receiving, starting responses, or in a send pass
  sent,         \* sent[s]: stream bytes ever put on the wire
  limit_data, limit, \* the limits the peer has announced
  asked         \* the peer heard that this stream, or the connection, is blocked

server == <<slot, started, conn_credit, blocked_at, acct, flying>>
latch  == <<max_data_seen, max_stream_data>>
peer   == <<limit_data, limit, asked>>
vars   == <<server, latch, phase, sent, peer>>

Free == [in_use |-> FALSE, stream |-> None, cur |-> 0, len |-> 0,
         credit |-> 0, sdb |-> 0]
Live == {i \in Slots : slot[i].in_use}

NoLatch == [s \in {} |-> 0]

TypeOK ==
  /\ slot \in [Slots -> [in_use : BOOLEAN, stream : Streams \cup {None},
                         cur : 0 .. MaxLen, len : 0 .. MaxLen,
                         credit : 0 .. MaxLimit, sdb : 0 .. MaxLimit]]
  /\ started \subseteq Streams
  /\ conn_credit \in 0 .. MaxLimit /\ blocked_at \in 0 .. MaxLimit
  /\ acct \in Nat /\ flying \in BOOLEAN
  /\ max_data_seen \in 0 .. MaxLimit
  /\ max_stream_data \in [DOMAIN max_stream_data -> 0 .. MaxLimit]
  /\ DOMAIN max_stream_data \subseteq Streams
  /\ Cardinality(DOMAIN max_stream_data) <= SeenCap
  /\ phase \in {"recv", "start", "pump"}
  /\ sent \in [Streams -> 0 .. MaxLen]
  /\ limit_data \in 0 .. MaxLimit /\ limit \in [Streams -> 0 .. MaxLimit]
  /\ asked \subseteq Streams \cup {None}

Init ==
  /\ slot = [i \in Slots |-> Free] /\ started = {}
  /\ conn_credit = InitData /\ blocked_at = 0 /\ acct = 0 /\ flying = FALSE
  /\ max_data_seen = 0 /\ max_stream_data = NoLatch
  /\ phase = "recv"
  /\ sent = [s \in Streams |-> 0]
  /\ limit_data = InitData /\ limit = [s \in Streams |-> InitStream]
  /\ asked = {}

-----------------------------------------------------------------------------
\* The peer, and what its frames leave in the step's latches.

\* The peer raises a limit, on its own or because it heard a BLOCKED frame.
RaiseData ==
  /\ phase = "recv" /\ limit_data + Raise <= MaxLimit
  /\ limit_data' = limit_data + Raise /\ asked' = asked \ {None}
  /\ UNCHANGED <<server, latch, phase, sent, limit>>

RaiseStream(s) ==
  /\ phase = "recv" /\ limit[s] + Raise <= MaxLimit
  /\ limit' = [limit EXCEPT ![s] = @ + Raise] /\ asked' = asked \ {s}
  /\ UNCHANGED <<server, latch, phase, sent, limit_data>>

\* A limit the peer has announced so far, the newest one unless reordered.
Announced(from, newest) ==
  IF Reordered THEN {v \in from .. newest : (v - from) % Raise = 0} ELSE {newest}

\* srvloop_gather_one_max_data keeps the highest of the step.
GatherMaxData(v) ==
  /\ phase = "recv" /\ v \in Announced(InitData, limit_data)
  /\ max_data_seen' = Max({v, max_data_seen})
  /\ UNCHANGED <<server, max_stream_data, phase, sent, peer>>

\* The latch of stream s with the value v.
Latched(s, v) ==
  [u \in DOMAIN max_stream_data \cup {s} |-> IF u = s THEN v ELSE max_stream_data[u]]

\* Defect: the latch is not bounded.
SlotAlways(s) == TRUE

\* max_stream_data_slot: the stream's own entry, else a new one while there is one.
max_stream_data_slot(s) ==
  s \in DOMAIN max_stream_data \/ Cardinality(DOMAIN max_stream_data) < SeenCap

\* gather_one_max_stream_data keeps the last of the step.
GatherMaxStreamData(s, v) ==
  /\ phase = "recv" /\ v \in Announced(InitStream, limit[s])
  /\ max_stream_data' = IF max_stream_data_slot(s) THEN Latched(s, v)
                         ELSE max_stream_data
  /\ UNCHANGED <<server, max_data_seen, phase, sent, peer>>

-----------------------------------------------------------------------------
\* srvrun_sess_on_step.

\* srvrun_conn_consumed_bytes: what the slots in use have taken so far.
conn_consumed_bytes == MapThenSumSet(LAMBDA i : slot[i].cur, Live)

\* srvrun_apply_one_stream_credit_update: raise only, live slots only.
RaisedCredit(sl) ==
  IF sl.stream \in DOMAIN max_stream_data
  THEN Max({sl.credit, max_stream_data[sl.stream]})
  ELSE sl.credit

\* Resync the total, apply and clear the latches, then reap the slots the peer
\* has acknowledged.
ApplyCredits(acked) ==
  /\ phase = "recv" /\ phase' = "start"
  /\ acked \subseteq {i \in Live : slot[i].cur = slot[i].len}
  /\ acct' = conn_consumed_bytes
  /\ conn_credit' = Max({conn_credit, max_data_seen})
  /\ slot' = [i \in Slots |->
                IF i \in acked THEN Free
                ELSE IF i \in Live THEN [slot[i] EXCEPT !.credit = RaisedCredit(slot[i])]
                ELSE slot[i]]
  /\ flying' \in {f \in BOOLEAN : f => flying}
  /\ max_data_seen' = 0 /\ max_stream_data' = NoLatch
  /\ UNCHANGED <<started, blocked_at, sent, peer>>

\* srvrun_resp_claim: the stream's credit starts from the transport parameter.
StartResp(s, i, n) ==
  /\ phase = "start" /\ s \notin started /\ i \notin Live
  /\ slot' = [slot EXCEPT ![i] = [in_use |-> TRUE, stream |-> s, cur |-> 0,
                                  len |-> n, credit |-> InitStream, sdb |-> 0]]
  /\ started' = started \cup {s}
  /\ UNCHANGED <<conn_credit, blocked_at, acct, flying, latch, phase, sent, peer>>

\* srvrun_resp_stop: a STOP_SENDING, or a response that cannot be framed, frees
\* a slot mid-send.
StopResp(i) ==
  /\ phase = "start" /\ i \in Live
  /\ slot' = [slot EXCEPT ![i] = Free]
  /\ UNCHANGED <<started, conn_credit, blocked_at, acct, flying, latch, phase,
                 sent, peer>>

-----------------------------------------------------------------------------
\* srvrun_pump_sess: one send pass.

\* srvrun_acct_resync at the start of the pass.
PumpStarts ==
  /\ phase = "start" /\ phase' = "pump"
  /\ acct' = conn_consumed_bytes
  /\ UNCHANGED <<slot, started, conn_credit, blocked_at, flying, latch, sent, peer>>

conn_credit_has_room == acct + Mps <= conn_credit
\* Defect: any credit left is taken for room for a packet.
AnyCreditIsRoom(i) == slot[i].cur < slot[i].credit

stream_credit_room(i) == slot[i].cur + Mps <= slot[i].credit

\* Defect: the cached total is charged a whole packet.
PumpOneChargesPacket(i) ==
  LET n == Min({Mps, slot[i].len - slot[i].cur}) IN
  /\ phase = "pump" /\ i \in Live /\ slot[i].cur < slot[i].len
  /\ conn_credit_has_room /\ stream_credit_room(i)
  /\ slot' = [slot EXCEPT ![i].cur = @ + n]
  /\ acct' = acct + Mps
  /\ sent' = [sent EXCEPT ![slot[i].stream] = @ + n]
  /\ flying' = TRUE
  /\ UNCHANGED <<started, conn_credit, blocked_at, latch, phase, peer>>

\* srvrun_pump_one: a new slice, and the cached total moves with it.
PumpOne(i) ==
  LET n == Min({Mps, slot[i].len - slot[i].cur}) IN
  /\ phase = "pump" /\ i \in Live /\ slot[i].cur < slot[i].len
  /\ conn_credit_has_room /\ stream_credit_room(i)
  /\ slot' = [slot EXCEPT ![i].cur = @ + n]
  /\ acct' = acct + n
  /\ sent' = [sent EXCEPT ![slot[i].stream] = @ + n]
  /\ flying' = TRUE
  /\ UNCHANGED <<started, conn_credit, blocked_at, latch, phase, peer>>

\* Defect: one frame per ceiling, and never again.
BlockedDueOnce(sent_at, ceiling) == sent_at # ceiling

\* srvrun_blocked_due: a new ceiling, or nothing in flight for a PTO.
blocked_due(sent_at, ceiling) == sent_at # ceiling \/ ~ flying

\* srvrun_notify_conn_blocked and srvrun_notify_stream_blocked have a frame to send.
notify_conn_blocked == ~ conn_credit_has_room /\ blocked_due(blocked_at, conn_credit)
notify_stream_blocked(i) ==
  /\ slot[i].cur < slot[i].len /\ ~ stream_credit_room(i)
  /\ blocked_due(slot[i].sdb, slot[i].credit)

\* srvrun_pump_one_slice with its gate closed by a credit: it tells the peer
\* which credit ran out, in frames of which the network may lose some.
PumpBlocked(i, lost) ==
  LET told == (IF notify_conn_blocked THEN {None} ELSE {})
              \cup (IF notify_stream_blocked(i) THEN {slot[i].stream} ELSE {}) IN
  /\ phase = "pump" /\ i \in Live /\ told # {}
  /\ blocked_at' = IF notify_conn_blocked THEN conn_credit ELSE blocked_at
  /\ slot' = IF notify_stream_blocked(i) THEN [slot EXCEPT ![i].sdb = slot[i].credit]
             ELSE slot
  /\ asked' = asked \cup (told \ lost)
  /\ UNCHANGED <<started, conn_credit, acct, flying, latch, phase, sent,
                 limit_data, limit>>

PumpEnds ==
  /\ phase = "pump" /\ phase' = "recv"
  /\ UNCHANGED <<server, latch, sent, peer>>

-----------------------------------------------------------------------------
Peer == \/ RaiseData \/ \E s \in Streams : RaiseStream(s)
        \/ \E v \in 0 .. MaxLimit : \/ GatherMaxData(v)
                                    \/ \E s \in Streams : GatherMaxStreamData(s, v)
Step == \/ \E acked \in SUBSET Slots : ApplyCredits(acked)
        \/ \E s \in Streams, i \in Slots, n \in 1 .. MaxLen : StartResp(s, i, n)
        \/ \E i \in Slots : StopResp(i)
        \/ PumpStarts \/ PumpEnds
Next == \/ Peer \/ Step
        \/ \E i \in Slots : PumpOne(i)
        \/ \E i \in Slots, lost \in SUBSET (Streams \cup {None}) : PumpBlocked(i, lost)

Spec == Init /\ [][Next]_vars

\* The peer raises a limit it was told is in the way and repeats the frame until
\* it gets through; what is in flight is acknowledged in the end; the loop goes
\* round; the window and the pacer open again; not every BLOCKED frame is lost.
FairSpec ==
  /\ Spec
  /\ SF_vars(None \in asked /\ RaiseData)
  /\ \A s \in Streams : /\ SF_vars(s \in asked /\ RaiseStream(s))
                        /\ SF_vars(GatherMaxStreamData(s, limit[s]))
  /\ SF_vars(GatherMaxData(limit_data))
  /\ SF_vars(\E acked \in SUBSET Slots : ApplyCredits(acked) /\ ~ flying')
  /\ WF_vars(PumpStarts) /\ WF_vars(PumpEnds)
  /\ \A i \in Slots : SF_vars(PumpOne(i))
  /\ \A i \in Slots : SF_vars(PumpBlocked(i, {}))
-----------------------------------------------------------------------------
\* Properties.

\* RFC 9000 4.1: no stream ever exceeds the limit the peer announced for it,
\* through stale, early and repeated raises.
WithinStreamLimit == \A s \in Streams : sent[s] <= limit[s]

\* The cached total that gates every slice is the scan's total, whatever was
\* reaped, stopped or claimed since the pass before.
AcctExact == phase = "pump" => acct = conn_consumed_bytes

\* A response blocked on credit is not stuck: the BLOCKED frame, repeated when
\* it is lost, makes the peer raise the limit, and the rest is sent (unless the
\* response is stopped).
Unsent(s) == \E i \in Live : slot[i].stream = s /\ slot[i].cur < slot[i].len
BlockedGetsThrough == \A s \in Streams : Unsent(s) ~> ~ Unsent(s)

\* srvrun_sess.c: the consumed total is the cumulative one that MAX_DATA
\* bounds, so the bytes of all streams together stay within MAX_DATA.
WithinConnLimit == MapThenSumSet(LAMBDA s : sent[s], Streams) <= limit_data
=============================================================================
