----------------------------- MODULE SendSession -----------------------------
(***************************************************************************)
(* One response on its way to the peer: the send queue over a ring of      *)
(* storage (sendq), the log of sent and unacknowledged slices and the      *)
(* requeue of slices to retransmit (sendsess), the sent-packet record that *)
(* arms the timers (sentmeta), and the part of the server loop that drives *)
(* them: ACK feed and loss pass, reap and refill, pump, loss timer, PTO.   *)
(* The network loses, delays and reorders packets and ACKs.                *)
(*                                                                         *)
(* A slice is a range of stream offsets.  The log and the requeue are      *)
(* arrays whose order the code calls irrelevant: they are sets here, and   *)
(* where the array order would decide, any choice is taken.  Time is left  *)
(* out: a timer that is armed may fire, and the time threshold of the loss *)
(* detection is the choice of a packet number below which it has passed.   *)
(***************************************************************************)
EXTENDS Integers, FiniteSets, FiniteSetsExt

CONSTANTS
  Cap,             \* bytes of ring storage (srvrun_resp.ring_cap)
  Chunk, Base,     \* stream bytes per packet: at first, after a PMTU black hole
  LogCap,          \* WIRED_SENDSESS_LOG: entries of the log and of the requeue
  RecCap,          \* SENTMETA_CAP: packets the sent-packet record holds
  Threshold,       \* kPacketThreshold
  PtoMax, Probes,  \* SRVRUN_PTO_MAX, SRVRUN_PTO_PROBES
  MaxLen,          \* bound: bytes of the whole response
  MaxPn,           \* bound: packets sent
  MaxDrops,        \* bound: packets the network loses
  SealFails,       \* sealing a packet may fail
  HandlerDeclines, \* the application may end a response without bytes
  Spurious         \* time may pass: timers and the time threshold may come due
                   \* while packets or ACKs are under way

ASSUME SizesAssumption ==
  /\ Cap \in Nat \ {0} /\ LogCap \in Nat \ {0} /\ RecCap \in Nat
  /\ Base \in Nat \ {0} /\ Chunk \in Nat /\ Base <= Chunk
  /\ Threshold \in Nat \ {0} /\ PtoMax \in Nat /\ Probes \in Nat \ {0}
ASSUME SwitchesAssumption == {SealFails, HandlerDeclines, Spurious} \subseteq BOOLEAN
ASSUME SendBoundsAssumption == MaxLen \in Nat /\ MaxPn \in Nat /\ MaxDrops \in Nat

VARIABLES
  qlen, cur, chunk,   \* sendq: bytes queued, bytes taken, bytes per slice
  ring,               \* ring[i]: the stream offset of the byte stored there
  log,                \* in-flight slices: [pn, off, len]
  requeue,            \* slices to resend: [off, len, pn1, probe]
  streaming, in_use,  \* srvrun_resp: the handler owes bytes; the slot is taken
  txpn, largest,      \* next packet number, largest acknowledged
  rec,                \* sentmeta: ack-eliciting packets awaiting an answer
  pto, probe,         \* ackst.pto_count, ackst.probe_n
  phase,              \* where the server is in a step or a tick
  net, drops,         \* packets under way, packets lost so far
  rcvd, have, fins    \* peer: packets, stream bytes and final sizes received

queue == <<qlen, cur, chunk, ring>>
conn  == <<streaming, in_use, largest, pto>>
peer  == <<rcvd, have, fins>>
vars  == <<queue, log, requeue, conn, txpn, rec, probe, phase, net, drops, peer>>

Bytes(sl) == sl.off .. sl.off + sl.len - 1
Room(q)   == LogCap - Cardinality(q)

TypeOK ==
  /\ qlen \in 0 .. MaxLen /\ cur \in 0 .. qlen /\ chunk \in {Chunk, Base}
  /\ ring \in [0 .. Cap - 1 -> -1 .. MaxLen]
  /\ log \subseteq [off : 0 .. MaxLen, len : 1 .. Chunk, pn : 0 .. MaxPn]
  /\ requeue \subseteq [off : 0 .. MaxLen, len : 1 .. Chunk, pn1 : 0 .. MaxPn + 1,
                        probe : BOOLEAN]
  /\ Cardinality(log) <= LogCap /\ Cardinality(requeue) <= LogCap
  /\ streaming \in BOOLEAN /\ in_use \in BOOLEAN
  /\ txpn \in 0 .. MaxPn /\ largest \in 0 .. MaxPn
  /\ rec \subseteq 0 .. MaxPn /\ Cardinality(rec) <= RecCap
  /\ pto \in 0 .. PtoMax /\ probe \in 0 .. Probes
  /\ phase \in {"idle", "reap", "pump", "ping", "dropped"}
  /\ net \subseteq [off : 0 .. MaxLen, len : 0 .. Chunk, pn : 0 .. MaxPn,
                    fin : BOOLEAN, intact : BOOLEAN]
  /\ drops \in 0 .. MaxDrops
  /\ rcvd \subseteq 0 .. MaxPn /\ have \subseteq 0 .. MaxLen
  /\ fins \subseteq 0 .. MaxLen

\* srvrun_arm_round0: the first round of the body is armed into the ring.
Init ==
  /\ qlen \in 1 .. IF MaxLen < Cap THEN MaxLen ELSE Cap
  /\ cur = 0 /\ chunk = Chunk
  /\ ring = [i \in 0 .. Cap - 1 |-> IF i < qlen THEN i ELSE -1]
  /\ streaming \in {FALSE, qlen < MaxLen} /\ in_use = TRUE
  /\ log = {} /\ requeue = {}
  /\ txpn = 0 /\ largest = 0 /\ rec = {} /\ pto = 0 /\ probe = 0
  /\ phase = "pump"
  /\ net = {} /\ drops = 0
  /\ rcvd = {} /\ have = {} /\ fins = {}

-----------------------------------------------------------------------------
\* sendq and sendsess.

MinOf(a, b) == IF a < b THEN a ELSE b

\* Defect: the last slice is not cut to the bytes that are left.
TakePastEnd == MinOf(chunk, Cap - (cur % Cap))

\* sendq_take: at most one chunk, and never across the ring's wrap.
sendq_take == MinOf(MinOf(qlen - cur, chunk), Cap - (cur % Cap))

\* wired_sendsess_take with its split: the slice, its lost packet's number
\* (taken_pn), and what cur and the requeue become.
Takes ==
  IF requeue # {}
  THEN { LET n == MinOf(r.len, chunk) IN
         [off |-> r.off, len |-> n, pn1 |-> r.pn1, probe |-> r.probe, cur |-> cur,
          rest |-> (requeue \ {r}) \cup
                   (IF n = r.len THEN {}
                    ELSE {[r EXCEPT !.off = @ + n, !.len = @ - n]})]
         : r \in requeue }
  ELSE IF cur < qlen
  THEN { [off |-> cur, len |-> sendq_take, pn1 |-> 0, probe |-> FALSE,
          cur |-> cur + sendq_take, rest |-> {}] }
  ELSE {}

\* Defect: the floor forgets the slices waiting to be resent.
FloorOfLogOnly == Min({cur} \cup {sl.off : sl \in log})

\* wired_sendsess_reclaim_base: the lowest offset a resend may still read.
reclaim_base == Min({cur} \cup {sl.off : sl \in log \cup requeue})
ring_room == Cap - (qlen - reclaim_base)

\* Defect: a session with slices to resend counts as done.
DoneWithResends(len) == cur >= len /\ log = {}

sendsess_done(len) == cur >= len /\ requeue = {} /\ log = {}

\* The bytes a packet carries are the ones its ring cells hold when it is
\* sealed; intact says that they are the bytes of its stream range.
Intact(sl) ==
  \A i \in 0 .. sl.len - 1 :
    (sl.off % Cap) + i < Cap /\ ring[(sl.off % Cap) + i] = sl.off + i

\* Defect: the end of what is queued so far is taken for the end of the stream.
FinAtQueueEnd(sl) == sl.off + sl.len = qlen

\* srvrun_slice_fin, computed when the slice is sent.  The response is not a
\* WebTransport session's 200, whose stream never gets a FIN.
srvrun_slice_fin(sl) == ~ streaming /\ sl.off + sl.len = qlen

-----------------------------------------------------------------------------
\* ACKs, losses and timers.

\* RFC 9002 6.1: sent before the largest acknowledged, and past the packet
\* threshold or the time threshold (sent before packet t was).
IsLost(pn, top, t) == pn < top /\ (top >= pn + Threshold \/ pn < t)

\* Defect: the stored number is one above the packet's, and is compared as it is.
AckRequeuedOffByOne(acked) == {r \in requeue : r.pn1 \notin acked}

\* wired_sendsess_ack_requeued: a late ACK of the lost packet drops its slice.
ack_requeued(acked) == {r \in requeue : r.pn1 - 1 \notin acked}

\* srvrun_rec_detect: the record forgets what it declares lost.
rec_detect(r, top, t) == {pn \in r : ~ IsLost(pn, top, t)}

\* sendsess_requeue: what a log entry, lost or probed for, leaves in the requeue.
Requeued(e, probed) == [off |-> e.off, len |-> e.len, pn1 |-> e.pn + 1, probe |-> probed]

\* srvrun_pmtu_feed_losses: losses above the base size may amount to a black
\* hole, which caps the chunk.
shrink(lost) == {chunk} \cup (IF \E e \in lost : e.len > Base THEN {Base} ELSE {})

\* srvrun_loss_pass over the log l, the requeue q and the record r.  A slice
\* that finds the requeue full stays in flight.
LossPass(l, q, r, top, t) ==
  LET lost == {e \in l : IsLost(e.pn, top, t)} IN
  /\ \E moved \in kSubset(MinOf(Cardinality(lost), Room(q)), lost) :
       /\ log' = l \ moved
       /\ requeue' = q \cup {Requeued(e, FALSE) : e \in moved}
  /\ rec' = rec_detect(r, top, t)
  /\ chunk' \in shrink(lost)

\* srvrun_feed_acks: every range of the ACK first, then one loss pass.
FeedAcks(acked, t) ==
  LET top == Max({largest} \cup acked) IN
  /\ phase = "idle" /\ in_use
  /\ acked \subseteq rcvd /\ (Spurious \/ t = 0)
  /\ largest' = top
  /\ pto' = IF rec \cap acked # {} THEN 0 ELSE pto
  /\ LossPass({e \in log : e.pn \notin acked}, ack_requeued(acked),
              rec \ acked, top, t)
  /\ phase' = "reap"
  /\ UNCHANGED <<qlen, cur, ring, streaming, in_use, txpn, probe, net, drops, peer>>

\* The server has seen every ACK it can get.
Acknowledged == rcvd \cap rec = {} /\ \A e \in log : e.pn \notin rcvd
\* Nothing is under way that would answer before a timer comes due.
Quiet == net = {} /\ Acknowledged

LossTimeArmed == \E pn \in rec : pn < largest
\* Defect: without a first ACK there is no estimate and no timer.
PtoAfterFirstAck == rec # {} /\ ~ LossTimeArmed /\ largest > 0

PtoArmed == rec # {} /\ ~ LossTimeArmed

\* srvrun_loss_timer_slot: at least the oldest candidate is past its time.
LossTimer(t) ==
  /\ phase = "idle" /\ in_use /\ (Spurious \/ Quiet)
  /\ LossTimeArmed /\ Min(rec) < t
  /\ LossPass(log, requeue, rec, largest, t)
  /\ phase' = "pump"
  /\ UNCHANGED <<qlen, cur, ring, conn, txpn, probe, net, drops, peer>>

\* wired_sendsess_pto_probe: copies of the two oldest slices, which stay in
\* flight.
pto_probe ==
  IF requeue # {} \/ log = {} THEN requeue
  ELSE LET pns    == {e.pn : e \in log}
           rest   == pns \ {Min(pns)}
           oldest == {Min(pns)} \cup
                     (IF rest = {} \/ LogCap = 1 THEN {} ELSE {Min(rest)})
       IN  {Requeued(e, TRUE) : e \in {x \in log : x.pn \in oldest}}

\* srvrun_pto_sess: no copies when there is new data that the log (and the
\* peer's credit, which may or may not be there) lets through.
pto_sess ==
  {pto_probe} \cup (IF cur < qlen /\ Cardinality(log) < LogCap THEN {requeue} ELSE {})

\* srvrun_pto_slot: a spent probe budget drops the connection.
PtoFires ==
  /\ phase = "idle" /\ in_use /\ (Spurious \/ Quiet)
  /\ PtoArmed
  /\ IF pto >= PtoMax
     THEN /\ phase' = "dropped" /\ in_use' = FALSE
          /\ UNCHANGED <<pto, probe, requeue>>
     ELSE /\ pto' = pto + 1 /\ probe' = Probes /\ requeue' \in pto_sess
          /\ phase' = "pump" /\ UNCHANGED in_use
  /\ UNCHANGED <<queue, log, streaming, largest, txpn, rec, net, drops, peer>>

-----------------------------------------------------------------------------
\* srvrun_resp_reap: refill the ring from the handler when a quarter of it is
\* free, then release the slot once everything queued is acknowledged.

Refill(n, more) ==
  /\ ring' = [i \in 0 .. Cap - 1 |->
                IF i - (qlen % Cap) \in 0 .. n - 1 THEN qlen + i - (qlen % Cap)
                ELSE ring[i]]
  /\ qlen' = qlen + n
  /\ streaming' = more

\* What the handler may answer when it is offered take bytes of room.
Answers(take) ==
  {a \in (0 .. take) \X BOOLEAN :
     /\ qlen + a[1] <= MaxLen /\ (a[2] => qlen + a[1] < MaxLen)
     /\ HandlerDeclines \/ a[1] > 0}

Reap ==
  /\ phase = "reap" /\ phase' = "pump"
  /\ IF streaming /\ ring_room >= Cap \div 4
     THEN \E a \in Answers(MinOf(Cap - (qlen % Cap), ring_room)) : Refill(a[1], a[2])
     ELSE UNCHANGED <<ring, qlen, streaming>>
  /\ in_use' = (in_use /\ ~ (sendsess_done(qlen') /\ ~ streaming'))
  /\ UNCHANGED <<cur, chunk, log, requeue, txpn, largest, rec, pto, probe,
                 net, drops, peer>>

-----------------------------------------------------------------------------
\* The pump.

\* srvrun_pump_gate_ok: a resend needs log room only, and neither the window
\* nor the pacer holds it back; new data needs the window, the pacer and credit.
GateOpen == in_use /\ Cardinality(log) < LogCap
MustSend == GateOpen /\ requeue # {}

\* A sealed packet: its number is used up, the record notes it when it has
\* room (sentmeta_on_sent), and it uses up a probe allowance.
Sealed(pkt) ==
  /\ net' = net \cup {pkt} /\ txpn' = txpn + 1
  /\ rec' = IF Cardinality(rec) < RecCap THEN rec \cup {txpn} ELSE rec
  /\ probe' = IF probe > 0 THEN probe - 1 ELSE 0

\* srvrun_pump_one_slice, srvrun_send_stream_slice.
PumpSend ==
  /\ phase = "pump" /\ GateOpen /\ txpn < MaxPn
  /\ \E sl \in Takes :
       /\ cur' = sl.cur /\ requeue' = sl.rest
       /\ Sealed([off |-> sl.off, len |-> sl.len, pn |-> txpn,
                  fin |-> srvrun_slice_fin(sl), intact |-> Intact(sl)])
       /\ log' = log \cup {[off |-> sl.off, len |-> sl.len, pn |-> txpn]}
  /\ UNCHANGED <<qlen, chunk, ring, conn, phase, drops, peer>>

\* wired_sendsess_untake, with its bound check.
untake(sl) ==
  IF Room(sl.rest) > 0
  THEN sl.rest \cup {[off |-> sl.off, len |-> sl.len, pn1 |-> sl.pn1,
                      probe |-> sl.probe]}
  ELSE sl.rest

\* srvrun_send_taken when the frame does not encode (no number used) or the
\* packet does not seal (number used): the slice goes back, the pass ends.
PumpFail ==
  /\ SealFails /\ phase = "pump" /\ GateOpen /\ txpn < MaxPn
  /\ \E sl \in Takes : cur' = sl.cur /\ requeue' = untake(sl)
  /\ txpn' \in {txpn, txpn + 1}
  /\ phase' = IF probe = Probes THEN "ping" ELSE "idle"
  /\ probe' = 0
  /\ UNCHANGED <<qlen, chunk, ring, log, conn, rec, net, drops, peer>>

PumpEnds ==
  /\ phase = "pump" /\ (~ MustSend \/ txpn = MaxPn)
  /\ phase' = IF probe = Probes THEN "ping" ELSE "idle"
  /\ probe' = 0
  /\ UNCHANGED <<queue, log, requeue, conn, txpn, rec, net, drops, peer>>

\* srvrun_pto_ping: a probe that found nothing to carry.
Ping ==
  /\ phase = "ping" /\ phase' = "idle" /\ txpn < MaxPn
  /\ \/ Sealed([off |-> 0, len |-> 0, pn |-> txpn, fin |-> FALSE, intact |-> TRUE])
     \/ SealFails /\ UNCHANGED <<net, txpn, rec, probe>>
  /\ UNCHANGED <<queue, log, requeue, conn, drops, peer>>

\* srvrun_send_tick_slot: a poll tick pumps a slot that still has a session.
Tick ==
  /\ phase = "idle" /\ GateOpen /\ Takes # {} /\ phase' = "pump"
  /\ UNCHANGED <<queue, log, requeue, conn, txpn, rec, probe, net, drops, peer>>

-----------------------------------------------------------------------------
\* The network and the peer.

Deliver(p) ==
  /\ phase \in {"idle", "dropped"} /\ p \in net
  /\ net' = net \ {p}
  /\ rcvd' = rcvd \cup {p.pn}
  /\ have' = have \cup Bytes(p)
  /\ fins' = IF p.fin THEN fins \cup {p.off + p.len} ELSE fins
  /\ UNCHANGED <<queue, log, requeue, conn, txpn, rec, probe, phase, drops>>

Drop(p) ==
  /\ phase = "idle" /\ p \in net /\ drops < MaxDrops
  /\ net' = net \ {p} /\ drops' = drops + 1
  /\ UNCHANGED <<queue, log, requeue, conn, txpn, rec, probe, phase, peer>>

Timers == PtoFires \/ \E t \in 1 .. largest : LossTimer(t)
Pump   == PumpSend \/ PumpEnds \/ Ping
AckStep == \E acked \in SUBSET rcvd, t \in 0 .. MaxPn : FeedAcks(acked, t)

Next ==
  \/ AckStep \/ Timers \/ Reap \/ Pump \/ PumpFail \/ Tick
  \/ \E p \in net : Deliver(p) \/ Drop(p)

Spec == Init /\ [][Next]_vars

\* The network delivers what it does not lose; the peer acknowledges what it
\* has and its ACKs get through in the end; every loop iteration runs the due
\* timers and a send tick (srvrun_fire_ptos), also while datagrams keep coming;
\* the window, the pacer and the peer's credit open again, so the pump is not
\* stopped short for ever.
FairSpec ==
  /\ Spec
  /\ SF_vars(\E p \in net : Deliver(p))
  /\ SF_vars(~ Acknowledged /\ FeedAcks(rcvd, 0))
  /\ SF_vars(Timers) /\ SF_vars(Tick) /\ SF_vars(PumpSend)
  /\ WF_vars(Reap) /\ WF_vars(Pump)
-----------------------------------------------------------------------------
\* Properties.

\* Every byte the queue handed out is with the peer, in flight or waiting to be
\* resent: no interleaving of ACKs, losses, probes, splits and datagrams that
\* cannot be built leaves a range that nothing will ever resend (sendsess_take,
\* _untake, _requeue, _ack, _ack_requeued).  A slice that cannot be built while the
\* requeue is full is dropped by _untake; no send fails in that state here.
NoHole ==
  in_use => 0 .. cur - 1 \subseteq have \cup UNION {Bytes(sl) : sl \in log \cup requeue}

\* A packet carries the bytes of its own stream range, also when it is a resend
\* of a slice whose ring cells a refill has come close to (reclaim_base against
\* srvrun_resp_refill_write).
BytesIntact == \A p \in net : p.intact

\* A slot is released only when the peer has the whole response and its final
\* size.
ReleasedMeansDelivered ==
  ~ in_use /\ phase # "dropped" => have = 0 .. qlen - 1 /\ fins = {qlen}

\* RFC 9000 4.5 through srvrun_slice_fin: every FIN ever put on a packet, first
\* sends and resends, names the one final size of the response.
FinalSizeStable ==
  /\ \A p \in net : p.fin => p.off + p.len = qlen /\ ~ streaming
  /\ \A f \in fins : f = qlen /\ ~ streaming

\* srvrun_stream.c: a handler that declines mid-stream ends the stream, so a
\* released response has told the peer its final size.
DeclineEndsStream == ~ in_use /\ phase # "dropped" => fins = {qlen}

\* The response gets through: every byte and the final size reach the peer and
\* the slot is released.
Delivered == <>(~ in_use /\ fins = {qlen} /\ have = 0 .. qlen - 1)
=============================================================================
