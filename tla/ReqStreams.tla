------------------------------ MODULE ReqStreams ------------------------------
(***************************************************************************)
(* The request streams of one HTTP/3 connection: the table of reassembly   *)
(* slots (srvloop), the answers started for them (srvrun), the stream      *)
(* credit (MAX_STREAMS) that both give back, and every way a request ends: *)
(* answered and acknowledged, reset, stopped, malformed, refused past a    *)
(* GOAWAY, turned into a WebTransport session.                             *)
(*                                                                         *)
(* A datagram is a sequence of frames that the server handles in one step: *)
(* srvloop lands, completes and resets, re-arms the slots, and then srvrun *)
(* walks the lists that the step left.  The step is a pipeline of          *)
(* operators from connection to connection, in the order of the calls.     *)
(* The network loses, repeats and reorders: any frame of an open stream    *)
(* may arrive at any time, any number of times.                            *)
(*                                                                         *)
(* A request is the head (its HEADERS frame) and the tail (the rest of the *)
(* body and the FIN) of its stream; bytes are left out.                    *)
(***************************************************************************)
EXTENDS Integers, Sequences, FiniteSets, SequencesExt

CONSTANTS
  Requests,    \* 0 .. N-1: the client's bidi stream ids divided by 4
  Cap,         \* WIRED_SRVLOOP_MAX_STREAMS = SRVRUN_RESP_SLOTS
  Base,        \* the bidi limit of the transport parameters
  Nil,
  Retries,     \* repeats of a MAX_STREAMS frame (srvrun_grant_streams: 2)
  Cases,       \* what the client means each stream to be, and whether the
               \* application takes bodies as they arrive (on_body)
  Datagrams,   \* sequences of frames a datagram may carry
  MaxSess,     \* SRVRUN_MAX_WT_SESSIONS
  StaleSlots   \* the inputs are not kept from leaving a freed slot on a list

\* get: a request; long: one that breaks its Content-Length; bad: HEADERS that
\* do not decode; connect: a WebTransport CONNECT; wtbad: one that is malformed.
Kinds  == {"get", "long", "bad", "connect", "wtbad"}
Request == Requests \cup {Nil}
Frames == Requests \X {"head", "tail", "reset", "stop"}

ASSUME ReqAssumption ==
  /\ Requests \subseteq Nat /\ IsFiniteSet(Requests) /\ 0 \in Requests /\ Nil \notin Requests
  /\ {Cap, Base, Retries, MaxSess} \subseteq Nat
  /\ Cases \subseteq [kind : [Requests -> Kinds], streamed : BOOLEAN]
  /\ Datagrams \subseteq Seq(Frames) /\ StaleSlots \in BOOLEAN

VARIABLES
  kind,        \* the client's requests
  c,           \* the server's connection
  client,      \* the limit the client knows
  net          \* the latest MAX_STREAMS frame under way, 0 when there is none
reqVars == <<kind, c, client, net>>

ReqSlots == 1 .. Cap
FreeSlot == [use |-> FALSE, id |-> 0, req |-> Nil, got |-> {}, done |-> FALSE,
             body |-> "off", settled |-> FALSE]

\* The step's lists (srvloop_step_reset): done_slots, incomplete_slots,
\* reset_slots, reset_slotless_n, wt_refused_n, and the slots with new bytes.
srvloop_step_reset(k) ==
  [k EXCEPT !.done = <<>>, !.inc = <<>>, !.rs = {}, !.slotless = 0, !.owed = 0,
            !.touched = {}]

\* wired_srvloop_init, srvrun_claim: slots are free, nothing is closed.
\* ans, began, ends, qp, zero, busy, early and unpaid are histories.
NewConn(streamed) ==
  [streamed |-> streamed, slot |-> [i \in ReqSlots |-> FreeSlot], closed |-> {}, sendDone |-> {},
   resp |-> [s \in Requests |-> Nil], held |-> [i \in ReqSlots |-> Nil],
   sess |-> {}, settings |-> FALSE, goaway |-> Nil, next |-> 0,
   limit |-> Base, retries |-> 0,
   done |-> <<>>, inc |-> <<>>, rs |-> {}, slotless |-> 0, owed |-> 0,
   touched |-> {},
   ans |-> [s \in Requests |-> <<>>],
   began |-> [s \in Requests |-> FALSE], ends |-> [s \in Requests |-> 0],
   qp |-> [s \in Requests |-> 0], zero |-> {}, busy |-> {}, early |-> {}, unpaid |-> {}]

ReqInit ==
  /\ \E x \in Cases : kind = x.kind /\ c = NewConn(x.streamed)
  /\ client = Base /\ net = 0

-----------------------------------------------------------------------------
\* srvloop: slots and the closed set.

SlotsOf(k, s) == {i \in ReqSlots : k.slot[i].use /\ k.slot[i].id = s}
SlotOf(k, s)  == CHOOSE i \in SlotsOf(k, s) : TRUE
HasSlot(k, s) == SlotsOf(k, s) # {}

\* Defect: a body that has ended is aborted as well.
AbortAlways(k, i) ==
  IF k.slot[i].body # "off"
  THEN [k EXCEPT !.slot[i].body = "aborted", !.ends[k.slot[i].id] = @ + 1]
  ELSE k

\* srvloop_body_abort: the app hears once of a body that will not finish.
srvloop_body_abort(k, i) ==
  IF k.slot[i].body = "open"
  THEN [k EXCEPT !.slot[i].body = "aborted", !.ends[k.slot[i].id] = @ + 1]
  ELSE k

\* wired_srvloop_slot_release, wired_srvloop_slot_cancel: the stream is closed;
\* a slot it has is emptied, its stream id 0, its decoded request left behind.
wired_srvloop_slot_release(k, s) ==
  LET closed == [k EXCEPT !.closed = @ \cup {s}] IN
  IF ~ HasSlot(k, s) THEN closed
  ELSE LET i == SlotOf(k, s) IN
       [srvloop_body_abort(closed, i) EXCEPT
          !.slot[i] = [FreeSlot EXCEPT !.req = k.slot[i].req]]

\* srvloop_stream_slot_claim: the first free slot; the next id to announce in a
\* GOAWAY is past every claimed stream.
srvloop_stream_slot_claim(k, s) ==
  LET i == CHOOSE j \in ReqSlots : /\ ~ k.slot[j].use
                                /\ \A h \in 1 .. j - 1 : k.slot[h].use
  IN [k EXCEPT !.slot[i] = [FreeSlot EXCEPT !.use = TRUE, !.id = s, !.req = k.slot[i].req],
               !.next = IF s + 1 > @ THEN s + 1 ELSE @]

\* Defect: a released stream is not remembered as closed.
SlotForForgetful(k, s) ==
  IF HasSlot(k, s) \/ \A i \in ReqSlots : k.slot[i].use THEN k
  ELSE srvloop_stream_slot_claim(k, s)

\* wired_srvloop_slot_for: late bytes of a closed stream open nothing; a new
\* stream that finds the table full loses its frame.
wired_srvloop_slot_for(k, s) ==
  IF HasSlot(k, s) \/ s \in k.closed \/ \A i \in ReqSlots : k.slot[i].use THEN k
  ELSE srvloop_stream_slot_claim(k, s)

\* route_land: the frame's bytes are with their slot.
route_land(k, f) ==
  LET s == f[1]
      m == wired_srvloop_slot_for(k, s)
  IN IF f[2] \notin {"head", "tail"} THEN k
     ELSE IF ~ HasSlot(m, s) THEN m
     ELSE [m EXCEPT !.slot[SlotOf(m, s)].got = @ \cup {f[2]},
                    !.touched = @ \cup {SlotOf(m, s)}]

-----------------------------------------------------------------------------
\* srvloop: completion of the slots a packet touched.

\* qdec_settle: one instruction to the peer's QPACK encoder for a stream, an
\* acknowledgment or a cancellation.
qdec_settle(k, i) ==
  IF k.slot[i].settled THEN k
  ELSE [k EXCEPT !.slot[i].settled = TRUE, !.qp[k.slot[i].id] = @ + 1]

\* srvloop_route_note_done.
srvloop_route_note_done(k, i) ==
  [qdec_settle(k, i) EXCEPT !.rs = @ \ {i}, !.done = Append(@, i)]

\* route_note_rejected, route_note_malformed: a request that will be aborted.
route_note_rejected(k, i) ==
  [qdec_settle(k, i) EXCEPT !.rs = @ \ {i}, !.inc = Append(@, i)]

\* srvloop_route_body_refused, wired_srvloop_wt_refuse: no response can go out,
\* so no body goes in; the stream is refused and its credit owed.
srvloop_route_body_refused(k, i) ==
  LET s == k.slot[i].id IN
  [wired_srvloop_slot_release(qdec_settle(k, i), s) EXCEPT !.owed = @ + 1]

\* route_body_pump: on_body hears the fin, or the body breaks its length.
route_body_pump(k, i) ==
  LET s == k.slot[i].id IN
  IF k.slot[i].body # "open" \/ "tail" \notin k.slot[i].got THEN k
  ELSE IF kind[s] = "get"
  THEN srvloop_route_note_done(
         [k EXCEPT !.slot[i].body = "ended", !.slot[i].done = TRUE,
                   !.ends[s] = @ + 1], i)
  ELSE route_note_rejected(
         [k EXCEPT !.slot[i].body = "rejected", !.slot[i].done = TRUE], i)

\* srvloop_request_complete: at the FIN with no byte missing before it, or at
\* the HEADERS when they are a CONNECT's or do not decode.
srvloop_request_complete(sl) ==
  /\ ~ sl.done
  /\ "head" \in sl.got
  /\ "tail" \in sl.got \/ kind[sl.id] \in {"connect", "wtbad", "bad"}

\* srvloop_route_complete_slot: the streaming path when on_body is set, else
\* the buffered one.
srvloop_route_complete_slot(k, i) ==
  LET sl     == k.slot[i]
      s      == sl.id
      starts == sl.body = "off" /\ "head" \in sl.got /\ ~ sl.done
      opened == [k EXCEPT !.slot[i].body = "open", !.slot[i].req = s, !.began[s] = TRUE]
      taken  == [k EXCEPT !.slot[i].done = TRUE, !.slot[i].req = s]
  IN IF k.streamed /\ starts /\ s \in k.sendDone THEN srvloop_route_body_refused(k, i)
     ELSE IF k.streamed /\ starts /\ kind[s] \in {"get", "long"}
     THEN route_body_pump(opened, i)
     ELSE IF sl.body # "off" THEN route_body_pump(k, i)
     ELSE IF ~ srvloop_request_complete(sl) THEN k
     ELSE IF kind[s] \in {"get", "connect", "wtbad"}
     THEN srvloop_route_note_done(taken, i)
     ELSE route_note_rejected(taken, i)

\* reset_request_stream: still receiving, the slot is noted; without a slot the
\* stream is closed at once, its credit owed.
reset_request_stream(k, s) ==
  IF s \in k.closed THEN k
  ELSE IF HasSlot(k, s)
  THEN LET i == SlotOf(k, s) IN
       [qdec_settle(k, i) EXCEPT !.rs = IF k.slot[i].done THEN @ ELSE @ \cup {i}]
  ELSE [wired_srvloop_slot_release(k, s) EXCEPT !.slotless = @ + 1,
                                               !.qp[s] = @ + 1]

\* srvloop_rearm_reqacc, _incomplete: a finished slot starts over; bytes of a
\* streamed body stay consumed.
srvloop_rearm(k) ==
  [k EXCEPT !.slot = [i \in ReqSlots |->
     IF \/ i \in Range(k.done) /\ "tail" \in k.slot[i].got
        \/ i \in Range(k.inc)
     THEN [k.slot[i] EXCEPT !.got = {}, !.done = FALSE]
     ELSE k.slot[i]]]

\* route_complete_touched: the slots in their order, those with new bytes.
SlotsInOrder == [i \in ReqSlots |-> i]
route_complete_touched(k, i) ==
  IF i \in k.touched THEN srvloop_route_complete_slot(k, i) ELSE k

\* reset_request_streams: every RESET_STREAM of the packet.
reset_frame(k, f) == IF f[2] = "reset" THEN reset_request_stream(k, f[1]) ELSE k

\* wired_srvloop_step.
wired_srvloop_step(k, dg) ==
  LET landed == FoldLeft(route_land, srvloop_step_reset(k), dg)
      done   == FoldLeft(route_complete_touched, landed, SlotsInOrder)
      reset  == FoldLeft(reset_frame, done, dg)
  IN srvloop_rearm(reset)
-----------------------------------------------------------------------------
\* srvrun: credit, resets, sessions.

\* srvrun_grant_streams: n slots were freed; one MAX_STREAMS carries the raise
\* and its repeats are armed.
srvrun_grant_streams(k, n) ==
  IF n = 0 THEN k
  ELSE [k EXCEPT !.limit = @ + n, !.retries = Retries]

\* srvrun_send_wt_busy_reset: RESET_STREAM of final size 0 unless the send side
\* is over already; then it is.
send_wt_busy_reset(k, s) ==
  [k EXCEPT !.sendDone = @ \cup {s},
            !.zero = IF s \in k.sendDone THEN @ ELSE @ \cup {s}]

\* srvrun_close_wt_session_slot: the CONNECT's request slot goes with it.
close_wt_session_slot(k, s) ==
  [wired_srvloop_slot_release(k, s) EXCEPT !.sess = @ \ {s}]

\* srvloop_gather_one_stream_close, srvrun_close_wt_on_stream_close: of the
\* streams that ended in this datagram, the last one closes its session.
srvrun_close_wt_on_stream_close(k, dg) ==
  LET ends == {j \in DOMAIN dg : dg[j][2] \in {"tail", "reset"}}
      s    == dg[Max(ends)][1]
  IN IF ends # {} /\ s \in k.sess THEN close_wt_session_slot(k, s) ELSE k

\* srvrun_resp_release_stream: a session keeps its CONNECT's slot.
srvrun_resp_release_stream(k, s) ==
  IF s \in k.sess THEN k
  ELSE [wired_srvloop_slot_release(k, s) EXCEPT !.sendDone = @ \cup {s}]

\* srvrun_answer_stream_stop: a session ends (srvrun_connect_stop), a response
\* ends (srvrun_resp_stop), a request is cancelled (srvrun_req_stop), or the
\* send side of a stream not seen yet ends (srvrun_req_stop_early).
answer_stream_stop(k, s) ==
  IF s \in k.sess
  THEN close_wt_session_slot([k EXCEPT !.sendDone = @ \cup {s}], s)
  ELSE IF k.resp[s] # Nil
  THEN srvrun_grant_streams(
         srvrun_resp_release_stream([k EXCEPT !.resp[s] = Nil], s), 1)
  ELSE IF HasSlot(k, s)
  THEN srvrun_grant_streams(
         wired_srvloop_slot_release(send_wt_busy_reset(k, s), s), 1)
  ELSE IF s \in k.sendDone THEN k
  ELSE send_wt_busy_reset(k, s)

\* srvrun_answer_peer_stops: every STOP_SENDING of the datagram.
srvrun_answer_peer_stop(k, f) == IF f[2] = "stop" THEN answer_stream_stop(k, f[1]) ELSE k

\* srvrun_drop_held: a CONNECT reset while it waits for SETTINGS is not started.
srvrun_drop_held(k, f) ==
  LET at == {i \in ReqSlots : k.held[i] # Nil /\ k.slot[i].id = f[1]} IN
  IF f[2] # "reset" \/ at = {} THEN k
  ELSE srvrun_grant_streams(
         wired_srvloop_slot_release([k EXCEPT !.held[CHOOSE i \in at : TRUE] = Nil], f[1]), 1)

\* srvrun_reset_free: a slot reset while receiving, unless a response owns it.
srvrun_reset_free(k, i) ==
  IF i \notin k.rs \/ ~ k.slot[i].use \/ k.resp[k.slot[i].id] # Nil THEN k
  ELSE srvrun_grant_streams(wired_srvloop_slot_release(k, k.slot[i].id), 1)

\* srvrun_free_reset_reqs, with the resets that met no slot.
srvrun_free_reset_reqs(k) ==
  srvrun_grant_streams(FoldLeft(srvrun_reset_free, k, SlotsInOrder),
                       k.slotless)

\* srvrun_live_streams: what follows the step, in its order; the credit of the
\* refused streams comes last (srvrun_grant_wt_streams).
srvrun_live_streams(k, dg) ==
  LET closed  == srvrun_close_wt_on_stream_close(k, dg)
      stopped == FoldLeft(srvrun_answer_peer_stop, closed, dg)
      dropped == FoldLeft(srvrun_drop_held, stopped, dg)
  IN srvrun_grant_streams(srvrun_free_reset_reqs(dropped), k.owed)

-----------------------------------------------------------------------------
\* srvrun: responses.

\* Defect: the reap forgets the credit.
ReapNoCredit(k, s) == [srvrun_resp_release_stream(k, s) EXCEPT !.resp[s] = Nil]

\* srvrun_resp_reap: every byte of the response is acknowledged.
srvrun_resp_reap(k, s) ==
  srvrun_grant_streams(
    [srvrun_resp_release_stream(k, s) EXCEPT
       !.resp[s] = Nil, !.early = IF s \in k.sess THEN @ \cup {s} ELSE @], 1)

\* srvrun_abort_req, srvrun_abort_release: by the slot's number.
srvrun_abort_req(k, i) ==
  LET m == send_wt_busy_reset(k, k.slot[i].id) IN
  IF ~ k.slot[i].use THEN m
  ELSE srvrun_grant_streams(wired_srvloop_slot_release(m, m.slot[i].id), 1)

\* srvrun_dispatch_wt_gated: held until SETTINGS; malformed; no room (the 429
\* and the reset of srvrun_reject_wt_busy); else a session and its 200.
srvrun_dispatch_wt_gated(k, s, q) ==
  LET answered == [k EXCEPT !.resp[s] = q, !.ans[s] = Append(@, q)] IN
  IF ~ k.settings
  THEN IF HasSlot(k, s) THEN [k EXCEPT !.held[SlotOf(k, s)] = s] ELSE k
  ELSE IF kind[q] = "wtbad"
  THEN [wired_srvloop_slot_release(send_wt_busy_reset(k, s), s) EXCEPT
          !.unpaid = @ \cup {s}]
  ELSE IF Cardinality(k.sess) >= MaxSess
  THEN [send_wt_busy_reset(answered, s) EXCEPT !.busy = @ \cup {s}]
  ELSE [answered EXCEPT !.sess = @ \cup {s}]

\* srvrun_req_answered, srvrun_resp_claim.
srvrun_start_resp_claim(k, s) ==
  /\ k.resp[s] = Nil /\ s \notin k.sess
  /\ Cardinality({t \in Requests : k.resp[t] # Nil}) < Cap

\* Defect: a stream whose send side is over is answered all the same.
StartUnsendable(k, s, q) ==
  IF k.goaway # Nil /\ s >= k.goaway
  THEN [wired_srvloop_slot_release(send_wt_busy_reset(k, s), s) EXCEPT
          !.unpaid = @ \cup {s}]
  ELSE IF ~ srvrun_start_resp_claim(k, s) THEN k
  ELSE IF kind[q] \in {"connect", "wtbad"} THEN srvrun_dispatch_wt_gated(k, s, q)
  ELSE [k EXCEPT !.resp[s] = q, !.ans[s] = Append(@, q)]

\* srvrun_start_resp: refused past the GOAWAY, refused when the send side is
\* over (srvrun_refuse_unsendable), dropped when already answered, or answered.
srvrun_start_resp(k, s, q) ==
  IF k.goaway # Nil /\ s >= k.goaway
  THEN [wired_srvloop_slot_release(send_wt_busy_reset(k, s), s) EXCEPT
          !.unpaid = @ \cup {s}]
  ELSE IF s \in k.sendDone
  THEN srvrun_grant_streams(wired_srvloop_slot_release(k, s), 1)
  ELSE IF ~ srvrun_start_resp_claim(k, s) THEN k
  ELSE IF kind[q] \in {"connect", "wtbad"} THEN srvrun_dispatch_wt_gated(k, s, q)
  ELSE [k EXCEPT !.resp[s] = q, !.ans[s] = Append(@, q)]

\* srvrun_start_done_resp: whatever the slot holds now.
srvrun_start_done_resp(k, i) == srvrun_start_resp(k, k.slot[i].id, k.slot[i].req)

\* srvrun_start_held_resp: unless the slot was released meanwhile.
srvrun_start_held_resp(k, i) ==
  IF k.held[i] = Nil THEN k
  ELSE LET m == [k EXCEPT !.held[i] = Nil] IN
       IF k.slot[i].use /\ k.slot[i].id = k.held[i]
       THEN srvrun_start_done_resp(m, i) ELSE m

\* srvrun_sess_on_step: reap what an ACK finished, abort what was rejected,
\* start what was held and what completed.
srvrun_sess_on_step(k, acked) ==
  LET reaped  == IF acked = Nil \/ k.resp[acked] = Nil THEN k
                 ELSE srvrun_resp_reap(k, acked)
      aborted == FoldLeft(srvrun_abort_req, reaped, k.inc)
      woken   == IF ~ k.settings THEN aborted
                 ELSE FoldLeft(srvrun_start_held_resp, aborted, SlotsInOrder)
  IN FoldLeft(srvrun_start_done_resp, woken, k.done)

-----------------------------------------------------------------------------
\* Actions.

\* The connection as the call leaves it; a raised limit went out in a MAX_STREAMS
\* frame.
Settle(k) ==
  /\ c' = srvloop_step_reset(k)
  /\ net' = IF k.limit > c.limit THEN k.limit ELSE net

\* The streams that a datagram's frames of some types are about.
Named(dg, types) == {dg[j][1] : j \in {i \in DOMAIN dg : dg[i][2] \in types}}

\* Input that frees a slot whose number a list still holds: the bytes of a
\* request together with the STOP_SENDING, the ACK or (a CONNECT that is held or
\* has a session) the FIN or reset that ends it, and a STOP_SENDING for a CONNECT
\* that is held.
LeavesStaleSlot(dg, acked) ==
  \/ Named(dg, {"head", "tail"}) \cap ({acked} \cup Named(dg, {"stop"})) # {}
  \/ Named(dg, {"head"}) \cap Named(dg, {"tail", "reset"}) \cap (c.sess \cup Range(c.held)) # {}
  \/ Named(dg, {"stop"}) \cap Range(c.held) # {}

\* srvrun_on_step_live and srvrun_sess_on_step for one datagram: its frames, its
\* ACK (the response it finishes, or Nil), the client's SETTINGS if it brings them.
ReqStep(dg, acked, settings) ==
  /\ \A j \in DOMAIN dg : dg[j][1] < client
  /\ StaleSlots \/ ~ LeavesStaleSlot(dg, acked)
  /\ acked # Nil => c.resp[acked] # Nil
  /\ LET k == wired_srvloop_step([c EXCEPT !.settings = @ \/ settings], dg)
     IN Settle(srvrun_sess_on_step(srvrun_live_streams(k, dg), acked))
  /\ UNCHANGED <<kind, client>>

\* srvrun_send_goaway: every stream taken up keeps going.
GoAway ==
  /\ c.goaway = Nil
  /\ c' = [c EXCEPT !.goaway = c.next]
  /\ UNCHANGED <<kind, client, net>>

\* srvrun_drain_wt_close_one: the application closes a session.
CloseSession(s) ==
  /\ s \in c.sess
  /\ Settle(close_wt_session_slot(c, s))
  /\ UNCHANGED <<kind, client>>

\* srvrun_grant_retry_slot: the limit in force is said again.
GrantRetry ==
  /\ c.retries > 0
  /\ c' = [c EXCEPT !.retries = @ - 1]
  /\ net' = c.limit
  /\ UNCHANGED <<kind, client>>

\* srvrun_reannounce_stream_limit, for a client that says STREAMS_BLOCKED.
Reannounce ==
  /\ net' = c.limit
  /\ UNCHANGED <<kind, c, client>>

\* The network and the client, outside the repository.
Deliver ==
  /\ net # 0 /\ net' = 0
  /\ client' = IF net > client THEN net ELSE client
  /\ UNCHANGED <<kind, c>>
Lose ==
  /\ net # 0 /\ net' = 0
  /\ UNCHANGED <<kind, c, client>>

ReqNext ==
  \/ \E dg \in Datagrams, acked \in Request : ReqStep(dg, acked, FALSE)
  \/ ReqStep(<<>>, Nil, TRUE)
  \/ GoAway
  \/ \E s \in Requests : CloseSession(s)
  \/ GrantRetry \/ Reannounce \/ Deliver \/ Lose

ReqSpec == ReqInit /\ [][ReqNext]_reqVars
-----------------------------------------------------------------------------
\* Properties.

ReqTypeOK ==
  /\ kind \in [Requests -> Kinds]
  /\ c.streamed \in BOOLEAN
  /\ client \in Nat /\ net \in Nat /\ client <= c.limit /\ net <= c.limit
  /\ c.slot \in [ReqSlots -> [use : BOOLEAN, id : Requests, req : Request,
                           got : SUBSET {"head", "tail"}, done : BOOLEAN,
                           body : {"off", "open", "ended", "rejected", "aborted"},
                           settled : BOOLEAN]]
  /\ c.resp \in [Requests -> Request] /\ c.held \in [ReqSlots -> Request]
  /\ {c.closed, c.sendDone, c.sess} \subseteq SUBSET Requests
  /\ \A i, j \in ReqSlots : c.slot[i].use /\ c.slot[j].use /\ c.slot[i].id = c.slot[j].id
       => i = j

\* A request is answered at most once, on its own stream, whatever is lost,
\* repeated, reset or stopped (srvrun_start_resp; a slot completes again when
\* its bytes are resent before the answer is acknowledged).
AnsweredOnce ==
  \A s \in Requests : c.ans[s] \in {<<>>, <<s>>}

\* The limit follows the streams that are over: each brings one credit, and none is
\* paid for twice, whichever path ends it (srvrun_grant_streams; RaiseIsReleases says
\* where the code departs from its own rule).  Three kinds of stream are counted for
\* what the code gives them.  A malformed CONNECT (srvrun_reject_wt_malformed) and a
\* request past the GOAWAY are released without a credit: unpaid.  The credit of a
\* CONNECT with a session comes with the ACK of its 200, when its slot is still
\* taken: early; it may come once more, when the stream is reset in a datagram that
\* ends a later stream too, since only the last of them closes its session.  A
\* CONNECT answered by a 429 may bring two as well: repeated while the 429 is in
\* flight it is refused (srvrun_refuse_unsendable), as the 429's reset ended the send
\* side.
CreditBounded ==
  LET over == {s \in c.closed \ c.unpaid : c.resp[s] = Nil} \cup c.early
  IN c.limit - Base - Cardinality(over) \in 0 .. Cardinality(c.busy \cup c.early)

\* The rule of the limit as srvrun_grant_streams states it, before a GOAWAY: "keeping
\* this invariant (raise == releases)" (srvrun_reannounce.c:33), so that the limit is
\* "in lockstep" with the slots of the table.  A stream is released when it is closed
\* and no response of it is left to be acknowledged.
RaiseIsReleases ==
  c.goaway = Nil => c.limit - Base = Cardinality({s \in c.closed : c.resp[s] = Nil})

\* No STREAM frame follows a RESET_STREAM of final size 0 (srvrun_rst.c), but for
\* the 429 of a CONNECT that finds no room: srvrun_reject_wt_busy queues its bytes
\* and resets the stream at once.
NoFrameAfterReset ==
  \A s \in Requests \ c.busy : c.resp[s] # Nil => s \notin c.zero

\* The end of a stream is told once to each party: the QPACK decoder acknowledges or
\* cancels it, never both and never twice, or the peer's encoder fails the connection
\* (qdec_settle), and the application hears exactly one ending of every body it began
\* to get (on_body with fin, or on_body_abort).
EndToldOnce ==
  \A s \in Requests :
    /\ c.qp[s] <= 1 /\ c.ends[s] <= 1
    /\ c.streamed /\ kind[s] = "get" /\ c.began[s] /\ s \in c.closed => c.ends[s] = 1
=============================================================================
