------------------------------ MODULE WtSessions ------------------------------
(***************************************************************************)
(* The WebTransport sessions of one HTTP/3 connection and their streams:   *)
(* the session slots and the generations that tell a reused slot from the  *)
(* session a reference was taken for, the tables of receive slots, the     *)
(* send slots, and everything that ends a stream or a session.             *)
(*                                                                         *)
(* A datagram is one step: its frames land (srvloop), then                 *)
(* srvrun_live_streams offers and delivers, answers STOP_SENDING, hands    *)
(* resets to the application and closes sessions, and srvrun_sess_on_step  *)
(* opens the session of a CONNECT that completed.  The step is a pipeline  *)
(* of operators on the connection w, in the order of the calls.            *)
(*                                                                         *)
(* A stream is two pieces: 0, which starts with the signal that names the  *)
(* session, and 1, which carries the FIN.  The network repeats and         *)
(* reorders them, and piece 0 may come in two frames, cut inside the       *)
(* signal: its type alone, then the session id and the bytes.              *)
(***************************************************************************)
EXTENDS Integers, Sequences, FiniteSets

CONSTANTS
  Sessions,   \* CONNECT stream ids
  Homes,      \* the sessions that the streams' signals name
  WtStreams,    \* ids of the WebTransport streams
  KindOf,     \* bidi, uni: opened by the client; local: a bidi one of ours
  SessSlots,      \* session slots, 1 .. SRVRUN_MAX_WT_SESSIONS
  RxSlots,    \* receive slots
  TableOf,    \* whether a receive slot is in wt_streams or wt_uni_streams
  TxCap,      \* SRVRUN_WT_SEND_SLOTS
  Wrap,       \* 2^32: generations count modulo it
  FirstGen,   \* the generation given last before the connection began
  Split,      \* streams whose signal may come in two frames
  UniRepeats, \* the first piece of an open uni stream may be repeated
  NoId

ASSUME WtAssumption ==
  /\ SessSlots \subseteq Nat \ {0} /\ RxSlots \subseteq Nat /\ TxCap \in Nat
  /\ NoId \notin Sessions /\ Homes \subseteq [WtStreams -> Sessions]
  /\ Split \subseteq WtStreams
  /\ KindOf \in [WtStreams -> {"bidi", "uni", "local"}]
  /\ TableOf \in [RxSlots -> {"bidi", "uni"}]
  /\ Wrap \in Nat \ {0, 1} /\ FirstGen \in 0 .. Wrap - 1

VARIABLES w, home   \* the connection; the session a client's stream names
wtVars == <<w, home>>

\* A free receive slot; owner 0: not offered to a session yet.
FreeRx == [use |-> FALSE, s |-> NoId, got |-> {}, dlv |-> 0, owner |-> 0,
           to |-> NoId, guess |-> FALSE]
\* srvloop_wt_slot_claim_at: a slot for the stream s, nothing of it delivered.
\* to and guess are histories: the session the stream was given to, and whether
\* its signal was incomplete then.
srvloop_wt_slot_claim_at(s, got, owner, to) ==
  [use |-> TRUE, s |-> s, got |-> got, dlv |-> 0, owner |-> owner,
   to |-> to, guess |-> FALSE]
FreeTx == [use |-> FALSE, owner |-> 0, to |-> NoId]

\* id: the active sessions; pend: the session that latched wt_close_pending.
\* refs, heard, stray and over are histories: every reference taken, the pieces
\* delivered, the streams of which a session heard that were not given to it, the
\* times a send part ended; and so is to in a send slot, the session it was claimed for.
WtInit ==
  /\ home \in Homes
  /\ w = [id |-> [k \in SessSlots |-> NoId], gen |-> [k \in SessSlots |-> 0],
          pend |-> [k \in SessSlots |-> NoId], last |-> FirstGen,
          rx |-> [i \in RxSlots |-> FreeRx], tx |-> [s \in WtStreams |-> FreeTx],
          closed |-> {}, sendDone |-> {}, opened |-> {}, used |-> {},
          refs |-> {}, heard |-> [s \in WtStreams |-> <<>>], stray |-> {},
          over |-> [s \in WtStreams |-> 0]]

-----------------------------------------------------------------------------
\* Session slots and references.

Active(v) == {k \in SessSlots : v.id[k] # NoId}

\* Defect: a generation wraps to 0.
GenWrapsToZero(g) == (g + 1) % Wrap

\* srvrun_wt_gen_next: u32, never 0.
srvrun_wt_gen_next(g) == (g + 1 + (IF g = Wrap - 1 THEN 1 ELSE 0)) % Wrap

\* wired_wt_ref_get: the slot is active and still holds the generation.
wired_wt_ref_get(v, r) == r.gen # 0 /\ v.id[r.slot] # NoId /\ v.gen[r.slot] = r.gen

\* srvrun_start_wt, srvrun_wt_session_open, srvrun_wt_latches_clear: the first
\* free slot; the application may ask to close in its on_session callback.
srvrun_start_wt(v, x, asks) ==
  LET k == CHOOSE j \in SessSlots \ Active(v) : \A h \in SessSlots \ Active(v) : j <= h
      g == srvrun_wt_gen_next(v.last)
  IN [v EXCEPT !.id[k] = x, !.gen[k] = g, !.last = g,
               !.pend[k] = IF asks THEN x ELSE NoId,
               !.used = @ \cup {x}, !.refs = @ \cup {[slot |-> k, gen |-> g, id |-> x]}]

-----------------------------------------------------------------------------
\* Send slots.

TxUse(v) == {s \in WtStreams : v.tx[s].use}

\* srvrun_wt_send_ended: no send slot, and none to come.
srvrun_wt_send_ended(v, s) ==
  /\ ~ v.tx[s].use
  /\ CASE KindOf[s] = "uni"   -> TRUE
       [] KindOf[s] = "local" -> s \in v.opened
       [] KindOf[s] = "bidi"  -> s \in v.sendDone

\* Defect: a stream that was reset may be answered afterwards.
ResetForgets(v, R) ==
  [v EXCEPT
     !.tx = [s \in WtStreams |-> IF s \in R THEN FreeTx ELSE v.tx[s]],
     !.over = [s \in WtStreams |->
       IF s \in R /\ ~ srvrun_wt_send_ended(v, s) THEN v.over[s] + 1 ELSE v.over[s]]]

\* srvrun_send_wt_busy_reset of the streams R: RESET_STREAM where the send part
\* has not ended; the send slots are released, the send parts recorded ended.
srvrun_send_wt_busy_reset(v, R) ==
  [v EXCEPT
     !.tx = [s \in WtStreams |-> IF s \in R THEN FreeTx ELSE v.tx[s]],
     !.sendDone = @ \cup {s \in R : KindOf[s] = "bidi"},
     !.over = [s \in WtStreams |->
       IF s \in R /\ ~ srvrun_wt_send_ended(v, s) THEN v.over[s] + 1 ELSE v.over[s]]]

-----------------------------------------------------------------------------
\* Receive slots.

RxOf(v, s) == {i \in RxSlots : v.rx[i].use /\ v.rx[i].s = s}
\* The first slot of a stream, as the finds scan.
RxFirst(v, s) == CHOOSE i \in RxOf(v, s) : \A j \in RxOf(v, s) : i <= j

\* Defect: a stream that ended is not remembered.
ReleaseForgets(v, I) ==
  [v EXCEPT !.rx = [i \in RxSlots |-> IF i \in I THEN FreeRx ELSE v.rx[i]]]

\* wired_srvloop_wt_slot_release, wired_srvloop_wt_uni_slot_release of the slots
\* I: the ids of client streams are remembered as closed.
wired_srvloop_wt_slot_release(v, I) ==
  [v EXCEPT !.rx = [i \in RxSlots |-> IF i \in I THEN FreeRx ELSE v.rx[i]],
            !.closed = @ \cup {s \in WtStreams : /\ KindOf[s] # "local"
                                                 /\ \E i \in I : v.rx[i].s = s}]

\* wired_srvloop_wt_slot_claim, wired_srvloop_wt_uni_slot_claim: not for a
\* stream that ended; a bidi stream that meets a full table is refused.
wired_srvloop_wt_slot_claim(v, s, got) ==
  LET free == {i \in RxSlots : ~ v.rx[i].use /\ TableOf[i] = KindOf[s]} IN
  IF s \in v.closed THEN v
  ELSE IF free # {}
  THEN [v EXCEPT !.rx[CHOOSE i \in free : \A j \in free : i <= j] =
                   srvloop_wt_slot_claim_at(s, got, 0, NoId)]
  ELSE IF KindOf[s] = "uni" THEN v
  ELSE [srvrun_send_wt_busy_reset(v, {s}) EXCEPT !.closed = @ \cup {s}]

\* srvloop_wt_sig_resolve: the signal is there once piece 0 is; a stream of ours
\* has none.
srvloop_wt_sig_resolve(s, got) == KindOf[s] = "local" \/ 0 \in got

\* srvloop_wt_slot_for, wt_uni_slot_for: a frame, at the start of its stream or
\* not, lands the pieces ps in the stream's slot; the first of a bidi stream looks
\* for that slot before it claims one.  Bytes that overtake the rest of the signal
\* are dropped.
Land(v, s, first, ps) ==
  IF first /\ KindOf[s] # "local" /\ (KindOf[s] = "uni" \/ RxOf(v, s) = {})
  THEN wired_srvloop_wt_slot_claim(v, s, ps)
  ELSE IF RxOf(v, s) = {} \/ ~ srvloop_wt_sig_resolve(s, v.rx[RxFirst(v, s)].got \cup ps)
  THEN v
  ELSE [v EXCEPT !.rx[RxFirst(v, s)].got = @ \cup ps]

\* Pieces that have arrived with none missing before them.
Frontier(got) == IF 0 \notin got THEN 0 ELSE IF 1 \notin got THEN 1 ELSE 2

\* Defect: a stream that names no open session goes to the first one.
OfferFirstActive(v, r) ==
  LET k == Active(v)
      j == CHOOSE i \in k : \A h \in k : i <= h
  IN IF r.use /\ r.owner = 0 /\ k # {}
     THEN [r EXCEPT !.owner = j, !.to = v.id[j], !.guess = ~ srvloop_wt_sig_resolve(r.s, r.got)]
     ELSE r

\* srvrun_offer_wt_slot, srvrun_wt_slot_for_signal: to the active session that the
\* signal names, if any; as long as the signal is incomplete, to the first.
srvrun_offer_wt_slot(v, r) ==
  LET whole == srvloop_wt_sig_resolve(r.s, r.got)
      k == IF whole THEN {j \in SessSlots : v.id[j] = home[r.s]} ELSE Active(v)
      j == CHOOSE i \in k : \A h \in k : i <= h
  IN IF r.use /\ r.owner = 0 /\ k # {}
     THEN [r EXCEPT !.owner = j, !.to = v.id[j], !.guess = ~ whole]
     ELSE r

\* srvrun_deliver_wt_stream_delta, srvrun_reap_wt_slot of every slot, rx being the
\* slots after their offer: the new pieces go to the owner, and the slot whose FIN was
\* delivered is reaped.
srvrun_deliver_wt_stream_delta(v, rx) ==
  LET live  == {i \in RxSlots : rx[i].use /\ rx[i].owner # 0 /\ v.id[rx[i].owner] # NoId}
      new   == [i \in RxSlots |-> IF i \in live THEN Frontier(v.rx[i].got) ELSE v.rx[i].dlv]
      fresh == {i \in live : new[i] > v.rx[i].dlv}
      said  == [s \in WtStreams |-> {i \in fresh : v.rx[i].s = s}]
      passed == [v EXCEPT
        !.rx = [i \in RxSlots |-> [rx[i] EXCEPT !.dlv = new[i]]],
        !.heard = [s \in WtStreams |->
          IF said[s] = {} THEN v.heard[s]
          ELSE LET i == CHOOSE j \in said[s] : TRUE
               IN v.heard[s] \o [n \in 1 .. new[i] - v.rx[i].dlv |-> v.rx[i].dlv + n - 1]],
        !.stray = @ \cup {v.rx[i].s : i \in {j \in fresh : v.id[rx[j].owner] # rx[j].to}}]
  IN wired_srvloop_wt_slot_release(passed, {i \in live : new[i] = 2})

\* srvrun_offer_and_deliver_wt_slot of every slot.
srvrun_offer_wt_streams(v) ==
  srvrun_deliver_wt_stream_delta(v, [i \in RxSlots |-> srvrun_offer_wt_slot(v, v.rx[i])])

-----------------------------------------------------------------------------
\* Ends of streams and sessions.

\* Defect: a stream keeps its receive slot when its session goes.
CloseKeepsStreams(v, K) ==
  LET S == {s \in WtStreams : v.tx[s].use /\ v.tx[s].owner \in K}
  IN [srvrun_send_wt_busy_reset(v, S) EXCEPT
        !.id = [k \in SessSlots |-> IF k \in K THEN NoId ELSE v.id[k]],
        !.gen = [k \in SessSlots |-> IF k \in K THEN 0 ELSE v.gen[k]]]

\* srvrun_close_wt_session_slot of the slots K: every stream that the session
\* owns is reset, its slots freed; the generation 0 makes references stale.
srvrun_close_wt_session_slot(v, K) ==
  LET I == {i \in RxSlots : v.rx[i].use /\ v.rx[i].owner \in K}
      S == {s \in WtStreams : \/ \E i \in I : v.rx[i].s = s
                              \/ v.tx[s].use /\ v.tx[s].owner \in K}
      r == wired_srvloop_wt_slot_release(srvrun_send_wt_busy_reset(v, S), I)
  IN [r EXCEPT !.id = [k \in SessSlots |-> IF k \in K THEN NoId ELSE v.id[k]],
               !.gen = [k \in SessSlots |-> IF k \in K THEN 0 ELSE v.gen[k]]]

\* srvrun_drain_wt_close_pending: the latch is cleared first, so a close that the
\* application asks for again in its on_session_close callback stays latched.
srvrun_drain_wt_close_pending(v, again) ==
  LET K == {k \in SessSlots : v.pend[k] # NoId} \cap Active(v) IN
  [srvrun_close_wt_session_slot(v, K) EXCEPT
     !.pend = [k \in SessSlots |-> IF k \in K \cap again THEN v.id[k] ELSE NoId]]

\* srvrun_answer_stream_stop on a WebTransport stream: its send slot ends
\* (srvrun_wtsend_stop), heard by its session unless the receive slot will say
\* so, or the send part of a stream without a slot does (srvrun_req_stop_early).
srvrun_answer_stream_stop(v, s) ==
  IF v.tx[s].use
  THEN [srvrun_send_wt_busy_reset(v, {s}) EXCEPT
          !.stray = IF RxOf(v, s) = {} /\ v.id[v.tx[s].owner] # v.tx[s].to
                    THEN @ \cup {s} ELSE @]
  ELSE IF KindOf[s] = "bidi" /\ RxOf(v, s) = {} THEN srvrun_send_wt_busy_reset(v, {s})
  ELSE v

\* srvrun_deliver_one_wt_reset: the receive slot goes, its session hears of it; a
\* request stream that was reset before it had a slot is closed (ReqStreams).
srvrun_deliver_one_wt_reset(v, s, stop) ==
  IF RxOf(v, s) # {}
  THEN LET r == v.rx[RxFirst(v, s)] IN
       [wired_srvloop_wt_slot_release(v, {RxFirst(v, s)}) EXCEPT
          !.stray = IF r.owner # 0 /\ v.id[r.owner] # r.to THEN @ \cup {s} ELSE @]
  ELSE IF KindOf[s] = "bidi" /\ ~ stop THEN [v EXCEPT !.closed = @ \cup {s}] ELSE v

-----------------------------------------------------------------------------
\* Actions.

\* A frame of a stream that starts it (first) ends in the signal or after piece 0.
Events == [what : {"data"}, s : WtStreams, first : {TRUE}, ps : {{}, {0}}]
          \cup [what : {"data"}, s : WtStreams, first : {FALSE}, ps : {{0}, {1}}]
          \cup [what : {"reset", "stop", "both"}, s : WtStreams]
          \cup [what : {"end"}, x : Sessions] \cup [what : {"nothing"}]

\* srvrun_on_step_live for a datagram that brings e.
LiveStreams(v, e, again) ==
  LET landed == IF e.what = "data" THEN Land(v, e.s, e.first, e.ps) ELSE v
      passed == srvrun_offer_wt_streams(landed)
      ended  == IF e.what = "end"
                THEN srvrun_close_wt_session_slot(passed, {k \in SessSlots : v.id[k] = e.x})
                ELSE passed
      answered == IF e.what \in {"stop", "both"}
                  THEN srvrun_answer_stream_stop(ended, e.s) ELSE ended
      told   == IF e.what \in {"reset", "stop", "both"}
                THEN srvrun_deliver_one_wt_reset(answered, e.s, e.what = "stop")
                ELSE answered
  IN srvrun_drain_wt_close_pending(told, again)

\* The stream exists for the peer: a stream of ours once it is open; frames that
\* end or begin inside a signal come from the streams of Split.
Known(e) ==
  /\ (e.what \in {"data", "reset", "stop", "both"} /\ KindOf[e.s] = "local") => e.s \in w.opened
  /\ (e.what = "data" /\ (e.ps = {} \/ (~ e.first /\ 0 \in e.ps))) => e.s \in Split

\* A datagram; the sessions in again are asked to close once more as they close.
WtStep(e, again) ==
  /\ Known(e)
  /\ ~ UniRepeats => ~ (/\ e.what = "data" /\ e.first /\ KindOf[e.s] = "uni"
                        /\ RxOf(w, e.s) # {})
  /\ w' = LiveStreams(w, e, again)
  /\ UNCHANGED home

\* srvrun_sess_on_step: a CONNECT completed; no room answers 429 (ReqStreams).
Connect(x, asks) ==
  /\ x \notin w.used
  /\ LET v == LiveStreams(w, [what |-> "nothing"], {}) IN
       /\ Active(v) # SessSlots
       /\ w' = srvrun_start_wt(v, x, asks)
  /\ UNCHANGED home

\* wired_server_wt_close_session: latched until the next step.
wired_server_wt_close_session(k) ==
  /\ k \in Active(w)
  /\ w' = [w EXCEPT !.pend[k] = w.id[k]]
  /\ UNCHANGED home

\* srvrun_wt_open_share_ok: the send slots are split among the active sessions.
srvrun_wt_open_share_ok(k) ==
  Cardinality({s \in TxUse(w) : w.tx[s].owner = k}) < TxCap \div Cardinality(Active(w))

\* wired_server_wt_open_bidi: a send slot and, if there is room, a receive slot
\* that needs no offer (srvrun_wt_preclaim_bidi_recv).
wired_server_wt_open_bidi(k, s) ==
  /\ k \in Active(w) /\ KindOf[s] = "local" /\ s \notin w.opened
  /\ srvrun_wt_open_share_ok(k)
  /\ Cardinality(TxUse(w)) < TxCap
  /\ LET free == {i \in RxSlots : ~ w.rx[i].use /\ TableOf[i] = "bidi"}
         v    == [w EXCEPT !.tx[s] = [use |-> TRUE, owner |-> k, to |-> w.id[k]],
                           !.opened = @ \cup {s}]
     IN w' = IF free = {} THEN v
             ELSE [v EXCEPT !.rx[CHOOSE i \in free : \A j \in free : i <= j] =
                     srvloop_wt_slot_claim_at(s, {}, k, w.id[k])]
  /\ home' = [home EXCEPT ![s] = w.id[k]]

\* srvrun_wt_owner: of the send slot, else of the receive slot.
Foreign(k, s) ==
  IF w.tx[s].use THEN w.tx[s].owner # k
  ELSE RxOf(w, s) # {} /\ w.rx[RxFirst(w, s)].owner # k

\* wired_server_wt_stream_reply: a client's bidi stream, its send part unused,
\* not another session's.
wired_server_wt_stream_reply(k, s) ==
  /\ k \in Active(w) /\ KindOf[s] = "bidi"
  /\ ~ w.tx[s].use /\ ~ srvrun_wt_send_ended(w, s) /\ ~ Foreign(k, s)
  /\ Cardinality(TxUse(w)) < TxCap
  /\ w' = [w EXCEPT !.tx[s] = [use |-> TRUE, owner |-> k, to |-> w.id[k]]]
  /\ UNCHANGED home

\* wired_server_wt_stream_reset: the send part ends; the receive part stays.
wired_server_wt_stream_reset(k, s) ==
  /\ k \in Active(w) /\ KindOf[s] # "uni" /\ (KindOf[s] = "local" => s \in w.opened)
  /\ ~ srvrun_wt_send_ended(w, s) /\ ~ Foreign(k, s)
  /\ w' = srvrun_send_wt_busy_reset(w, {s})
  /\ UNCHANGED home

\* srvrun_reap_one_wtsend: every byte and the FIN are acknowledged.
srvrun_reap_one_wtsend(s) ==
  /\ w.tx[s].use
  /\ w' = [w EXCEPT !.tx[s] = FreeTx, !.over[s] = @ + 1,
                    !.sendDone = IF KindOf[s] = "bidi" THEN @ \cup {s} ELSE @]
  /\ UNCHANGED home

WtNext ==
  \/ \E again \in SUBSET {k \in Active(w) : w.pend[k] # NoId}, e \in Events : WtStep(e, again)
  \/ \E x \in Sessions, asks \in BOOLEAN : Connect(x, asks)
  \/ \E k \in SessSlots : wired_server_wt_close_session(k)
  \/ \E k \in SessSlots, s \in WtStreams : \/ wired_server_wt_open_bidi(k, s)
                                           \/ wired_server_wt_stream_reply(k, s)
                                           \/ wired_server_wt_stream_reset(k, s)
  \/ \E s \in WtStreams : srvrun_reap_one_wtsend(s)

WtSpec == WtInit /\ [][WtNext]_wtVars
-----------------------------------------------------------------------------
\* Properties.

WtTypeOK ==
  /\ home \in [WtStreams -> Sessions]
  /\ w.id \in [SessSlots -> Sessions \cup {NoId}]
  /\ w.gen \in [SessSlots -> 0 .. Wrap - 1] /\ w.last \in 0 .. Wrap - 1
  /\ w.pend \in [SessSlots -> Sessions \cup {NoId}]
  /\ w.rx \in [RxSlots -> [use : BOOLEAN, s : WtStreams \cup {NoId}, got : SUBSET {0, 1},
                           dlv : 0 .. 2, owner : SessSlots \cup {0},
                           to : Sessions \cup {NoId}, guess : BOOLEAN]]
  /\ w.tx \in [WtStreams -> [use : BOOLEAN, owner : SessSlots \cup {0}, to : Sessions \cup {NoId}]]
  /\ {w.closed, w.sendDone, w.opened} \subseteq SUBSET WtStreams

\* A receive or send slot belongs to the session it was offered to or claimed
\* for, as long as it is in use, however often session slots are used again: a
\* session's end ends its streams; no session is closed by a request its
\* predecessor in the slot left behind; and bytes, FINs and resets of a stream have
\* reached no session but that one, while it was open (srvrun_wt_stream_owner: never
\* "one session's bytes to another").  It is the session that the stream's signal
\* names, except where the stream was offered while its signal was incomplete: the
\* code then takes the first active session (srvrun_wt_slot_for_signal, meant for
\* streams without a signal), whichever the signal turns out to name.
OwnerIsItsSession ==
  /\ \A i \in RxSlots : w.rx[i].use /\ w.rx[i].owner # 0 =>
       /\ w.id[w.rx[i].owner] = w.rx[i].to /\ w.rx[i].to # NoId
       /\ w.rx[i].to = home[w.rx[i].s] \/ w.rx[i].guess
  /\ \A s \in WtStreams : w.tx[s].use => w.id[w.tx[s].owner] = w.tx[s].to /\ w.tx[s].to # NoId
  /\ \A k \in SessSlots : w.pend[k] # NoId /\ w.id[k] # NoId => w.pend[k] = w.id[k]
  /\ w.stray = {}

\* A reference resolves as long as its session is open, and never to another
\* session (wired_wt_ref_get).
RefExact ==
  \A r \in w.refs : wired_wt_ref_get(w, r) <=> w.id[r.slot] = r.id

\* The send part of a stream ends once, by its FIN or one RESET_STREAM, and no
\* send slot is claimed for it afterwards (RFC 9000 3.1, 4.5: a second final
\* size is an error).
SendEndsOnce ==
  \A s \in WtStreams : w.over[s] <= 1 /\ (w.tx[s].use => w.over[s] = 0)

\* The application hears each byte of a stream once, in order.
HeardOnce == \A s \in WtStreams : w.heard[s] \in {<<>>, <<0>>, <<0, 1>>}
=============================================================================
