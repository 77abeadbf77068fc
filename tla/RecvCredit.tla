------------------------------ MODULE RecvCredit ------------------------------
(***************************************************************************)
(* What a connection receives: the receive windows of its WebTransport,    *)
(* raw QUIC and request body streams, the credit that is granted as they   *)
(* are delivered (MAX_STREAM_DATA, MAX_DATA), and the accounting that      *)
(* closes the connection of a peer that goes beyond it.                    *)
(*                                                                         *)
(* The client keeps within its limits.  Its frames are lost, repeated, cut *)
(* anew and overtake each other; what the server has processed it has      *)
(* acknowledged.  One step of the server handles one datagram with at most *)
(* one such frame, and everything srvrun does after it.                    *)
(***************************************************************************)
EXTENDS Integers, Sequences, FiniteSets, FiniteSetsExt

CONSTANTS
  Streams,     \* the client's streams
  Cases,       \* see below
  Cap,         \* WIRED_SRVLOOP_WT_BUF_CAP
  BodyCap,     \* BODYWIN_CAP
  InitData,    \* initial_max_data
  RxCap        \* WIRED_SRVLOOP_RXACCT_CAP

None == 0      \* no final size, no byte

\* kind: of each stream, "uni", "bidi", "raw" or "body"; size: of each stream with its
\* signal, 0 when it is not opened; may: what may happen, "connect" (the WebTransport
\* session opens), "hold" (the application holds streams back), "cut" (the client
\* resets streams and closes the session), "lose" (grants are lost).
VARIABLES
  case,        \* [kind, size, may], the same throughout a behaviour
  v,           \* the server's side
  cl           \* the client's side
vars == <<case, v, cl>>

kind == case.kind
size == case.size

Greater(x, y) == IF x > y THEN x ELSE y
Least(x, y)   == IF x < y THEN x ELSE y

\* Bytes of the stream that are its leading signal (srvloop_wt_sig_resolve).
Sig(s)  == IF kind[s] \in {"uni", "bidi"} THEN 1 ELSE 0
Body(s) == kind[s] = "body"
Room(s) == IF Body(s) THEN BodyCap ELSE Cap
Raw     == \E s \in Streams : kind[s] = "raw"

\* The limits of the transport parameters: bidi streams start at a request window.
FirstLimit(s) == IF kind[s] \in {"uni", "raw"} THEN Cap ELSE BodyCap

\* use: whether a slot holds the stream; base, buf: the window, a byte is its number
\* in the stream without the signal, from 1; done: delivered_len (a body delivers
\* what it consumes); adv: credit_advertised, the end of the window last granted;
\* told: fin_delivered, for a body BODYWIN_DONE.
Fresh(s) ==
  [use |-> "none", base |-> 0, buf |-> [i \in 1 .. Room(s) |-> None], done |-> 0,
   fin |-> FALSE, finOff |-> 0, told |-> FALSE,
   adv |-> IF Body(s) THEN BodyCap ELSE 0, hold |-> FALSE]

\* up: of the session; got: what the application was given; cut: streams that a
\* reset or the end of the session has ended; settled: a step has run since the
\* application last changed a hold.
Init ==
  /\ case \in Cases
  /\ cl = [sent |-> [s \in Streams |-> 0], limit |-> [s \in Streams |-> FirstLimit(s)],
           data |-> InitData, acked |-> [s \in Streams |-> {}], gone |-> {}]
  /\ v = [win |-> [s \in Streams |-> Fresh(s)],
          rx |-> [s \in Streams |-> [use |-> "none", high |-> 0, final |-> None]],
          bytes |-> 0, maxData |-> 0, reaped |-> 0, released |-> 0,
          up |-> IF Raw THEN "up" ELSE "none", err |-> FALSE, grants |-> {},
          got |-> [s \in Streams |-> <<>>], cut |-> {}, settled |-> TRUE]

-----------------------------------------------------------------------------
\* Receive accounting (srvloop_rxacct.c, srvloop_rxacct_frame.c, finalsize.c).

\* s takes a free entry, or one whose final size is known, which is retired.
rxacct_claim(rx, s) ==
  LET In    == {t \in Streams : rx[t].use = "in"}
      Known == {t \in In : rx[t].final # None}
      with  == [rx EXCEPT ![s] = [use |-> "in", high |-> 0, final |-> None]]
  IN CASE Cardinality(In) < RxCap -> {with}
       [] Cardinality(In) >= RxCap /\ Known # {} -> {[with EXCEPT ![t].use = "done"] : t \in Known}
       [] OTHER -> {rx}

\* Defect: a retired stream is given an entry again.
EntryForRetired(rx, s) == IF rx[s].use = "in" THEN {rx} ELSE rxacct_claim(rx, s)

\* srvloop_rxacct_entry: the entry of s, if it has one or can have one; a stream
\* whose entry was retired is counted in full.
srvloop_rxacct_entry(rx, s) == IF rx[s].use # "none" THEN {rx} ELSE rxacct_claim(rx, s)

\* rxacct_grow, finalsize_data: the bytes up to end were received.
rxacct_grow(w, s, end) ==
  LET high == Greater(w.rx[s].high, end)
  IN [w EXCEPT !.rx[s].high = high, !.bytes = @ + high - w.rx[s].high,
               !.err = @ \/ (w.rx[s].final # None /\ end > w.rx[s].final)]

\* finalsize_set: a final size does not change and is not below what was received.
finalsize_set(w, s, end) ==
  LET ok == IF w.rx[s].final # None THEN end = w.rx[s].final ELSE end >= w.rx[s].high
  IN IF ok THEN [w EXCEPT !.rx[s].final = end] ELSE [w EXCEPT !.err = TRUE]

\* rxacct_conn_error against the limit of srvrun_note_rx_limit.
rxacct_conn_error(w) ==
  [w EXCEPT !.err = @ \/ w.bytes > Greater(InitData, w.maxData)]

\* rxacct_stream, and rxacct_reset with the final size in f.hi.
rxacct_frame(w, f) ==
  CASE w.rx[f.s].use # "in" -> w
    [] f.type = "reset" -> rxacct_grow(finalsize_set(w, f.s, f.hi), f.s, f.hi)
    [] OTHER -> LET g == rxacct_grow(w, f.s, f.hi)
                IN IF f.fin THEN finalsize_set(g, f.s, f.hi) ELSE g

\* wired_srvloop_rx_final_known.
wired_srvloop_rx_final_known(w, s) == w.rx[s].final # None

-----------------------------------------------------------------------------
\* Receive windows (srvloop_wt_window.c, body_window.c).

\* The bytes in the window before the first one missing.
frontier(x) ==
  Max({k \in 0 .. Len(x.buf) : \A i \in 1 .. k : x.buf[i] # None})

\* The window n bytes on (wired_srvloop_wt_window_slide, bodywin_consume).
Slide(x, n) ==
  [x EXCEPT !.base = @ + n, !.done = x.base + n,
            !.buf = [i \in DOMAIN @ |-> IF i + n \in DOMAIN @ THEN @[i + n] ELSE None]]

\* srvloop_gather_wt_one, srvloop_gather_wt_uni_one with wired_srvloop_wt_window_accept:
\* n bytes at off (the signal does not count), of which those from base on that fit
\* are kept; what is copied is the end of the frame.
WtLand(x, off, n, fin) ==
  LET kept     == IF off >= x.base THEN n ELSE Greater(off + n - x.base, 0)
      at       == Greater(off, x.base) - x.base
      accepted == Least(kept, Greater(Cap - at, 0))
      first    == off + n - accepted
      landed   == [i \in 1 .. Cap |-> IF i \in at + 1 .. at + accepted
                                      THEN first + i - at ELSE x.buf[i]]
  IN [x EXCEPT !.buf = landed, !.fin = @ \/ fin, !.finOff = IF fin THEN off + n ELSE @]

\* bodywin_land: each byte in the window, the first FIN.
BodyLand(x, off, n, fin) ==
  LET new(i) == x.base + i \in off + 1 .. off + n /\ x.buf[i] = None
  IN [x EXCEPT !.buf = [i \in 1 .. BodyCap |-> IF new(i) THEN x.base + i ELSE @[i]],
               !.fin = @ \/ fin, !.finOff = IF fin /\ ~ x.fin THEN off + n ELSE @]

\* A WebTransport stream takes a slot with the frame that holds its signal, the
\* others with their first frame (wired_srvloop_wt_slot_claim, wt_uni_slot_for,
\* raw_land_uni, wired_srvloop_slot_for); no frame reopens a released stream.
Claimed(x, s, lo, hi) ==
  IF x.use = "none" /\ (Sig(s) = 0 \/ (lo = 0 /\ hi > 0)) THEN [x EXCEPT !.use = "open"] ELSE x

\* srvloop_gather_wt_uni_land, srvloop_gather_wt_one, raw_land_uni, route_land.
Land(w, f) ==
  LET s    == f.s
      x    == Claimed(w.win[s], s, f.lo, f.hi)
      from == Greater(f.lo, Sig(s))
      over == Body(s) /\ f.hi > x.base + BodyCap
  IN IF x.use # "open" THEN w
     ELSE [w EXCEPT !.err = @ \/ over,
                    !.win[s] = IF Body(s) THEN BodyLand(x, f.lo, f.hi - f.lo, f.fin)
                               ELSE WtLand(x, from - Sig(s), f.hi - from, f.fin)]

-----------------------------------------------------------------------------
\* Delivery.

\* bodywin_pump behind route_body_start: byte 1 is the HEADERS frame, bytes 2 and 3
\* are the header of the DATA frame, taken when both are there, the rest is payload.
bodywin_pump(w, s) ==
  LET x    == w.win[s]
      all  == x.base + frontier(x)
      to   == IF x.fin THEN Least(all, x.finOff) ELSE all
      next == IF to = 2 THEN 1 ELSE to
  IN IF x.use # "open" \/ x.told THEN w
     ELSE [w EXCEPT !.got[s] = @ \o SubSeq(x.buf, 1, next - x.base),
                    !.win[s] = [Slide(x, next - x.base) EXCEPT !.told = x.fin /\ next = x.finOff]]

\* Defect: the bytes of a stream that has ended leave the connection's total.
ReapForgets(w, s) == IF w.win[s].told THEN [w EXCEPT !.win[s].use = "closed"] ELSE w

\* srvrun_reap_wt_slot, srvrun_reap_wt_uni_slot.
srvrun_reap_wt_slot(w, s) ==
  IF w.win[s].told
  THEN [w EXCEPT !.win[s].use = "closed", !.reaped = @ + w.win[s].done] ELSE w

\* srvrun_offer_and_deliver_wt_slot (_uni_slot): the application gets what lies before
\* the first gap, and FIN with the last of it (srvrun_deliver_wt_stream_delta).
srvrun_offer_and_deliver_wt_slot(w, s) ==
  LET x     == w.win[s]
      n     == frontier(x)
      fin   == x.fin /\ x.base + n >= x.finOff
      ready == w.up = "up" /\ (x.base + n > x.done \/ (fin /\ ~ x.told))
  IN IF x.use # "open" \/ ~ ready THEN w
     ELSE srvrun_reap_wt_slot(
            [w EXCEPT !.got[s] = @ \o SubSeq(x.buf, 1 + x.done - x.base, n),
                      !.win[s] = [Slide(x, n) EXCEPT !.told = fin]], s)

DeliverOne(s, w) == IF Body(s) THEN bodywin_pump(w, s) ELSE srvrun_offer_and_deliver_wt_slot(w, s)
Deliver(w) == FoldSet(DeliverOne, w, Streams)

-----------------------------------------------------------------------------
\* Credit.

\* Defect: credit follows what was received, not what was delivered.
CeilingFromFrontier(x, s) == x.base + frontier(x) + Room(s)

\* srvrun_wt_slot_credit_ceiling; the end of the window for a body.
srvrun_wt_slot_credit_ceiling(x, s) == x.done + Room(s)

\* srvrun_req_credit_live.
srvrun_req_credit_live(x) == x.use = "open" /\ x.done > 0 /\ ~ x.told

\* Whether the slot's credit is looked at: a held stream is passed over, a bidi one
\* only after its first grant (srvrun_wt_bidi_held).
CreditLive(x, s) ==
  IF Body(s) THEN srvrun_req_credit_live(x)
  ELSE x.use = "open" /\ ~ (x.hold /\ (kind[s] = "bidi" => x.adv > 0))

\* A frame with a new limit overtakes the one before it.
Announced(grants, id, value) == {g \in grants : g[1] # id} \cup {<<id, value>>}

\* srvrun_grant_stream_credit, srvrun_grant_body_credit: the value is recorded, and
\* sent unless the final size is known (srvrun_send_max_stream_data).
GrantStream(s, w) ==
  LET x       == w.win[s]
      ceiling == srvrun_wt_slot_credit_ceiling(x, s)
  IN IF ~ (CreditLive(x, s) /\ ceiling > x.adv) THEN w
     ELSE [w EXCEPT !.win[s].adv = ceiling,
                    !.grants = IF wired_srvloop_rx_final_known(w, s) THEN @
                               ELSE Announced(@, s, ceiling)]

\* srvrun_wt_connect_slack, and the control stream's slot on raw QUIC: a window that
\* stays open as long as the session.
Slack(w) == CASE w.up # "up" -> 0 [] Raw -> Cap [] OTHER -> BodyCap

\* The share of s in the connection's ceiling (srvrun_wt_rx_delivered_total,
\* wt_slots_in_use, srvrun_req_slot_ceiling).
Share(x, s) ==
  IF x.use # "open" THEN 0
  ELSE x.done + IF Body(s) /\ ~ srvrun_req_credit_live(x) THEN 0 ELSE Room(s)

\* srvrun_conn_credit_moving: a session, a slot or a body that streams takes up credit.
srvrun_conn_credit_moving(w) ==
  \/ Slack(w) > 0
  \/ \E s \in Streams : IF Body(s) THEN srvrun_req_credit_live(w.win[s])
                        ELSE w.win[s].use = "open"

\* srvrun_grant_conn_credit.
srvrun_grant_conn_credit(w) ==
  LET ceiling == w.reaped + w.released + Slack(w)
                   + MapThenSumSet(LAMBDA s : Share(w.win[s], s), Streams)
  IN IF srvrun_conn_credit_moving(w) /\ ceiling > w.maxData
     THEN [w EXCEPT !.maxData = ceiling, !.grants = Announced(@, None, ceiling)] ELSE w

\* srvrun_grant_wt_credit, srvrun_grant_req_credit.
Grant(w) == FoldSet(GrantStream, srvrun_grant_conn_credit(w), Streams)

-----------------------------------------------------------------------------
\* What ends a stream early, after the grants of the step.

\* srvrun_wt_bidi_slot_free, srvrun_wt_uni_slot_free, wired_srvloop_slot_release: the
\* slot is given up; of a body what it consumed is added to req_body_released.
Free(s, w) ==
  [w EXCEPT !.win[s].use = "closed", !.cut = @ \cup {s},
            !.released = IF Body(s) THEN @ + w.win[s].done ELSE @]

\* srvrun_deliver_wt_reset_if_owned, srvrun_free_reset_reqs, reset_request_stream:
\* an answered request keeps its slot, a uni stream without one leaves no trace.
ApplyReset(w, s) ==
  LET x == w.win[s]
  IN CASE x.use = "open" /\ ~ (Body(s) /\ x.told) -> Free(s, w)
       [] x.use = "none" /\ kind[s] \in {"bidi", "body"} -> Free(s, w)
       [] OTHER -> w

\* srvrun_close_wt_on_stream_close with srvrun_reset_wt_bidi_if_owned (_uni_if_owned).
ApplyClose(w) ==
  [FoldSet(Free, w, {s \in Streams : ~ Body(s) /\ w.win[s].use = "open"}) EXCEPT !.up = "closed"]

\* srvrun_on_step_live: a packet that the accounting refuses closes the connection and
\* is not processed (step_refused); else the frame lands, everything there is to deliver is delivered, credit is granted, and what
\* ended is given up.
srvrun_on_step_live(f, rx) ==
  LET acct  == rxacct_conn_error(rxacct_frame([v EXCEPT !.rx = rx], f))
      land  == IF f.type = "data" /\ ~ acct.err THEN Land(acct, f) ELSE acct
      given == [Grant(Deliver(land)) EXCEPT !.settled = TRUE]
  IN CASE land.err -> land
       [] f.type = "reset"   -> ApplyReset(given, f.s)
       [] f.type = "close"   -> ApplyClose(given)
       [] f.type = "connect" -> [given EXCEPT !.up = "up", !.settled = FALSE]
       [] OTHER -> given

Step(f) ==
  /\ ~ v.err
  /\ IF f.type \in {"data", "reset"}
     THEN \E rx \in srvloop_rxacct_entry(v.rx, f.s) : v' = srvrun_on_step_live(f, rx)
     ELSE v' = srvrun_on_step_live([f EXCEPT !.s = CHOOSE s \in Streams : TRUE], v.rx)
  /\ UNCHANGED case

Frame(type, s, lo, hi, fin) == [type |-> type, s |-> s, lo |-> lo, hi |-> hi, fin |-> fin]

-----------------------------------------------------------------------------
\* The client and the network.

TotalSent == MapThenSumSet(LAMBDA s : cl.sent[s], Streams)

\* A byte more, within both limits; FIN goes with the last one.
Send(s) ==
  /\ ~ v.err /\ s \notin cl.gone /\ cl.sent[s] < Least(size[s], cl.limit[s])
  /\ TotalSent < cl.data
  /\ cl' = [cl EXCEPT !.sent[s] = @ + 1]
  /\ UNCHANGED <<case, v>>

\* A frame arrives, for the first time or again.  The first frame of a WebTransport
\* stream is not overtaken: a bidi frame that comes before it is not recognised as
\* WebTransport (docs/security/limitations/http3.md 1.8), a uni frame that does is
\* acknowledged and dropped (wt_uni_slot_for).  That of a uni stream is not repeated
\* while its slot is open (see HeardOnce of WtSessions).
Arrive(s, lo, hi, fin) ==
  /\ 0 < hi /\ hi <= cl.sent[s] /\ (lo < hi \/ (lo = hi /\ fin)) /\ (fin => hi = size[s])
  /\ Sig(s) > 0 /\ v.win[s].use = "none" => lo = 0
  /\ kind[s] = "uni" /\ v.win[s].use = "open" => lo > 0
  /\ Step(Frame("data", s, lo, hi, fin))
  /\ cl' = [cl EXCEPT !.acked[s] = @ \cup (lo .. hi - 1) \cup IF fin THEN {hi} ELSE {}]

\* The client gives a stream up; the RESET_STREAM arrives.
ClientReset(s) ==
  /\ "cut" \in case.may /\ s \notin cl.gone /\ cl.sent[s] > 0 /\ size[s] \notin cl.acked[s]
  /\ cl' = [cl EXCEPT !.gone = @ \cup {s}]
  /\ UNCHANGED <<case, v>>

ArriveReset(s) ==
  /\ s \in cl.gone
  /\ Step(Frame("reset", s, 0, cl.sent[s], FALSE))
  /\ cl' = [cl EXCEPT !.acked[s] = 0 .. size[s]]

\* The CONNECT of the session, and the end of its stream.
Connect ==
  /\ "connect" \in case.may /\ v.up = "none"
  /\ Step(Frame("connect", None, 0, 0, FALSE))
  /\ UNCHANGED cl

Close ==
  /\ "cut" \in case.may /\ v.up = "up" /\ ~ Raw
  /\ Step(Frame("close", None, 0, 0, FALSE))
  /\ cl' = [cl EXCEPT !.gone = @ \cup {s \in Streams : ~ Body(s) /\ size[s] \notin cl.acked[s]}]

\* A datagram without stream data.
Poke == Step(Frame("none", None, 0, 0, FALSE)) /\ UNCHANGED cl

GrantArrives(g) ==
  /\ g \in v.grants
  /\ v' = [v EXCEPT !.grants = @ \ {g}]
  /\ cl' = IF g[1] = None THEN [cl EXCEPT !.data = Greater(@, g[2])]
           ELSE [cl EXCEPT !.limit[g[1]] = Greater(@, g[2])]
  /\ UNCHANGED case

GrantLost(g) ==
  /\ "lose" \in case.may /\ g \in v.grants
  /\ v' = [v EXCEPT !.grants = @ \ {g}]
  /\ UNCHANGED <<case, cl>>

-----------------------------------------------------------------------------
\* The application and the response.

\* wired_server_wt_stream_hold.
wired_server_wt_stream_hold(s, hold) ==
  /\ "hold" \in case.may /\ v.up = "up" /\ v.win[s].use = "open" /\ ~ Body(s) /\ v.win[s].hold # hold
  /\ v' = [v EXCEPT !.win[s].hold = hold, !.settled = FALSE]
  /\ UNCHANGED <<case, cl>>

\* srvrun_resp_reap: the response is acknowledged, wired_srvloop_slot_release.
srvrun_resp_reap(s) ==
  /\ Body(s) /\ v.win[s].use = "open" /\ v.win[s].told
  /\ v' = [v EXCEPT !.win[s].use = "closed", !.released = @ + v.win[s].done]
  /\ UNCHANGED <<case, cl>>

Next ==
  \/ \E s \in Streams :
       \/ Send(s) \/ ClientReset(s) \/ ArriveReset(s) \/ srvrun_resp_reap(s)
       \/ \E lo, hi \in 0 .. cl.sent[s], fin \in BOOLEAN : Arrive(s, lo, hi, fin)
       \/ \E hold \in BOOLEAN : wired_server_wt_stream_hold(s, hold)
  \/ Connect \/ Close \/ Poke
  \/ \E g \in v.grants : GrantArrives(g) \/ GrantLost(g)

Spec == Init /\ [][Next]_vars

-----------------------------------------------------------------------------
\* Every variable has its type.
TypeOK ==
  /\ case \in Cases
  /\ \A s \in Streams :
       /\ v.win[s].use \in {"none", "open", "closed"}
       /\ DOMAIN v.win[s].buf = 1 .. Room(s)
       /\ v.rx[s].use \in {"none", "in", "done"}
       /\ cl.sent[s] \in 0 .. size[s] /\ cl.acked[s] \subseteq 0 .. size[s]
  /\ v.up \in {"none", "up", "closed"} /\ v.err \in BOOLEAN /\ v.settled \in BOOLEAN
  /\ \A g \in v.grants : g[1] \in Streams \cup {None} /\ g[2] \in Nat

\* A byte that was acknowledged is in the window or was delivered, in its place, and
\* the end of the stream is known and told after the last byte: a client never sends
\* again what it has seen acknowledged, so a byte that a full window turns away is
\* gone for good (server_tp.h: "an unfillable stream gap").
AckedIsKept ==
  \A s \in Streams \ (v.cut \cup cl.gone) :
    LET x == v.win[s]
        bytes == {o - Sig(s) + 1 : o \in cl.acked[s] \cap (Sig(s) .. size[s] - 1)}
    IN v.err \/
       /\ v.got[s] = [i \in 1 .. x.done |-> i]
       /\ \A n \in bytes : n <= x.done \/ (x.use = "open" /\ n - x.base <= Len(x.buf)
                                            /\ x.buf[n - x.base] = n)
       /\ size[s] \in cl.acked[s] => x.use # "none" /\ x.fin
       /\ x.told => x.done = size[s] - Sig(s)

\* A client that keeps to its limits is never closed for a flow control or final
\* size error (rxacct_conn_error, finalsize_set, route_land).
NoFalseClose == ~ v.err

\* Nothing is under way, the session is up, and no stream is held.
Quiet ==
  /\ v.grants = {} /\ v.settled /\ ~ v.err /\ ("connect" \in case.may => v.up # "none")
  /\ \A s \in Streams :
       /\ v.win[s].use = "open" => ~ v.win[s].hold
       /\ 0 .. cl.sent[s] - 1 \subseteq cl.acked[s]
       /\ (cl.sent[s] > 0 /\ cl.sent[s] = size[s]) \/ s \in cl.gone => size[s] \in cl.acked[s]

Unfinished ==
  {s \in Streams \ cl.gone : cl.sent[s] < size[s] /\ (Body(s) \/ v.up = "up")}

\* When everything sent has been delivered and every grant has arrived, each stream
\* has room for a byte more, and so has the connection.
StreamRoom == Quiet => \A s \in Unfinished : cl.limit[s] > cl.sent[s]
ConnRoom   == Quiet /\ Unfinished # {} => cl.data > TotalSent
=============================================================================
