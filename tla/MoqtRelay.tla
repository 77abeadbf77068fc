------------------------------ MODULE MoqtRelay ------------------------------
(***************************************************************************)
(* The reliable relay of the MOQT hub: one publisher stream (a header,     *)
(* then Objects) forwarded to the streams of its subscribers through a     *)
(* ring of bytes with one cursor per subscriber (moqtrel.c and the files   *)
(* moqtrun_rel and moqtrun_cut).  A refused send is retried from the ring, *)
(* the publisher's receive credit is held while the ring is nearly full,   *)
(* and the part of an Object that is in so far goes out ahead of it.       *)
(*                                                                         *)
(* One action is one call of the hub: a delivery on the publisher's        *)
(* stream, a tick, a subscription that comes, goes or is updated.  What    *)
(* the sessions accept within a call is chosen: ok[i] sends (an open is    *)
(* one) on slot i before it refuses.  A byte is named by its offset in the *)
(* publisher's stream, the header is the byte 0, and an Object ID written  *)
(* anew for an Object in mid-stream is the negated offset of its byte.     *)
(***************************************************************************)
EXTENDS Integers, Sequences, FiniteSetsExt, SequencesExt

CONSTANTS
  Slots,     \* subscriber slots of the track
  W,         \* WIRED_SRVLOOP_WT_BUF_CAP, the receive window of the publisher
  Round,     \* WIRED_MOQTREL_ROUND_MAX, at most half a window
  FragMax,   \* WIRED_MOQTRUN_RELAY_FRAG_MAX, at most a window
  Ends,      \* where the Objects of the publisher's stream end
  Ranges,    \* the Location Filters: the first and the last Object wanted
  Edges      \* "head": the header may come alone though a subscriber starts in mid-stream;
             \* "lost": a FIN may come with the bytes that make the fragment too long

VARIABLES
  pub,       \* the publisher's stream: bytes delivered, its limit, its FIN
  r,         \* the relay entry and its ring
  sub        \* by slot: subscription, relay record, cursor, and the stream itself

relayVars == <<pub, r, sub>>

Cap == 3 * W
HdrLen == 1
Objects == 1..Len(Ends)
Total == Ends[Len(Ends)]
Begin(k) == IF k = 1 THEN HdrLen ELSE Ends[k - 1]

\* The end of the last whole Object of the first n bytes.
WholeEnd(n) == Max({HdrLen} \cup {Ends[k] : k \in {j \in Objects : Ends[j] <= n}})

Range2(from, to) == [k \in 1..(to - from) |-> from + k - 1]

NoRing ==
  [mode |-> "none", head |-> 0, tail |-> 0, buf |-> [x \in 0..(Cap - 1) |-> 0], held |-> FALSE,
   fin_seen |-> FALSE, waited |-> FALSE, whole |-> 0, frag |-> 0, poisoned |-> FALSE]

(***************************************************************************)
(* The ring (moqtrel.c).                                                   *)
(***************************************************************************)
rel_used(q) == q.tail - q.head
rel_free(q) == Cap - rel_used(q)
rel_sub_pins(s) == s.active /\ ~ s.shed
rel_sub_open(s) == rel_sub_pins(s) /\ ~ s.fin_done

\* moqtrel_append through moqtrun_rel_take: bytes that do not fit are counted and lost.
rel_take(q, bytes) ==
  IF Len(bytes) > rel_free(q) THEN q
  ELSE [q EXCEPT !.tail = @ + Len(bytes),
                 !.buf = [x \in 0..(Cap - 1) |->
                    LET k == (x - q.tail) % Cap IN
                    IF k < Len(bytes) THEN bytes[k + 1] ELSE @[x]]]

\* Bytes of the next round of a cursor, up to its End Object.
rel_next(q, s) ==
  Min({q.tail - s.sent, Round, Cap - (s.sent % Cap)}
        \cup (IF s.end = 0 THEN {} ELSE {s.end - s.sent}))

rel_reclaim(q, ss) ==
  [q EXCEPT !.head = Min({q.tail} \cup {ss[i].sent : i \in {j \in Slots : rel_sub_pins(ss[j])}})]

\* Defect: the publisher is held only once less than a window is free.
HoldLate(q) == rel_free(q) < W /\ ~ q.held
should_hold(q) == rel_free(q) < 2 * W /\ ~ q.held
should_release(q) == q.held /\ rel_used(q) <= W \div 2
awaits_sub(q) == ~ q.fin_seen /\ q.head = 0 /\ ~ q.waited

(***************************************************************************)
(* Location Filters.  A round carries the Objects between from and to.     *)
(***************************************************************************)
Between(x, from, to) == Min({to, Max({from, x})})
startobj_cut(s, from, to) == Between(Begin(s.start), from, to)
wire_cutoff(s, from, to) == Between(Ends[s.stop], from, to)

sub_forwards(s) == s.on /\ s.fwd

(***************************************************************************)
(* A cursor joins the ring.                                                *)
(***************************************************************************)
attach_sub(s, sent) ==
  [s EXCEPT !.active = TRUE, !.shed = FALSE, !.fin_done = FALSE, !.sent = sent,
            !.end = 0, !.lead = 0, !.before_start = FALSE]

opened(s, bytes) ==
  [s EXCEPT !.ok = @ - 1, !.set = TRUE, !.part = 0, !.got = <<0>> \o bytes, !.eof = "open"]

\* The stream of a subscriber there from the start opens with the first round, cut to
\* its Location Filter, its first Object re-framed; it ends here if the End Object is in.
relay_open_sub(s, to) ==
  LET cut == startobj_cut(s, HdrLen, to)
      end == wire_cutoff(s, cut, to)
      wire == Range2(cut, end)
      out == IF cut > HdrLen /\ wire # <<>> THEN [wire EXCEPT ![1] = - @] ELSE wire
  IN IF ~ sub_forwards(s) \/ s.ok = 0 THEN s
     ELSE [opened(s, out) EXCEPT
             !.reframe = cut = to /\ cut > HdrLen,
             !.expired = end < to, !.eof = IF end < to THEN "fin" ELSE @]

rel_attach_open(q, s) ==
  IF s.expired \/ ~ sub_forwards(s) \/ ~ s.set THEN s
  ELSE [attach_sub(s, q.tail) EXCEPT !.before_start = s.reframe]

\* A late subscriber: the saved header, then the ring from its first Object on.
late_wanted(q, s) == sub_forwards(s) /\ ~ s.set /\ ~ s.active /\ q.tail <= Cap

rel_replay(q, s) ==
  LET off == startobj_cut(s, HdrLen, q.tail)
      end == wire_cutoff(s, HdrLen, q.tail)
  IN IF ~ late_wanted(q, s) \/ off = q.tail \/ s.ok = 0 THEN s
     ELSE [attach_sub(opened(s, <<>>), off) EXCEPT
             !.lead = IF off > HdrLen THEN off ELSE 0,
             !.end = IF end < q.tail THEN end ELSE 0,
             !.expired = @ \/ end < q.tail]

\* Attached cursors leave head at the offset of the last of them.
AttachHead(q, ss, tt) ==
  LET new == {i \in Slots : tt[i].active /\ ~ ss[i].active}
  IN IF new = {} THEN q ELSE [q EXCEPT !.head = tt[CHOOSE i \in new : TRUE].sent]

late_attach(q, s) == IF q.head <= HdrLen THEN rel_replay(q, s) ELSE s

(***************************************************************************)
(* The drain: a round for every open cursor, then reclaim, release, done.  *)
(***************************************************************************)
ends_at(q, s, at) == at = s.end \/ (q.fin_seen /\ at = q.tail)

\* What is left of a cursor that is given up or inactive is not read again, nor is what a
\* reset stream carried.
Forget(s) == [s EXCEPT !.sent = 0, !.end = 0, !.lead = 0, !.before_start = FALSE, !.got = <<>>]

rel_shed(s) == [Forget(s) EXCEPT !.eof = "reset", !.set = FALSE, !.shed = TRUE]

send_lead(s) ==
  IF s.lead = 0 \/ s.ok = 0 THEN s
  ELSE [s EXCEPT !.got = Append(@, - s.lead), !.sent = @ + 1, !.lead = 0, !.ok = @ - 1]

\* The next bytes of the ring, the FIN with the last of them or by itself.
send_ring(q, s) ==
  LET n == rel_next(q, s)
      fin == ends_at(q, s, s.sent + n)
      bytes == [k \in 1..n |-> q.buf[(s.sent + k - 1) % Cap]]
  IN IF s.lead # 0 \/ s.ok = 0 \/ (n = 0 /\ ~ fin) THEN s
     ELSE [s EXCEPT !.got = @ \o bytes, !.sent = @ + n, !.ok = @ - 1,
                    !.fin_done = fin, !.eof = IF fin THEN "fin" ELSE @]

\* A cursor is given up when its subscription does not take the stream any more, or,
\* with bytes pending, by the stall or the delivery timeout (a cursor that had sent all
\* there was and then idled is given up when the next bytes arrive).
drain_sub(q, s, timeout) ==
  CASE ~ rel_sub_open(s) -> s
    [] rel_sub_open(s) /\ (~ s.fwd \/ (timeout /\ s.sent < q.tail)) -> rel_shed(s)
    [] OTHER -> send_ring(q, send_lead(s))

maybe_release(q) == [q EXCEPT !.held = @ /\ ~ should_release(q)]

\* A ring that goes back to its pool is reset when it is bound again.
return_ring(q, mode) ==
  [NoRing EXCEPT !.mode = mode, !.whole = q.whole, !.poisoned = q.poisoned]

maybe_done(q, ss) ==
  IF \E i \in Slots : rel_sub_open(ss[i]) THEN q
  ELSE return_ring(q, IF q.fin_seen THEN "done" ELSE "lossy")

\* moqtrun_rel_drain_one after its two loops over the slots, which left them as tt.
drain_close(q, ss, tt) ==
  LET p == AttachHead(q, ss, tt)
  IN IF awaits_sub(p) THEN p ELSE maybe_done(maybe_release(rel_reclaim(p, tt)), tt)

maybe_hold(q) == [q EXCEPT !.held = @ \/ (q.mode = "ring" /\ should_hold(q))]

(***************************************************************************)
(* Cut-through: the Object at the end of what is in, as far as it is in.   *)
(***************************************************************************)
cut_at_end(q, s) == s.sent = q.tail /\ s.lead = 0 /\ ~ s.before_start

cut_takes(q, s) ==
  /\ q.frag # 0 /\ sub_forwards(s) /\ s.set /\ ~ s.reframe /\ ~ s.expired
  /\ Begin(s.start) <= q.whole /\ q.whole < Ends[s.stop]
  /\ rel_sub_open(s) /\ cut_at_end(q, s)

cut_push(q, s) ==
  IF ~ cut_takes(q, s) \/ s.part = q.frag \/ s.ok = 0 THEN s
  ELSE [s EXCEPT !.got = @ \o Range2(q.whole + s.part, q.whole + q.frag),
                 !.part = q.frag, !.ok = @ - 1]

cut_ring_take(s, n) == IF n = 0 \/ ~ rel_sub_open(s) THEN s ELSE [s EXCEPT !.sent = @ + s.part]
cut_settle(s, n) == IF n = 0 THEN s ELSE [s EXCEPT !.part = 0]

\* The start and the End Object of an open cursor in a round of the ring at base.
rel_cut(s, base, from, to) ==
  LET start == startobj_cut(s, from, to)
      stop == wire_cutoff(s, from, to)
      cut == IF ~ s.before_start THEN s
             ELSE [s EXCEPT !.sent = base + start - from, !.before_start = start = to,
                            !.lead = IF start = to THEN 0 ELSE start]
  IN IF ~ rel_sub_open(s) THEN s
     ELSE IF s.end # 0 \/ stop = to THEN cut
     ELSE [cut EXCEPT !.end = base + stop - from, !.expired = TRUE]

(***************************************************************************)
(* The hub's calls.  The relay keeps the tail past the last whole Object   *)
(* as its fragment; one too long, or with no buffer free for it (dry),     *)
(* poisons the relay.                                                      *)
(***************************************************************************)
save_frag(q, pos, dry) ==
  LET n == pos - WholeEnd(pos)
      lost == n >= FragMax \/ (n > 0 /\ q.frag = 0 /\ dry)
  IN [q EXCEPT !.whole = WholeEnd(pos), !.frag = IF lost THEN 0 ELSE n, !.poisoned = lost]

\* A reset overtakes a FIN of the same call: both only mark the send slot.
relay_reset_one_sub(s) ==
  IF s.set /\ s.on THEN [Forget(s) EXCEPT !.eof = "reset", !.set = FALSE] ELSE s

\* Once poisoned, the relay resets every stream and only absorbs what still comes; not so
\* one that was freed a moment earlier.
end_poisoned(q, ss) ==
  IF ~ q.poisoned \/ q.mode = "done" THEN [q |-> q, s |-> ss]
  ELSE [q |-> return_ring(q, "sunk"), s |-> [i \in Slots |-> relay_reset_one_sub(ss[i])]]

\* The server loop keeps the publisher's credit a window ahead unless it is held.
Granted(q, pos, fin) ==
  [pos |-> pos, fin |-> fin, limit |-> IF q.held THEN pub.limit ELSE pos + W]

After(call, pos, fin) ==
  r' = call.q /\ sub' = call.s /\ pub' = Granted(call.q, pos, fin)

(***************************************************************************)
(* Within a call the slots do not depend on each other: a turn is what the *)
(* call does to one of them, over what its session accepts, and what the   *)
(* call then does to the ring is computed from all of them.                *)
(***************************************************************************)
\* What a slot can send at most in a call: open, re-framed ID, bytes of the ring, a part.
Sends(s) ==
  CASE ~ s.on \/ s.shed \/ s.fin_done -> 0
    [] OTHER -> IF ~ s.active THEN 4 ELSE IF s.lead # 0 \/ s.before_start THEN 3 ELSE 2

Turns(turn(_, _)) ==
  LET outcomes(s) ==
        {[turn([s EXCEPT !.ok = ok], FALSE) EXCEPT !.ok = 0] : ok \in 0..Sends(s)}
          \cup (IF rel_sub_open(s) THEN {turn(s, TRUE)} ELSE {})
      may == UNION {{i} \X outcomes(sub[i]) : i \in Slots}
  IN {tt \in [Slots -> {m[2] : m \in may}] : \A i \in Slots : <<i, tt[i]>> \in may}

\* moqtrun_relay_start: the first delivery, at least the header.
relay_start(n, dry) ==
  LET q0 == [r EXCEPT !.mode = "ring"]
      q1 == save_frag(rel_take(q0, Range2(0, WholeEnd(n))), n, dry)
      turn(s, late) == cut_push(q1, rel_attach_open(q1, relay_open_sub(s, q1.whole)))
  IN /\ r.mode = "none" /\ n \in 1..(pub.limit - pub.pos)
     /\ "head" \in Edges \/ q1.whole > HdrLen \/ \A i \in Slots : sub[i].on => sub[i].start = 1
     /\ \E tt \in Turns(turn) : After(end_poisoned(AttachHead(q1, sub, tt), tt), n, FALSE)

\* moqtrun_relay_continue: a later delivery on a ring-backed relay.  A FIN inside an
\* Object of which a part went out is not forwarded but poisons the relay.
relay_continue(n, fin, dry) ==
  LET pos == pub.pos + n
      q0 == save_frag(r, pos, dry)
      whole == Range2(r.whole, q0.whole)
      torn == fin /\ q0.frag # 0 /\ \E i \in Slots : sub[i].part # 0
      q1 == [rel_take(q0, whole) EXCEPT !.fin_seen = @ \/ (fin /\ ~ torn),
               !.frag = IF torn THEN 0 ELSE @, !.poisoned = @ \/ torn]
      cut(s) == rel_cut(cut_ring_take(s, Len(whole)), r.tail, r.whole, q0.whole)
      drained(s, late) ==
        cut_settle(drain_sub(q1, late_attach(q1, cut(s)), late), Len(whole))
      turn(s, late) ==
        IF fin /\ ~ torn THEN drained(s, late) ELSE cut_push(q1, drained(s, late))
  IN /\ r.mode = "ring" /\ ~ pub.fin
     /\ n \in 0..(pub.limit - pub.pos) /\ pos <= Total /\ (n > 0 \/ fin)
     /\ "lost" \in Edges \/ ~ (fin /\ q0.poisoned)
     /\ dry => r.frag = 0 /\ q0.poisoned
     /\ \E tt \in Turns(turn) :
          After(end_poisoned(maybe_hold(drain_close(q1, sub, tt)), tt), pos, fin)

\* moqtrun_rel_tick_relay.
rel_tick ==
  LET turn(s, late) == cut_push(r, drain_sub(r, late_attach(r, s), late))
  IN /\ r.mode = "ring"
     /\ \E tt \in Turns(turn) :
          After([q |-> drain_close(r, sub, tt), s |-> tt], pub.pos, pub.fin)

\* A subscription takes a free slot.
Join(i, range) ==
  /\ ~ sub[i].on /\ r.mode \in {"none", "ring"}
  /\ sub' = [sub EXCEPT ![i].on = TRUE, ![i].fwd = TRUE, ![i].start = range[1],
                        ![i].stop = range[2], ![i].got = <<>>, ![i].eof = "none"]
  /\ UNCHANGED <<pub, r>>

\* It goes: the relay forgets its stream, its cursor is inactive; the part sent and the
\* marks of its start and End Object stay with the slot.
relays_clear_sub(i) ==
  /\ sub[i].on /\ r.mode = "ring"
  /\ sub' = [sub EXCEPT ![i] = [Forget(@) EXCEPT
               !.on = FALSE, !.set = FALSE, !.active = FALSE, !.shed = FALSE, !.fin_done = FALSE,
               !.eof = "none"]]
  /\ UNCHANGED <<pub, r>>

\* REQUEST_UPDATE turns FORWARD off.
ForwardOff(i) ==
  /\ sub_forwards(sub[i]) /\ r.mode = "ring"
  /\ sub' = [sub EXCEPT ![i].fwd = FALSE]
  /\ UNCHANGED <<pub, r>>

\* WIRED_MOQTREL_STALL_MS passed since the ring was bound.
WaitOver ==
  /\ r.mode = "ring" /\ awaits_sub(r)
  /\ r' = [r EXCEPT !.waited = TRUE]
  /\ UNCHANGED <<pub, sub>>

\* The publisher's session ends, or the track is published anew: the streams are reset
\* and the ring is dropped without a word to the publisher.
PublisherGone ==
  /\ r.mode = "ring"
  /\ r' = return_ring(r, "gone")
  /\ sub' = [i \in Slots |-> relay_reset_one_sub(sub[i])]
  /\ UNCHANGED pub

Init ==
  /\ pub = [pos |-> 0, limit |-> W, fin |-> FALSE]
  /\ r = NoRing
  /\ sub = [i \in Slots |->
              [on |-> FALSE, fwd |-> FALSE, start |-> 1, stop |-> 1, set |-> FALSE, part |-> 0,
               expired |-> FALSE, reframe |-> FALSE, active |-> FALSE, shed |-> FALSE,
               fin_done |-> FALSE, sent |-> 0, end |-> 0, lead |-> 0, before_start |-> FALSE,
               got |-> <<>>, eof |-> "none", ok |-> 0]]

Next ==
  \/ \E n \in 1..W, dry \in BOOLEAN : relay_start(n, dry)
  \/ \E n \in 0..W, fin \in BOOLEAN, dry \in BOOLEAN : relay_continue(n, fin, dry)
  \/ rel_tick
  \/ \E i \in Slots, range \in Ranges : Join(i, range)
  \/ \E i \in Slots : relays_clear_sub(i) \/ ForwardOff(i)
  \/ WaitOver \/ PublisherGone

Spec == Init /\ [][Next]_relayVars

(***************************************************************************)
(* Properties.                                                             *)
(***************************************************************************)
Slot ==
  [on : BOOLEAN, fwd : BOOLEAN, start : Objects, stop : Objects, set : BOOLEAN,
   part : 0..FragMax, expired : BOOLEAN, reframe : BOOLEAN, active : BOOLEAN, shed : BOOLEAN,
   fin_done : BOOLEAN, sent : 0..(2 * Total), end : 0..Total, lead : 0..Total,
   before_start : BOOLEAN, got : Seq((- Total)..Total),
   eof : {"none", "open", "fin", "reset"}, ok : {0}]

\* Every variable has its type.
TypeOK ==
  /\ pub \in [pos : 0..Total, limit : 0..(Total + W), fin : BOOLEAN]
  /\ r \in [mode : {"none", "ring", "lossy", "done", "sunk", "gone"}, head : 0..Total,
            tail : 0..Total, buf : [0..(Cap - 1) -> 0..Total], held : BOOLEAN,
            fin_seen : BOOLEAN, waited : BOOLEAN, whole : 0..Total, frag : 0..FragMax,
            poisoned : BOOLEAN]
  /\ sub \in [Slots -> Slot]

\* What the stream of subscription s carries when it gets its Objects up to byte to.
Wanted(s, to) ==
  LET from == Between(Begin(s.start), HdrLen, to)
      bytes == Range2(from, Between(Ends[s.stop], from, to))
  IN <<0>> \o (IF from > HdrLen /\ bytes # <<>> THEN [bytes EXCEPT ![1] = - @] ELSE bytes)

\* A subscriber's stream carries the header and then exactly its Objects, byte for byte in
\* their place whatever was refused, retried, pushed ahead, wrapped or joined late; it ends
\* with a FIN only after the last of them (moqtrun_rel.c: "bytes are delayed, never dropped").
RelayExact ==
  \A i \in Slots : LET s == sub[i] IN
    /\ s.eof # "none" => IsPrefix(s.got, Wanted(s, Total))
    /\ s.eof = "fin" => /\ s.got = Wanted(s, r.whole)
                        /\ pub.fin \/ Ends[s.stop] < r.whole
=============================================================================
