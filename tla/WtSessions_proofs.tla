--------------------------- MODULE WtSessions_proofs ---------------------------
(***************************************************************************)
(* The WebTransport sessions of a connection, for every number of sessions,*)
(* streams and slots: streams stay with their session while session,       *)
(* receive and send slots are used again; the send part of a stream ends   *)
(* once; references are exact; and bytes are heard once and in order.      *)
(***************************************************************************)
EXTENDS WtSessions, ModLemmas, SequenceTheorems, TLAPS

Kinds == {"bidi", "uni", "local"}
Rx == [use : BOOLEAN, s : WtStreams \cup {NoId}, got : SUBSET {0, 1}, dlv : 0 .. 2,
       owner : SessSlots \cup {0}, to : Sessions \cup {NoId}, guess : BOOLEAN]
Ids == Sessions \cup {NoId}
Tx == [use : BOOLEAN, owner : SessSlots \cup {0}, to : Ids]
Ref == [slot : SessSlots, gen : 0 .. Wrap - 1, id : Sessions]
Heards == {<<>>, <<0>>, <<0, 1>>}
Conn ==
  [id : [SessSlots -> Ids], gen : [SessSlots -> 0 .. Wrap - 1], pend : [SessSlots -> Ids],
   last : 0 .. Wrap - 1, rx : [RxSlots -> Rx], tx : [WtStreams -> Tx],
   closed : SUBSET WtStreams, sendDone : SUBSET WtStreams, opened : SUBSET WtStreams,
   used : SUBSET Sessions, refs : SUBSET Ref,
   heard : [WtStreams -> Seq({0, 1})], stray : SUBSET WtStreams, over : [WtStreams -> Nat]]

\* A stream that has an owner is with the session it was given to, the one that its signal
\* names unless it was given before the signal was whole.
Placed(v, h, r) ==
  r.owner # 0 => v.id[r.owner] = r.to /\ r.to # NoId /\ (r.to = h[r.s] \/ r.guess)

\* A receive slot in use: of a stream, which is open if it is one of ours, and with its
\* session once it has an owner; delivered no further than arrived.
RxSound(v, h, r) ==
  r.use => /\ r.s \in WtStreams
           /\ r.dlv <= Frontier(r.got)
           /\ KindOf[r.s] = "local" => r.s \in v.opened
           /\ Placed(v, h, r)

\* A send slot in use belongs to the session it was claimed for, and its send part has
\* not ended; a send part that has ended is seen to have.
TxSound(v, s) ==
  /\ v.tx[s].use =>
       /\ v.tx[s].owner \in SessSlots
       /\ v.id[v.tx[s].owner] = v.tx[s].to /\ v.tx[s].to # NoId
       /\ v.over[s] = 0 /\ KindOf[s] # "uni"
       /\ KindOf[s] = "local" => s \in v.opened
       /\ KindOf[s] = "bidi" => s \notin v.sendDone
  /\ v.over[s] \in {0, 1}
  /\ v.over[s] = 1 => srvrun_wt_send_ended(v, s)

PendSound(v) == \A k \in SessSlots : (v.pend[k] # NoId /\ v.id[k] # NoId) => v.pend[k] = v.id[k]

HeardUpTo(d, q) ==
  \/ d = 0 /\ q = <<>>
  \/ d = 1 /\ q = <<0>>
  \/ d = 2 /\ q = <<0, 1>>

\* What a stream's application has heard, by the slot that the stream has; without one
\* the stream is over, or nothing was heard.
OneSlot(v) ==
  \A i, j \in RxSlots : (v.rx[i].use /\ v.rx[j].use /\ v.rx[i].s = v.rx[j].s) => i = j
HeardSound(v) ==
  /\ OneSlot(v)
  /\ \A i \in RxSlots : v.rx[i].use =>
       HeardUpTo(v.rx[i].dlv, v.heard[v.rx[i].s])
  /\ \A s \in WtStreams :
       /\ v.heard[s] \in Heards
       /\ (RxOf(v, s) = {} /\ (IF KindOf[s] = "local" THEN s \notin v.opened
                               ELSE s \notin v.closed)) => v.heard[s] = <<>>

Sound(v, h) ==
  /\ v \in Conn
  /\ \A i \in RxSlots : RxSound(v, h, v.rx[i])
  /\ \A s \in WtStreams : TxSound(v, s)
  /\ PendSound(v) /\ v.stray = {}
  /\ ~ UniRepeats => HeardSound(v)

\* References: the generations in use differ, because fewer sessions than there are
\* generations have come since a reference was taken.
Dist(a, b) == IF a <= b THEN b - a ELSE b - a + (Wrap - 1)
RefSound(v) ==
  /\ \A r \in v.refs : r.gen # 0 /\ r.id \in v.used
  /\ \A r, q \in v.refs : (r.gen = q.gen \/ r.id = q.id) => r = q
  /\ \A k \in SessSlots : v.id[k] # NoId => [slot |-> k, gen |-> v.gen[k], id |-> v.id[k]] \in v.refs
  /\ IsFiniteSet(v.used)
  /\ \A r \in v.refs : Dist(r.gen, v.last) < Cardinality(v.used)

WtInv == home \in [WtStreams -> Sessions] /\ Sound(w, home)
FewSessions == IsFiniteSet(Sessions) /\ Cardinality(Sessions) < Wrap
-----------------------------------------------------------------------------
\* What the steps of the pipeline do to sessions and references: nothing, but for the
\* sessions that they end.
Quiet(v, u) ==
  /\ u.refs = v.refs /\ u.used = v.used /\ u.last = v.last
  /\ \A k \in SessSlots : u.id[k] = NoId \/ (u.id[k] = v.id[k] /\ u.gen[k] = v.gen[k])
To(v, u, h) == Sound(u, h) /\ Quiet(v, u)

LEMMA ToTrans ==
  ASSUME NEW v, NEW u, NEW t, NEW h, To(v, u, h), To(u, t, h)
  PROVE  To(v, t, h)
BY DEF To, Quiet

LEMMA ToSelf ==
  ASSUME NEW v, NEW h, Sound(v, h)
  PROVE  To(v, v, h)
BY DEF To, Quiet

\* A set of slots that is not empty has a first.
LEMMA FirstIs ==
  ASSUME NEW S \in SUBSET Nat, S # {}
  PROVE  LET i == CHOOSE j \in S : \A k \in S : j <= k IN i \in S
BY MinIs

\* A send slot stays sound when what is said of it stays.
LEMMA TxFrame ==
  ASSUME NEW v, NEW u, NEW s \in WtStreams, TxSound(v, s),
         u.tx[s] = v.tx[s], u.over[s] = v.over[s],
         s \in u.opened <=> s \in v.opened, s \in u.sendDone <=> s \in v.sendDone,
         v.tx[s].use => u.id[v.tx[s].owner] = v.id[v.tx[s].owner]
  PROVE  TxSound(u, s)
<1>1. KindOf[s] \in {"bidi", "uni", "local"}
  BY WtAssumption
<1>2. srvrun_wt_send_ended(v, s) => srvrun_wt_send_ended(u, s)
  BY <1>1 DEF srvrun_wt_send_ended
<1>q. QED  BY <1>2 DEF TxSound

\* The send parts of R end (srvrun_send_wt_busy_reset): at most once each.
LEMMA BusyReset ==
  ASSUME NEW h \in [WtStreams -> Sessions], NEW v, Sound(v, h), NEW R \in SUBSET WtStreams,
         \A s \in R : KindOf[s] = "local" => s \in v.opened
  PROVE  LET u == srvrun_send_wt_busy_reset(v, R) IN
         /\ To(v, u, h)
         /\ u.rx = v.rx /\ u.closed = v.closed /\ u.id = v.id /\ u.pend = v.pend
         /\ u.opened = v.opened /\ u.stray = v.stray
         /\ u.tx = [s \in WtStreams |-> IF s \in R THEN FreeTx ELSE v.tx[s]]
<1> DEFINE u == srvrun_send_wt_busy_reset(v, R)
           D == {s \in R : KindOf[s] = "bidi"}
           o == [s \in WtStreams |->
                   IF s \in R /\ ~ srvrun_wt_send_ended(v, s) THEN v.over[s] + 1 ELSE v.over[s]]
           x == [s \in WtStreams |-> IF s \in R THEN FreeTx ELSE v.tx[s]]
<1>1. v \in Conn
  BY DEF Sound
<1>2. FreeTx \in Tx
  BY DEF Tx, Ids, FreeTx
<1>3. x \in [WtStreams -> Tx]
  BY <1>1, <1>2 DEF Conn
<1>4. o \in [WtStreams -> Nat]
  <2>1. \A s \in WtStreams : v.over[s] \in Nat
    BY <1>1 DEF Conn
  <2>q. QED  BY <2>1
<1>5. D \in SUBSET WtStreams
  OBVIOUS
<1>6. u = [v EXCEPT !.tx = x, !.sendDone = v.sendDone \cup D, !.over = o]
  BY DEF srvrun_send_wt_busy_reset
<1> HIDE DEF u, D, o, x
<1>7. /\ u \in Conn
      /\ u.rx = v.rx /\ u.closed = v.closed /\ u.id = v.id /\ u.pend = v.pend
      /\ u.opened = v.opened /\ u.stray = v.stray /\ u.gen = v.gen
      /\ u.last = v.last /\ u.used = v.used /\ u.refs = v.refs /\ u.heard = v.heard
      /\ u.tx = x /\ u.over = o /\ u.sendDone = v.sendDone \cup D
  BY <1>1, <1>3, <1>4, <1>5, <1>6 DEF Conn
<1>8. Quiet(v, u)
  BY <1>7 DEF Quiet
<1>9. \A i \in RxSlots : RxSound(u, h, u.rx[i])
  BY <1>7 DEF Sound, RxSound, Placed
<1>10. \A s \in WtStreams : TxSound(u, s)
  <2> SUFFICES ASSUME NEW s \in WtStreams PROVE TxSound(u, s)
    OBVIOUS
  <2>1. TxSound(v, s) /\ KindOf[s] \in {"bidi", "uni", "local"}
    BY WtAssumption DEF Sound
  <2>2. CASE s \in R
    <3>1. ~ u.tx[s].use
      BY <1>7, <2>2 DEF x, FreeTx
    <3>2. srvrun_wt_send_ended(u, s)
      BY <1>7, <2>1, <2>2, <3>1 DEF srvrun_wt_send_ended, D
    <3>3. u.over[s] = IF ~ srvrun_wt_send_ended(v, s) THEN v.over[s] + 1 ELSE v.over[s]
      BY <1>7, <2>2 DEF o
    <3>4. u.over[s] \in {0, 1}
      BY <2>1, <3>3 DEF TxSound
    <3>q. QED  BY <3>1, <3>2, <3>4 DEF TxSound
  <2>3. CASE s \notin R
    <3>1. u.tx[s] = v.tx[s] /\ u.over[s] = v.over[s]
      BY <1>7, <2>3 DEF x, o
    <3>2. s \in u.sendDone <=> s \in v.sendDone
      BY <1>7, <2>3 DEF D
    <3>3. srvrun_wt_send_ended(v, s) => srvrun_wt_send_ended(u, s)
      BY <1>7, <2>1, <3>1, <3>2 DEF srvrun_wt_send_ended
    <3>q. QED  BY <1>7, <2>1, <3>1, <3>2, <3>3 DEF TxSound
  <2>q. QED  BY <2>2, <2>3
<1>11. PendSound(u) /\ u.stray = {}
  BY <1>7 DEF Sound, PendSound
<1>12. ~ UniRepeats => HeardSound(u)
  BY <1>7 DEF Sound, HeardSound, OneSlot, RxOf
<1>13. To(v, u, h)
  BY <1>7, <1>8, <1>9, <1>10, <1>11, <1>12 DEF To, Sound
<1>q. QED  BY <1>7, <1>13 DEF u, x

\* The receive slots I are freed, the client's streams remembered.
LEMMA Release ==
  ASSUME NEW h \in [WtStreams -> Sessions], NEW v, Sound(v, h), NEW I \in SUBSET RxSlots
  PROVE  LET u == wired_srvloop_wt_slot_release(v, I) IN
         /\ To(v, u, h)
         /\ u.tx = v.tx /\ u.id = v.id /\ u.pend = v.pend
         /\ u.opened = v.opened /\ u.stray = v.stray
         /\ u.rx = [i \in RxSlots |-> IF i \in I THEN FreeRx ELSE v.rx[i]]
<1> DEFINE u == wired_srvloop_wt_slot_release(v, I)
           C == {s \in WtStreams : KindOf[s] # "local" /\ \E i \in I : v.rx[i].s = s}
           x == [i \in RxSlots |-> IF i \in I THEN FreeRx ELSE v.rx[i]]
<1>1. v \in Conn
  BY DEF Sound
<1>2. FreeRx \in Rx
  BY DEF Rx, FreeRx
<1>3. x \in [RxSlots -> Rx]
  BY <1>1, <1>2 DEF Conn
<1>5. C \in SUBSET WtStreams
  OBVIOUS
<1>6. u = [v EXCEPT !.rx = x, !.closed = v.closed \cup C]
  BY DEF wired_srvloop_wt_slot_release
<1> HIDE DEF u, C, x
<1>7. /\ u \in Conn
      /\ u.tx = v.tx /\ u.closed = v.closed \cup C /\ u.id = v.id /\ u.pend = v.pend
      /\ u.opened = v.opened /\ u.stray = v.stray /\ u.gen = v.gen
      /\ u.last = v.last /\ u.used = v.used /\ u.refs = v.refs /\ u.heard = v.heard
      /\ u.rx = x /\ u.over = v.over /\ u.sendDone = v.sendDone
  BY <1>1, <1>3, <1>5, <1>6 DEF Conn
<1>8. Quiet(v, u)
  BY <1>7 DEF Quiet
<1>9. \A i \in RxSlots : u.rx[i].use => u.rx[i] = v.rx[i] /\ i \notin I
  BY <1>7 DEF x, FreeRx
<1>10. \A i \in RxSlots : RxSound(u, h, u.rx[i])
  BY <1>7, <1>9 DEF Sound, RxSound, Placed
<1>11. \A s \in WtStreams : TxSound(u, s)
  BY <1>7, TxFrame DEF Sound
<1>12. PendSound(u) /\ u.stray = {}
  BY <1>7 DEF Sound, PendSound
<1>13. ASSUME ~ UniRepeats PROVE HeardSound(u)
  <2>1. HeardSound(v)
    BY <1>13 DEF Sound
  <2>2. OneSlot(u)
    BY <1>9, <2>1 DEF HeardSound, OneSlot
  <2>3. \A i \in RxSlots : u.rx[i].use =>
          HeardUpTo(u.rx[i].dlv, u.heard[u.rx[i].s])
    BY <1>7, <1>9, <2>1 DEF HeardSound
  <2>4. ASSUME NEW s \in WtStreams, RxOf(u, s) = {},
               IF KindOf[s] = "local" THEN s \notin u.opened ELSE s \notin u.closed
        PROVE  u.heard[s] = <<>>
    <3>1. RxOf(v, s) = {}
      <4> SUFFICES ASSUME NEW i \in RxSlots, v.rx[i].use, v.rx[i].s = s PROVE FALSE
        BY DEF RxOf
      <4>1. CASE KindOf[s] = "local"
        BY <4>1, <2>4, <1>7 DEF Sound, RxSound, Placed
      <4>2. CASE KindOf[s] # "local"
        <5>1. i \notin I
          BY <4>2, <2>4, <1>7 DEF C
        <5>2. u.rx[i] = v.rx[i]
          BY <5>1, <1>7 DEF x
        <5>q. QED  BY <5>2, <2>4 DEF RxOf
      <4>q. QED  BY <4>1, <4>2
    <3>2. IF KindOf[s] = "local" THEN s \notin v.opened ELSE s \notin v.closed
      BY <2>4, <1>7
    <3>q. QED  BY <3>1, <3>2, <2>1, <1>7 DEF HeardSound
  <2>5. \A s \in WtStreams : u.heard[s] \in Heards
    BY <1>7, <2>1 DEF HeardSound
  <2>q. QED  BY <2>2, <2>3, <2>4, <2>5 DEF HeardSound
<1>14. To(v, u, h)
  BY <1>7, <1>8, <1>10, <1>11, <1>12, <1>13 DEF To, Sound
<1>q. QED  BY <1>7, <1>14 DEF u, x

\* Sessions end in the slots K, which no slot of a stream names any more.
LEMMA CloseEmpty ==
  ASSUME NEW h \in [WtStreams -> Sessions], NEW v, Sound(v, h), NEW K \in SUBSET SessSlots,
         \A i \in RxSlots : v.rx[i].use => v.rx[i].owner \notin K,
         \A s \in WtStreams : v.tx[s].use => v.tx[s].owner \notin K,
         NEW u \in Conn,
         \A k \in SessSlots : IF k \in K THEN u.id[k] = NoId
                                         ELSE u.id[k] = v.id[k] /\ u.gen[k] = v.gen[k],
         u.tx = v.tx, u.closed = v.closed, u.pend = v.pend,
         u.opened = v.opened, u.stray = v.stray,
         u.last = v.last, u.used = v.used, u.refs = v.refs, u.heard = v.heard,
         u.rx = v.rx, u.over = v.over, u.sendDone = v.sendDone
  PROVE  To(v, u, h)
<1>1. v \in Conn
  BY DEF Sound
<1>8. Quiet(v, u)
  BY DEF Quiet
<1>10. \A i \in RxSlots : RxSound(u, h, u.rx[i])
  <2> SUFFICES ASSUME NEW i \in RxSlots, v.rx[i].use PROVE RxSound(u, h, v.rx[i])
    BY DEF RxSound, Placed
  <2>1. v.rx[i].owner \in SessSlots \cup {0} /\ v.rx[i].owner \notin K
    BY <1>1 DEF Conn, Rx
  <2>2. v.rx[i].owner # 0 => u.id[v.rx[i].owner] = v.id[v.rx[i].owner]
    BY <2>1
  <2>q. QED  BY <2>2 DEF Sound, RxSound, Placed
<1>11. \A s \in WtStreams : TxSound(u, s)
  <2> SUFFICES ASSUME NEW s \in WtStreams PROVE TxSound(u, s)
    OBVIOUS
  <2>1. TxSound(v, s)
    BY DEF Sound
  <2>2. v.tx[s].use => u.id[v.tx[s].owner] = v.id[v.tx[s].owner]
    BY <2>1 DEF TxSound
  <2>q. QED  BY <2>1, <2>2, TxFrame
<1>12. PendSound(u) /\ u.stray = {}
  BY DEF Sound, PendSound
<1>13. ~ UniRepeats => HeardSound(u)
  BY DEF Sound, HeardSound, OneSlot, RxOf
<1>14. To(v, u, h)
  BY <1>8, <1>10, <1>11, <1>12, <1>13 DEF To, Sound
<1>q. QED  BY <1>14

\* The sessions in the slots K end with their streams (srvrun_close_wt_session_slot).
LEMMA CloseSlots ==
  ASSUME NEW h \in [WtStreams -> Sessions], NEW v, Sound(v, h), NEW K \in SUBSET SessSlots
  PROVE  LET u == srvrun_close_wt_session_slot(v, K) IN
         /\ To(v, u, h) /\ u.pend = v.pend
         /\ u.id = [k \in SessSlots |-> IF k \in K THEN NoId ELSE v.id[k]]
<1> DEFINE I == {i \in RxSlots : v.rx[i].use /\ v.rx[i].owner \in K}
           S == {s \in WtStreams : \/ \E i \in I : v.rx[i].s = s
                                   \/ v.tx[s].use /\ v.tx[s].owner \in K}
           a == srvrun_send_wt_busy_reset(v, S)
           b == wired_srvloop_wt_slot_release(a, I)
           d == [k \in SessSlots |-> IF k \in K THEN NoId ELSE v.id[k]]
           g == [k \in SessSlots |-> IF k \in K THEN 0 ELSE v.gen[k]]
           u == srvrun_close_wt_session_slot(v, K)
<1>1. u = [b EXCEPT !.id = d, !.gen = g]
  BY DEF srvrun_close_wt_session_slot
<1>2. \A s \in S : KindOf[s] = "local" => s \in v.opened
  BY DEF Sound, RxSound, Placed, TxSound
<1>3. S \in SUBSET WtStreams /\ I \in SUBSET RxSlots
  OBVIOUS
<1>s. \A s \in WtStreams : (v.tx[s].use /\ v.tx[s].owner \in K) => s \in S
  OBVIOUS
<1>i. \A i \in RxSlots : (v.rx[i].use /\ v.rx[i].owner \in K) <=> i \in I
  OBVIOUS
<1> HIDE DEF S, I
<1>4. /\ To(v, a, h) /\ a.rx = v.rx /\ a.id = v.id /\ a.pend = v.pend /\ a.gen = v.gen
      /\ a.tx = [s \in WtStreams |-> IF s \in S THEN FreeTx ELSE v.tx[s]]
  <2>1. v \in Conn
    BY DEF Sound
  <2>2. a.gen = v.gen
    BY <2>1 DEF srvrun_send_wt_busy_reset, Conn
  <2>q. QED  BY <1>2, <1>3, <2>2, BusyReset
<1> HIDE DEF a
<1>5. Sound(a, h)
  BY <1>4 DEF To
<1>6. /\ To(a, b, h) /\ b.tx = a.tx /\ b.id = a.id /\ b.pend = a.pend /\ b.gen = a.gen
      /\ b.rx = [i \in RxSlots |-> IF i \in I THEN FreeRx ELSE a.rx[i]]
  <2>1. a \in Conn
    BY <1>5 DEF Sound
  <2>2. b.gen = a.gen
    BY <2>1 DEF wired_srvloop_wt_slot_release, Conn
  <2>q. QED  BY <1>3, <1>5, <2>2, Release
<1> HIDE DEF b
<1>7. Sound(b, h)
  BY <1>6 DEF To
<1>8. \A i \in RxSlots : b.rx[i].use => b.rx[i].owner \notin K
  BY <1>4, <1>6, <1>i DEF FreeRx
<1>9. \A s \in WtStreams : b.tx[s].use => b.tx[s].owner \notin K
  BY <1>4, <1>6, <1>s DEF FreeTx
<1>10. d \in [SessSlots -> Ids] /\ g \in [SessSlots -> 0 .. Wrap - 1]
  <2>1. 0 \in 0 .. Wrap - 1
    BY WtAssumption
  <2>2. v.id \in [SessSlots -> Ids] /\ v.gen \in [SessSlots -> 0 .. Wrap - 1]
    BY DEF Conn, Sound
  <2>3. NoId \in Ids
    BY DEF Ids
  <2>q. QED  BY <2>1, <2>2, <2>3
<1>11. \A k \in SessSlots : IF k \in K THEN d[k] = NoId ELSE d[k] = b.id[k] /\ g[k] = b.gen[k]
  BY <1>4, <1>6
<1> HIDE DEF d, g, u
<1>12. /\ u \in Conn
       /\ u.tx = b.tx /\ u.closed = b.closed /\ u.id = d /\ u.pend = b.pend
       /\ u.opened = b.opened /\ u.stray = b.stray /\ u.gen = g
       /\ u.last = b.last /\ u.used = b.used /\ u.refs = b.refs /\ u.heard = b.heard
       /\ u.rx = b.rx /\ u.over = b.over /\ u.sendDone = b.sendDone
  <2>1. b \in Conn
    BY <1>7 DEF Sound
  <2>q. QED  BY <1>1, <1>10, <2>1 DEF Conn
<1>13. To(b, u, h)
  BY <1>7, <1>8, <1>9, <1>11, <1>12, CloseEmpty
<1>14. To(v, u, h)
  BY <1>4, <1>6, <1>13, ToTrans
<1>q. QED  BY <1>4, <1>6, <1>12, <1>14 DEF u, d

\* The sessions whose close is latched end; one may be asked to close again.
LEMMA Drain ==
  ASSUME NEW h \in [WtStreams -> Sessions], NEW v, Sound(v, h), NEW again \in SUBSET SessSlots
  PROVE  To(v, srvrun_drain_wt_close_pending(v, again), h)
<1> DEFINE K == {k \in SessSlots : v.pend[k] # NoId} \cap Active(v)
           a == srvrun_close_wt_session_slot(v, K)
           p == [k \in SessSlots |-> IF k \in K \cap again THEN v.id[k] ELSE NoId]
           u == [a EXCEPT !.pend = p]
<1>1. v \in Conn /\ v.id \in [SessSlots -> Ids]
  BY DEF Sound, Conn
<1>2. p \in [SessSlots -> Ids]
  BY <1>1 DEF Ids
<1>3. K \in SUBSET SessSlots
  OBVIOUS
<1>4. srvrun_drain_wt_close_pending(v, again) = u
  BY DEF srvrun_drain_wt_close_pending
<1>5. \A k \in SessSlots : p[k] # NoId => k \in K
  OBVIOUS
<1> HIDE DEF K, p
<1>6. To(v, a, h) /\ a.id = [k \in SessSlots |-> IF k \in K THEN NoId ELSE v.id[k]]
  BY <1>3, CloseSlots
<1> HIDE DEF a
<1>7. Sound(a, h) /\ a \in Conn
  BY <1>6 DEF To, Sound
<1>8. /\ u \in Conn
      /\ u.tx = a.tx /\ u.closed = a.closed /\ u.id = a.id /\ u.pend = p
      /\ u.opened = a.opened /\ u.stray = a.stray /\ u.gen = a.gen
      /\ u.last = a.last /\ u.used = a.used /\ u.refs = a.refs /\ u.heard = a.heard
      /\ u.rx = a.rx /\ u.over = a.over /\ u.sendDone = a.sendDone
  BY <1>2, <1>7 DEF Conn
<1> HIDE DEF u
<1>9. Quiet(a, u)
  BY <1>8 DEF Quiet
<1>10. \A i \in RxSlots : RxSound(u, h, u.rx[i])
  BY <1>7, <1>8 DEF Sound, RxSound, Placed
<1>11. \A s \in WtStreams : TxSound(u, s)
  BY <1>7, <1>8, TxFrame DEF Sound
<1>12. PendSound(u) /\ u.stray = {}
  BY <1>5, <1>6, <1>7, <1>8 DEF Sound, PendSound
<1>13. ~ UniRepeats => HeardSound(u)
  BY <1>7, <1>8 DEF Sound, HeardSound, OneSlot, RxOf
<1>14. To(a, u, h)
  BY <1>8, <1>9, <1>10, <1>11, <1>12, <1>13 DEF To, Sound
<1>q. QED  BY <1>4, <1>6, <1>14, ToTrans

\* The slot that the finds return is one of the stream's.
LEMMA RxFirstIs ==
  ASSUME NEW v, NEW s, RxOf(v, s) # {}
  PROVE  RxFirst(v, s) \in RxSlots /\ v.rx[RxFirst(v, s)].use /\ v.rx[RxFirst(v, s)].s = s
<1>1. RxOf(v, s) \in SUBSET Nat
  BY WtAssumption DEF RxOf
<1>2. RxFirst(v, s) \in RxOf(v, s)
  BY <1>1, FirstIs DEF RxFirst
<1>q. QED  BY <1>2 DEF RxOf

\* STOP_SENDING ends a send part that has not ended, and is heard by its session only.
LEMMA StopAnswered ==
  ASSUME NEW h \in [WtStreams -> Sessions], NEW v, Sound(v, h), NEW z \in WtStreams
  PROVE  To(v, srvrun_answer_stream_stop(v, z), h)
<1> DEFINE a == srvrun_send_wt_busy_reset(v, {z})
<1>1. ASSUME KindOf[z] = "local" => z \in v.opened
      PROVE  To(v, a, h) /\ a.stray = v.stray
  <2> DEFINE R == {z}
             b == srvrun_send_wt_busy_reset(v, R)
  <2>1. R \in SUBSET WtStreams /\ \A y \in R : KindOf[y] = "local" => y \in v.opened
    BY <1>1
  <2> HIDE DEF R
  <2>2. To(v, b, h)
    BY <2>1, BusyReset
  <2>3. b.stray = v.stray
    BY DEF srvrun_send_wt_busy_reset, Sound, Conn
  <2>q. QED  BY <2>2, <2>3 DEF R
<1>2. CASE v.tx[z].use
  <2>1. TxSound(v, z)
    BY DEF Sound
  <2>2. v.id[v.tx[z].owner] = v.tx[z].to /\ (KindOf[z] = "local" => z \in v.opened)
    BY <1>2, <2>1 DEF TxSound
  <2>3. To(v, a, h) /\ a.stray = v.stray /\ a \in Conn
    BY <1>1, <2>2 DEF To, Sound
  <2>4. srvrun_answer_stream_stop(v, z) = [a EXCEPT !.stray = a.stray]
    BY <1>2, <2>2 DEF srvrun_answer_stream_stop
  <2> HIDE DEF a
  <2>5. [a EXCEPT !.stray = a.stray] = a
    BY <2>3 DEF Conn
  <2>q. QED  BY <2>3, <2>4, <2>5
<1>3. CASE ~ v.tx[z].use /\ KindOf[z] = "bidi" /\ RxOf(v, z) = {}
  <2>1. srvrun_answer_stream_stop(v, z) = a
    BY <1>3 DEF srvrun_answer_stream_stop
  <2> HIDE DEF a
  <2>q. QED  BY <1>1, <1>3, <2>1
<1>4. CASE ~ v.tx[z].use /\ ~ (KindOf[z] = "bidi" /\ RxOf(v, z) = {})
  <2>1. srvrun_answer_stream_stop(v, z) = v
    BY <1>4 DEF srvrun_answer_stream_stop
  <2>q. QED  BY <2>1, ToSelf
<1>q. QED  BY <1>2, <1>3, <1>4

\* More streams are remembered as closed.
LEMMA Remember ==
  ASSUME NEW h \in [WtStreams -> Sessions], NEW v, Sound(v, h), NEW s \in WtStreams
  PROVE  To(v, [v EXCEPT !.closed = v.closed \cup {s}], h)
<1> DEFINE u == [v EXCEPT !.closed = v.closed \cup {s}]
<1>1. v \in Conn
  BY DEF Sound
<1>2. /\ u \in Conn
      /\ u.tx = v.tx /\ u.closed = v.closed \cup {s} /\ u.id = v.id /\ u.pend = v.pend
      /\ u.opened = v.opened /\ u.stray = v.stray /\ u.gen = v.gen
      /\ u.last = v.last /\ u.used = v.used /\ u.refs = v.refs /\ u.heard = v.heard
      /\ u.rx = v.rx /\ u.over = v.over /\ u.sendDone = v.sendDone
  BY <1>1 DEF Conn
<1> HIDE DEF u
<1>3. Quiet(v, u)
  BY <1>2 DEF Quiet
<1>4. \A i \in RxSlots : RxSound(u, h, u.rx[i])
  BY <1>2 DEF Sound, RxSound, Placed
<1>5. \A z \in WtStreams : TxSound(u, z)
  BY <1>2, TxFrame DEF Sound
<1>6. PendSound(u) /\ u.stray = {}
  BY <1>2 DEF Sound, PendSound
<1>7. ~ UniRepeats => HeardSound(u)
  BY <1>2 DEF Sound, HeardSound, OneSlot, RxOf
<1>8. To(v, u, h)
  BY <1>2, <1>3, <1>4, <1>5, <1>6, <1>7 DEF To, Sound
<1>q. QED  BY <1>8 DEF u

\* RESET_STREAM frees the receive slot and is heard by its session only.
LEMMA ResetTold ==
  ASSUME NEW h \in [WtStreams -> Sessions], h = home, NEW v, Sound(v, h), NEW s \in WtStreams,
         NEW stop
  PROVE  To(v, srvrun_deliver_one_wt_reset(v, s, stop), h)
<1>1. CASE RxOf(v, s) # {}
  <2> DEFINE i == RxFirst(v, s)
             a == wired_srvloop_wt_slot_release(v, {i})
  <2>1. i \in RxSlots /\ v.rx[i].use /\ v.rx[i].s = s
    BY <1>1, RxFirstIs
  <2>2. v.rx[i].owner # 0 => v.id[v.rx[i].owner] = v.rx[i].to
    BY <2>1 DEF Sound, RxSound, Placed
  <2>3. To(v, a, h) /\ a.stray = v.stray
    <3> DEFINE I == {i}
               b == wired_srvloop_wt_slot_release(v, I)
    <3>1. I \in SUBSET RxSlots
      BY <2>1
    <3> HIDE DEF I
    <3>2. To(v, b, h)
      BY <3>1, Release
    <3>3. b.stray = v.stray
      BY DEF wired_srvloop_wt_slot_release, Sound, Conn
    <3>q. QED  BY <3>2, <3>3 DEF I
  <2>4. srvrun_deliver_one_wt_reset(v, s, stop) = [a EXCEPT !.stray = a.stray]
    BY <1>1, <2>2 DEF srvrun_deliver_one_wt_reset
  <2> HIDE DEF a
  <2>5. a \in Conn
    BY <2>3 DEF To, Sound
  <2>6. [a EXCEPT !.stray = a.stray] = a
    BY <2>5 DEF Conn
  <2>q. QED  BY <2>3, <2>4, <2>6
<1>2. CASE RxOf(v, s) = {} /\ KindOf[s] = "bidi" /\ ~ stop
  BY <1>2, Remember DEF srvrun_deliver_one_wt_reset
<1>3. CASE RxOf(v, s) = {} /\ ~ (KindOf[s] = "bidi" /\ ~ stop)
  <2>1. srvrun_deliver_one_wt_reset(v, s, stop) = v
    BY <1>3 DEF srvrun_deliver_one_wt_reset
  <2>q. QED  BY <2>1, ToSelf
<1>q. QED  BY <1>1, <1>2, <1>3

\* The receive slot i is given to the stream s, of which nothing has been heard.
LEMMA NewSlot ==
  ASSUME NEW h \in [WtStreams -> Sessions], NEW v, Sound(v, h), NEW s \in WtStreams,
         KindOf[s] = "local" => s \in v.opened,
         ~ UniRepeats => RxOf(v, s) = {} /\ v.heard[s] = <<>>,
         NEW i \in RxSlots, ~ v.rx[i].use,
         NEW u \in Conn, u.rx[i].use, u.rx[i].s = s, u.rx[i].dlv = 0,
         Placed(v, h, u.rx[i]),
         \A j \in RxSlots : j # i => u.rx[j] = v.rx[j],
         u.tx = v.tx, u.closed = v.closed, u.pend = v.pend, u.id = v.id, u.gen = v.gen,
         u.opened = v.opened, u.stray = v.stray,
         u.last = v.last, u.used = v.used, u.refs = v.refs, u.heard = v.heard,
         u.over = v.over, u.sendDone = v.sendDone
  PROVE  To(v, u, h)
<1>3. Quiet(v, u)
  BY DEF Quiet
<1>4. \A j \in RxSlots : RxSound(u, h, u.rx[j])
  <2> SUFFICES ASSUME NEW j \in RxSlots PROVE RxSound(u, h, u.rx[j])
    OBVIOUS
  <2>1. CASE j = i
    <3>1. u.rx[i].dlv <= Frontier(u.rx[i].got)
      BY DEF Frontier
    <3>q. QED  BY <2>1, <3>1 DEF RxSound, Placed
  <2>2. CASE j # i
    BY <2>2 DEF Sound, RxSound, Placed
  <2>q. QED  BY <2>1, <2>2
<1>5. ASSUME NEW z \in WtStreams PROVE TxSound(u, z)
  <2>1. TxSound(v, z)
    BY DEF Sound
  <2>q. QED  BY <2>1, TxFrame
<1>6. PendSound(u) /\ u.stray = {}
  BY DEF Sound, PendSound
<1>7. ASSUME ~ UniRepeats PROVE HeardSound(u)
  <2>1. HeardSound(v) /\ RxOf(v, s) = {} /\ v.heard[s] = <<>>
    BY <1>7 DEF Sound
  <2>2. \A j \in RxSlots : j # i => (u.rx[j].use => u.rx[j].s # s)
    BY <2>1 DEF RxOf
  <2>3. OneSlot(u)
    <3> SUFFICES ASSUME NEW j \in RxSlots, NEW k \in RxSlots, u.rx[j].use, u.rx[k].use,
                        u.rx[j].s = u.rx[k].s
                 PROVE  j = k
      BY DEF OneSlot
    <3>1. CASE j = i \/ k = i
      BY <2>2, <3>1
    <3>2. CASE j # i /\ k # i
      BY <2>1, <3>2 DEF HeardSound, OneSlot
    <3>q. QED  BY <3>1, <3>2
  <2>4. \A j \in RxSlots : u.rx[j].use =>
          HeardUpTo(u.rx[j].dlv, u.heard[u.rx[j].s])
    <3> SUFFICES ASSUME NEW j \in RxSlots, u.rx[j].use
                 PROVE  HeardUpTo(u.rx[j].dlv, u.heard[u.rx[j].s])
      OBVIOUS
    <3>1. CASE j = i
      BY <2>1, <3>1 DEF HeardUpTo
    <3>2. CASE j # i
      <4>1. u.rx[j] = v.rx[j]
        BY <3>2
      <4>q. QED  BY <2>1, <4>1 DEF HeardSound
    <3>q. QED  BY <3>1, <3>2
  <2>5. \A z \in WtStreams : RxOf(u, z) = {} => z # s /\ RxOf(v, z) = {}
    <3>1. i \in RxOf(u, s)
      BY DEF RxOf
    <3>2. \A z \in WtStreams : RxOf(v, z) \subseteq RxOf(u, z)
      <4> SUFFICES ASSUME NEW z \in WtStreams, NEW j \in RxSlots, v.rx[j].use, v.rx[j].s = z
                   PROVE  j \in RxOf(u, z)
        BY DEF RxOf
      <4>1. u.rx[j] = v.rx[j]
        OBVIOUS
      <4>q. QED  BY <4>1 DEF RxOf
    <3>q. QED  BY <3>1, <3>2
  <2>6. ASSUME NEW z \in WtStreams
        PROVE  /\ u.heard[z] \in Heards
               /\ (RxOf(u, z) = {} /\ (IF KindOf[z] = "local" THEN z \notin u.opened
                                       ELSE z \notin u.closed)) => u.heard[z] = <<>>
    BY <2>1, <2>5 DEF HeardSound
  <2>q. QED  BY <2>3, <2>4, <2>6 DEF HeardSound
<1>8. To(v, u, h)
  BY <1>3, <1>4, <1>5, <1>6, <1>7 DEF To, Sound
<1>q. QED  BY <1>8

\* A client's stream takes a receive slot, or is refused.
LEMMA Claim ==
  ASSUME NEW h \in [WtStreams -> Sessions], NEW v, Sound(v, h), NEW s \in WtStreams,
         KindOf[s] # "local", ~ UniRepeats => RxOf(v, s) = {},
         NEW got \in SUBSET {0, 1}
  PROVE  To(v, wired_srvloop_wt_slot_claim(v, s, got), h)
<1> DEFINE free == {i \in RxSlots : ~ v.rx[i].use /\ TableOf[i] = KindOf[s]}
           i == CHOOSE f \in free : \A j \in free : f <= j
           n == srvloop_wt_slot_claim_at(s, got, 0, NoId)
           x == [v.rx EXCEPT ![i] = n]
           u == [v EXCEPT !.rx = x]
           a == srvrun_send_wt_busy_reset(v, {s})
           b == [a EXCEPT !.closed = a.closed \cup {s}]
<1>0. v \in Conn
  BY DEF Sound
<1>1. CASE s \in v.closed
  <2>1. wired_srvloop_wt_slot_claim(v, s, got) = v
    BY <1>1 DEF wired_srvloop_wt_slot_claim
  <2>q. QED  BY <2>1, ToSelf
<1>2. CASE s \notin v.closed /\ free # {}
  <2>1. wired_srvloop_wt_slot_claim(v, s, got) = u
    BY <1>2 DEF wired_srvloop_wt_slot_claim
  <2>2. i \in free
    <3>1. free \in SUBSET Nat
      BY WtAssumption
    <3> HIDE DEF free
    <3>q. QED  BY <1>2, <3>1, FirstIs
  <2>3. i \in RxSlots /\ ~ v.rx[i].use
    BY <2>2
  <2>4. n \in Rx /\ n.use /\ n.s = s /\ n.dlv = 0 /\ n.owner = 0
    <3>1. n = [use |-> TRUE, s |-> s, got |-> got, dlv |-> 0, owner |-> 0,
               to |-> NoId, guess |-> FALSE]
      BY DEF srvloop_wt_slot_claim_at
    <3> HIDE DEF n
    <3>2. TRUE \in BOOLEAN /\ FALSE \in BOOLEAN /\ 0 \in 0 .. 2
      OBVIOUS
    <3>q. QED  BY <3>1, <3>2 DEF Rx
  <2>5. ~ UniRepeats => v.heard[s] = <<>>
    BY <1>2 DEF Sound, HeardSound
  <2> HIDE DEF i, n
  <2>6. x \in [RxSlots -> Rx] /\ x[i] = n /\ \A j \in RxSlots : j # i => x[j] = v.rx[j]
    BY <1>0, <2>3, <2>4 DEF Conn
  <2> HIDE DEF x
  <2>7. /\ u \in Conn
        /\ u.tx = v.tx /\ u.closed = v.closed /\ u.id = v.id /\ u.pend = v.pend
        /\ u.opened = v.opened /\ u.stray = v.stray /\ u.gen = v.gen
        /\ u.last = v.last /\ u.used = v.used /\ u.refs = v.refs /\ u.heard = v.heard
        /\ u.rx = x /\ u.over = v.over /\ u.sendDone = v.sendDone
    BY <1>0, <2>6 DEF Conn
  <2> HIDE DEF u
  <2>8. /\ u.rx[i].use /\ u.rx[i].s = s /\ u.rx[i].dlv = 0 /\ u.rx[i].owner = 0
        /\ \A j \in RxSlots : j # i => u.rx[j] = v.rx[j]
    BY <2>4, <2>6, <2>7
  <2>a. /\ Placed(v, h, u.rx[i])
        /\ ~ UniRepeats => RxOf(v, s) = {} /\ v.heard[s] = <<>>
        /\ KindOf[s] = "local" => s \in v.opened
    BY <2>5, <2>8 DEF Placed
  <2>9. To(v, u, h)
    BY <2>3, <2>7, <2>8, <2>a, NewSlot
  <2>q. QED  BY <2>1, <2>9
<1>3. CASE s \notin v.closed /\ free = {} /\ KindOf[s] = "uni"
  <2>1. wired_srvloop_wt_slot_claim(v, s, got) = v
    BY <1>3 DEF wired_srvloop_wt_slot_claim
  <2>q. QED  BY <2>1, ToSelf
<1>4. CASE s \notin v.closed /\ free = {} /\ KindOf[s] # "uni"
  <2>1. wired_srvloop_wt_slot_claim(v, s, got) = b
    BY <1>4 DEF wired_srvloop_wt_slot_claim
  <2>2. To(v, a, h)
    <3> DEFINE R == {s}
    <3>1. R \in SUBSET WtStreams /\ \A y \in R : KindOf[y] = "local" => y \in v.opened
      OBVIOUS
    <3> HIDE DEF R
    <3>2. To(v, srvrun_send_wt_busy_reset(v, R), h)
      BY <3>1, BusyReset
    <3>q. QED  BY <3>2 DEF R
  <2> HIDE DEF a
  <2>3. To(a, b, h)
    BY <2>2, Remember DEF To
  <2> HIDE DEF b
  <2>q. QED  BY <2>1, <2>2, <2>3, ToTrans
<1>q. QED  BY <1>1, <1>2, <1>3, <1>4

\* A piece lands in the stream's slot, or a slot is claimed for the first.
LEMMA Landed ==
  ASSUME NEW h \in [WtStreams -> Sessions], NEW v, Sound(v, h), NEW s \in WtStreams,
         NEW first \in BOOLEAN, NEW ps \in SUBSET {0, 1},
         ~ UniRepeats => ~ (first /\ KindOf[s] = "uni" /\ RxOf(v, s) # {})
  PROVE  To(v, Land(v, s, first, ps), h)
<1> DEFINE claims == first /\ KindOf[s] # "local" /\ (KindOf[s] = "uni" \/ RxOf(v, s) = {})
           lost == \/ RxOf(v, s) = {}
                   \/ ~ srvloop_wt_sig_resolve(s, v.rx[RxFirst(v, s)].got \cup ps)
<1>1. CASE claims
  <2>1. Land(v, s, first, ps) = wired_srvloop_wt_slot_claim(v, s, ps)
    BY <1>1 DEF Land
  <2>q. QED  BY <1>1, <2>1, Claim
<1>2. CASE ~ claims /\ lost
  <2>1. Land(v, s, first, ps) = v
    BY <1>2 DEF Land
  <2>q. QED  BY <2>1, ToSelf
<1>3. CASE ~ claims /\ ~ lost
  <2> DEFINE i == RxFirst(v, s)
             n == [v.rx[i] EXCEPT !.got = v.rx[i].got \cup ps]
             x == [v.rx EXCEPT ![i] = n]
             u == [v EXCEPT !.rx = x]
  <2>1. i \in RxSlots
    BY <1>3, RxFirstIs
  <2>2. Land(v, s, first, ps) = u
    BY <1>3 DEF Land
  <2>3. v \in Conn /\ v.rx[i] \in Rx
    BY <2>1 DEF Conn, Sound
  <2> HIDE DEF i
  <2>4. /\ n \in Rx /\ n.use = v.rx[i].use /\ n.s = v.rx[i].s /\ n.dlv = v.rx[i].dlv
        /\ n.owner = v.rx[i].owner /\ n.to = v.rx[i].to /\ n.guess = v.rx[i].guess
    BY <2>3 DEF Rx
  <2> HIDE DEF n
  <2>5. x \in [RxSlots -> Rx] /\ x[i] = n /\ \A j \in RxSlots : j # i => x[j] = v.rx[j]
    BY <2>1, <2>3, <2>4 DEF Conn
  <2>6. \A j \in RxSlots : /\ x[j].use = v.rx[j].use /\ x[j].s = v.rx[j].s
                           /\ x[j].dlv = v.rx[j].dlv /\ x[j].owner = v.rx[j].owner
                           /\ x[j].to = v.rx[j].to /\ x[j].guess = v.rx[j].guess
    BY <2>4, <2>5
  <2> HIDE DEF x
  <2>7. /\ u \in Conn
        /\ u.tx = v.tx /\ u.closed = v.closed /\ u.id = v.id /\ u.pend = v.pend
        /\ u.opened = v.opened /\ u.stray = v.stray /\ u.gen = v.gen
        /\ u.last = v.last /\ u.used = v.used /\ u.refs = v.refs /\ u.heard = v.heard
        /\ u.rx = x /\ u.over = v.over /\ u.sendDone = v.sendDone
    BY <2>3, <2>5 DEF Conn
  <2> HIDE DEF u
  <2>8. Quiet(v, u)
    BY <2>7 DEF Quiet
  <2>9. \A j \in RxSlots : RxSound(u, h, u.rx[j])
    <3> SUFFICES ASSUME NEW j \in RxSlots, v.rx[j].use PROVE RxSound(u, h, x[j])
      BY <2>6, <2>7 DEF RxSound, Placed
    <3>1. v.rx[j].dlv <= Frontier(v.rx[j].got) /\ v.rx[j].dlv \in 0 .. 2
      BY <2>3 DEF Sound, RxSound, Placed, Conn, Rx
    <3>2. v.rx[j].dlv <= Frontier(x[j].got)
      <4>1. CASE j = i
        <5>1. x[j].got = v.rx[j].got \cup ps
          BY <2>3, <2>5, <4>1 DEF n, Rx
        <5>q. QED  BY <3>1, <5>1 DEF Frontier
      <4>2. CASE j # i
        BY <2>5, <3>1, <4>2
      <4>q. QED  BY <4>1, <4>2
    <3>q. QED  BY <2>6, <2>7, <3>2 DEF Sound, RxSound, Placed
  <2>10. \A z \in WtStreams : TxSound(u, z)
    BY <2>7, TxFrame DEF Sound
  <2>11. PendSound(u) /\ u.stray = {}
    BY <2>7 DEF Sound, PendSound
  <2>12. ~ UniRepeats => HeardSound(u)
    <3>1. \A z \in WtStreams : RxOf(u, z) = RxOf(v, z)
      BY <2>6, <2>7 DEF RxOf
    <3> SUFFICES ASSUME HeardSound(v) PROVE HeardSound(u)
      BY DEF Sound
    <3>2. OneSlot(u)
      BY <2>6, <2>7 DEF HeardSound, OneSlot
    <3>3. \A j \in RxSlots : u.rx[j].use => HeardUpTo(u.rx[j].dlv, u.heard[u.rx[j].s])
      BY <2>6, <2>7 DEF HeardSound
    <3>q. QED  BY <2>7, <3>1, <3>2, <3>3 DEF HeardSound
  <2>13. To(v, u, h)
    BY <2>7, <2>8, <2>9, <2>10, <2>11, <2>12 DEF To, Sound
  <2>q. QED  BY <2>2, <2>13
<1>q. QED  BY <1>1, <1>2, <1>3

\* Delivering the pieces from d up to n continues what was heard up to d.
LEMMA HearMore ==
  ASSUME NEW d \in 0 .. 2, NEW n \in 0 .. 2, d < n, NEW q, HeardUpTo(d, q)
  PROVE  HeardUpTo(n, q \o [m \in 1 .. n - d |-> d + m - 1])
<1>1. CASE d = 0 /\ n = 1
  <2>1. [m \in 1 .. n - d |-> d + m - 1] = <<0>>
    BY <1>1
  <2>2. q = <<>>
    BY <1>1 DEF HeardUpTo
  <2>q. QED  BY <1>1, <2>1, <2>2 DEF HeardUpTo
<1>2. CASE d = 0 /\ n = 2
  <2>1. [m \in 1 .. n - d |-> d + m - 1] = <<0, 1>>
    BY <1>2
  <2>2. q = <<>>
    BY <1>2 DEF HeardUpTo
  <2>q. QED  BY <1>2, <2>1, <2>2 DEF HeardUpTo
<1>3. CASE d = 1 /\ n = 2
  <2>1. [m \in 1 .. n - d |-> d + m - 1] = <<1>>
    BY <1>3
  <2>2. q = <<0>>
    BY <1>3 DEF HeardUpTo
  <2>3. <<0>> \o <<1>> = <<0, 1>>
    <3> DEFINE a == <<0>>
               b == <<1>>
               c == <<0, 1>>
    <3>1. a \in Seq({0, 1}) /\ b \in Seq({0, 1}) /\ c \in Seq({0, 1})
      OBVIOUS
    <3>2. Len(a) = 1 /\ Len(b) = 1 /\ Len(c) = 2 /\ a[1] = 0 /\ b[1] = 1 /\ c[1] = 0 /\ c[2] = 1
      OBVIOUS
    <3> HIDE DEF a, b, c
    <3>3. /\ a \o b \in Seq({0, 1}) /\ Len(a \o b) = 2
          /\ (a \o b)[1] = 0 /\ (a \o b)[2] = 1
      BY <3>1, <3>2, ConcatProperties
    <3>4. \A i \in 1 .. Len(a \o b) : (a \o b)[i] = c[i]
      BY <3>2, <3>3
    <3>q. QED  BY <3>1, <3>2, <3>3, <3>4, SeqEqual DEF a, b, c
  <2>q. QED  BY <1>3, <2>1, <2>2, <2>3 DEF HeardUpTo
<1>q. QED  BY <1>1, <1>2, <1>3

\* What an offer makes of a receive slot: the stream is with its session.
LEMMA Offered ==
  ASSUME NEW h \in [WtStreams -> Sessions], h = home, NEW v, Sound(v, h), NEW i \in RxSlots
  PROVE  LET r == v.rx[i]
             o == srvrun_offer_wt_slot(v, r)
         IN  /\ o \in Rx /\ o.use = r.use /\ o.s = r.s /\ o.got = r.got /\ o.dlv = r.dlv
             /\ r.use => Placed(v, h, o)
<1> DEFINE r == v.rx[i]
           whole == srvloop_wt_sig_resolve(r.s, r.got)
           k == IF whole THEN {j \in SessSlots : v.id[j] = home[r.s]} ELSE Active(v)
           j == CHOOSE f \in k : \A z \in k : f <= z
           o == srvrun_offer_wt_slot(v, r)
<1>1. r \in Rx /\ RxSound(v, h, r) /\ v.id \in [SessSlots -> Sessions \cup {NoId}]
  BY DEF Sound, Conn, Ids
<1>2. CASE r.use /\ r.owner = 0 /\ k # {}
  <2>1. o = [r EXCEPT !.owner = j, !.to = v.id[j], !.guess = ~ whole]
    BY <1>2 DEF srvrun_offer_wt_slot
  <2>2. /\ k \subseteq SessSlots /\ (whole => \A f \in k : v.id[f] = h[r.s])
        /\ \A f \in k : v.id[f] # NoId
    <3>1. h[r.s] # NoId
      BY <1>1, <1>2, WtAssumption DEF RxSound
    <3>q. QED  BY <3>1 DEF Active
  <2>3. whole \in BOOLEAN
    BY DEF srvloop_wt_sig_resolve
  <2>4. j \in k
    <3>1. k \in SUBSET Nat
      BY <2>2, WtAssumption
    <3> HIDE DEF k
    <3>q. QED  BY <1>2, <3>1, FirstIs
  <2> HIDE DEF o, j, k, whole
  <2>5. /\ j \in SessSlots /\ v.id[j] \in Sessions \cup {NoId} /\ v.id[j] # NoId
        /\ whole => v.id[j] = h[r.s]
    BY <1>1, <2>2, <2>4
  <2> HIDE DEF r
  <2>6. /\ o \in Rx /\ o.use = r.use /\ o.s = r.s /\ o.got = r.got /\ o.dlv = r.dlv
        /\ o.owner = j /\ o.to = v.id[j] /\ o.guess = ~ whole
    BY <1>1, <2>1, <2>3, <2>5 DEF Rx
  <2>7. Placed(v, h, o)
    BY <2>5, <2>6 DEF Placed
  <2>q. QED  BY <2>6, <2>7 DEF o, r
<1>3. CASE ~ (r.use /\ r.owner = 0 /\ k # {})
  <2>1. o = r
    BY <1>3 DEF srvrun_offer_wt_slot
  <2>q. QED  BY <1>1, <2>1 DEF RxSound
<1>q. QED  BY <1>2, <1>3

\* Streams are offered and their new pieces delivered, to their session and in order.
LEMMA OfferStreams ==
  ASSUME NEW h \in [WtStreams -> Sessions], h = home, NEW v, Sound(v, h)
  PROVE  To(v, srvrun_offer_wt_streams(v), h)
<1> DEFINE rx    == [i \in RxSlots |-> srvrun_offer_wt_slot(v, v.rx[i])]
           live  == {i \in RxSlots : rx[i].use /\ rx[i].owner # 0 /\ v.id[rx[i].owner] # NoId}
           new   == [i \in RxSlots |-> IF i \in live THEN Frontier(v.rx[i].got) ELSE v.rx[i].dlv]
           fresh == {i \in live : new[i] > v.rx[i].dlv}
           said  == [s \in WtStreams |-> {i \in fresh : v.rx[i].s = s}]
           x == [i \in RxSlots |-> [rx[i] EXCEPT !.dlv = new[i]]]
           q == [s \in WtStreams |->
                  IF said[s] = {} THEN v.heard[s]
                  ELSE LET i == CHOOSE j \in said[s] : TRUE
                       IN v.heard[s] \o [n \in 1 .. new[i] - v.rx[i].dlv |-> v.rx[i].dlv + n - 1]]
           t == v.stray \cup {v.rx[i].s : i \in {j \in fresh : v.id[rx[j].owner] # rx[j].to}}
           u == [v EXCEPT !.rx = x, !.heard = q, !.stray = t]
           I == {i \in live : new[i] = 2}
<1>1. srvrun_offer_wt_streams(v) = wired_srvloop_wt_slot_release(u, I)
  BY DEF srvrun_offer_wt_streams, srvrun_deliver_wt_stream_delta
<1>2. v \in Conn
  BY DEF Sound
<1>3. \A i \in RxSlots : /\ rx[i] \in Rx /\ rx[i].use = v.rx[i].use /\ rx[i].s = v.rx[i].s
                         /\ rx[i].got = v.rx[i].got /\ rx[i].dlv = v.rx[i].dlv
                         /\ v.rx[i].use => Placed(v, h, rx[i])
  BY Offered
<1>a. live \in SUBSET RxSlots /\ \A i \in live : rx[i].use /\ rx[i].owner # 0
  OBVIOUS
<1> HIDE DEF rx, live
<1>4. live \in SUBSET RxSlots /\ \A i \in live : v.rx[i].use /\ rx[i].owner # 0
  BY <1>3, <1>a
<1>5. \A i \in RxSlots : v.rx[i] \in Rx /\ v.rx[i].dlv \in 0 .. 2
  BY <1>2 DEF Conn, Rx
<1>6. \A i \in RxSlots : new[i] \in 0 .. 2
  BY <1>5 DEF Frontier
<1>7. \A i \in RxSlots : v.rx[i].use => v.rx[i].dlv <= new[i] /\ new[i] <= Frontier(v.rx[i].got)
  <2> SUFFICES ASSUME NEW i \in RxSlots, v.rx[i].use
               PROVE  v.rx[i].dlv <= new[i] /\ new[i] <= Frontier(v.rx[i].got)
    OBVIOUS
  <2>1. v.rx[i].dlv <= Frontier(v.rx[i].got)
    BY DEF Sound, RxSound, Placed
  <2>2. Frontier(v.rx[i].got) \in 0 .. 2 /\ v.rx[i].dlv \in 0 .. 2
    BY <1>5 DEF Frontier
  <2>q. QED  BY <2>1, <2>2
<1>8. fresh \in SUBSET live /\ \A i \in fresh : new[i] > v.rx[i].dlv
  OBVIOUS
<1>9. \A i \in live : i \notin fresh => new[i] = v.rx[i].dlv
  BY <1>4, <1>5, <1>6, <1>7
<1>10. \A i \in RxSlots : i \notin live => new[i] = v.rx[i].dlv
  OBVIOUS
<1>11. I \in SUBSET RxSlots
  BY <1>4
<1> HIDE DEF new, fresh, I
<1>12. t = {}
  BY <1>3, <1>4, <1>8 DEF Sound, Placed
<1> HIDE DEF t
<1>13. \A i \in RxSlots : /\ x[i] \in Rx /\ x[i].use = v.rx[i].use /\ x[i].s = v.rx[i].s
                          /\ x[i].got = v.rx[i].got /\ x[i].owner = rx[i].owner /\ x[i].dlv = new[i]
                          /\ x[i].to = rx[i].to /\ x[i].guess = rx[i].guess
  BY <1>3, <1>6 DEF Rx
<1>14. x \in [RxSlots -> Rx]
  BY <1>13
<1> HIDE DEF x
<1>15. \A s \in WtStreams : said[s] = {} => q[s] = v.heard[s]
  BY Zenon
<1>16. \A s \in WtStreams : said[s] # {} => \E i \in said[s] :
         /\ i = CHOOSE j \in said[s] : TRUE
         /\ q[s] = v.heard[s] \o [n \in 1 .. new[i] - v.rx[i].dlv |-> v.rx[i].dlv + n - 1]
  BY Zenon
<1>17. \A s \in WtStreams : said[s] = {i \in fresh : v.rx[i].s = s}
  BY Zenon
<1> HIDE DEF said
<1>18. q \in [WtStreams -> Seq({0, 1})]
  <2>4. q = [s \in WtStreams |-> q[s]]
    OBVIOUS
  <2> HIDE DEF q
  <2>1. \A s \in WtStreams : v.heard[s] \in Seq({0, 1})
    BY <1>2 DEF Conn
  <2>2. ASSUME NEW d \in 0 .. 2, NEW n \in 0 .. 2, d < n
        PROVE  [m \in 1 .. n - d |-> d + m - 1] \in Seq({0, 1})
    <3>0. n \in Int /\ d \in Int /\ n <= 2 /\ d >= 0 /\ d < n
      BY <2>2
    <3>1. n - d \in Nat
      BY <3>0
    <3>2. ASSUME NEW m \in 1 .. n - d PROVE d + m - 1 \in {0, 1}
      <4>1. m \in Int /\ 1 <= m /\ m <= n - d
        BY <3>0
      <4>q. QED  BY <3>0, <4>1
    <3>q. QED  BY <3>1, <3>2
  <2>3. ASSUME NEW s \in WtStreams PROVE q[s] \in Seq({0, 1})
    <3>1. CASE said[s] = {}
      BY <1>15, <2>1, <3>1
    <3>2. CASE said[s] # {}
      <4>1. PICK i \in said[s] :
              q[s] = v.heard[s] \o [n \in 1 .. new[i] - v.rx[i].dlv |-> v.rx[i].dlv + n - 1]
        BY <1>16, <3>2
      <4>a. i \in fresh /\ i \in RxSlots
        BY <1>4, <1>8, <1>17, <4>1
      <4>b. new[i] > v.rx[i].dlv /\ v.rx[i].dlv \in 0 .. 2 /\ new[i] \in 0 .. 2
        BY <1>5, <1>6, <1>8, <4>a
      <4>2. i \in RxSlots /\ v.rx[i].dlv \in 0 .. 2 /\ new[i] \in 0 .. 2 /\ v.rx[i].dlv < new[i]
        BY <4>a, <4>b
      <4>3. [n \in 1 .. new[i] - v.rx[i].dlv |-> v.rx[i].dlv + n - 1] \in Seq({0, 1})
        BY <2>2, <4>2
      <4>4. PICK e \in Seq({0, 1}) :
              e = [n \in 1 .. new[i] - v.rx[i].dlv |-> v.rx[i].dlv + n - 1]
        BY <4>3
      <4>5. v.heard[s] \o e \in Seq({0, 1})
        BY <2>1, <4>4, ConcatProperties
      <4>q. QED  BY <4>1, <4>4, <4>5
    <3>q. QED  BY <3>1, <3>2
  <2>q. QED  BY <2>3, <2>4
<1> HIDE DEF q
<1>19. /\ u \in Conn
       /\ u.tx = v.tx /\ u.closed = v.closed /\ u.id = v.id /\ u.pend = v.pend
       /\ u.opened = v.opened /\ u.stray = {} /\ u.gen = v.gen
       /\ u.last = v.last /\ u.used = v.used /\ u.refs = v.refs /\ u.heard = q
       /\ u.rx = x /\ u.over = v.over /\ u.sendDone = v.sendDone
  <2>1. t \in SUBSET WtStreams
    BY <1>12
  <2>q. QED  BY <1>2, <1>12, <1>14, <1>18, <2>1 DEF Conn
<1> HIDE DEF u
<1>20. Quiet(v, u)
  BY <1>19 DEF Quiet
<1>21. \A i \in RxSlots : RxSound(u, h, u.rx[i])
  BY <1>3, <1>7, <1>13, <1>19 DEF Sound, RxSound, Placed
<1>22. \A s \in WtStreams : TxSound(u, s)
  BY <1>19, TxFrame DEF Sound
<1>23. PendSound(u) /\ u.stray = {}
  BY <1>19 DEF Sound, PendSound
<1>24. ASSUME ~ UniRepeats PROVE HeardSound(u)
  <2>1. HeardSound(v)
    BY <1>24 DEF Sound
  <2>2. OneSlot(u)
    BY <1>13, <1>19, <2>1 DEF HeardSound, OneSlot
  <2>3. ASSUME NEW i \in RxSlots, v.rx[i].use PROVE HeardUpTo(new[i], q[v.rx[i].s])
    <3> DEFINE s == v.rx[i].s
    <3>1. s \in WtStreams /\ HeardUpTo(v.rx[i].dlv, v.heard[s])
      BY <2>1, <2>3 DEF HeardSound, Sound, RxSound, Placed
    <3>a. s = v.rx[i].s
      OBVIOUS
    <3> HIDE DEF s
    <3>2. ASSUME NEW j \in said[s] PROVE j = i
      <4>1. j \in fresh /\ v.rx[j].s = s
        BY <1>17, <3>1
      <4>2. j \in RxSlots /\ v.rx[j].use
        BY <1>4, <1>8, <4>1
      <4>3. OneSlot(v)
        BY <2>1 DEF HeardSound
      <4>q. QED  BY <2>3, <3>a, <4>1, <4>2, <4>3 DEF OneSlot
    <3>3. CASE i \in fresh
      <4>1. i \in said[s]
        BY <1>17, <3>1, <3>3 DEF s
      <4>2. q[s] = v.heard[s] \o [n \in 1 .. new[i] - v.rx[i].dlv |-> v.rx[i].dlv + n - 1]
        BY <1>16, <3>1, <3>2, <4>1
      <4>3. v.rx[i].dlv \in 0 .. 2 /\ new[i] \in 0 .. 2 /\ v.rx[i].dlv < new[i]
        BY <1>5, <1>6, <1>8, <3>3
      <4>4. HeardUpTo(new[i], v.heard[s] \o
              [n \in 1 .. new[i] - v.rx[i].dlv |-> v.rx[i].dlv + n - 1])
        BY <3>1, <4>3, HearMore
      <4>q. QED  BY Zenon, <3>a, <4>2, <4>4
    <3>4. CASE i \notin fresh
      <4>1. said[s] = {}
        BY <1>17, <3>1, <3>2, <3>4
      <4>2. q[s] = v.heard[s] /\ new[i] = v.rx[i].dlv
        BY <1>9, <1>10, <1>15, <3>1, <3>4, <4>1
      <4>q. QED  BY Zenon, <3>1, <3>a, <4>2
    <3>q. QED  BY <3>3, <3>4
  <2>4. \A i \in RxSlots : u.rx[i].use => HeardUpTo(u.rx[i].dlv, u.heard[u.rx[i].s])
    BY <1>13, <1>19, <2>3
  <2>5. ASSUME NEW s \in WtStreams, said[s] # {} PROVE q[s] \in Heards /\ RxOf(u, s) # {}
    <3>1. PICK i \in said[s] : TRUE
      BY <2>5
    <3>2. i \in RxSlots /\ v.rx[i].use /\ v.rx[i].s = s
      BY <1>4, <1>8, <1>17, <3>1
    <3>3. q[s] \in Heards
      BY <2>3, <3>2 DEF HeardUpTo, Heards
    <3>q. QED  BY <1>13, <1>19, <3>2, <3>3 DEF RxOf
  <2>6. \A s \in WtStreams : RxOf(u, s) = RxOf(v, s)
    BY <1>13, <1>19 DEF RxOf
  <2>7. ASSUME NEW s \in WtStreams
        PROVE  /\ u.heard[s] \in Heards
               /\ (RxOf(u, s) = {} /\ (IF KindOf[s] = "local" THEN s \notin u.opened
                                       ELSE s \notin u.closed)) => u.heard[s] = <<>>
    BY <1>15, <1>19, <2>1, <2>5, <2>6 DEF HeardSound
  <2>q. QED  BY <2>2, <2>4, <2>7 DEF HeardSound
<1>25. To(v, u, h)
  BY <1>19, <1>20, <1>21, <1>22, <1>23, <1>24 DEF To, Sound
<1>26. To(u, wired_srvloop_wt_slot_release(u, I), h)
  BY <1>11, <1>25, Release DEF To
<1>q. QED  BY <1>1, <1>25, <1>26, ToTrans

LEMMA EventFields ==
  ASSUME NEW e \in Events
  PROVE  /\ e.what = "data" => e.s \in WtStreams /\ e.first \in BOOLEAN /\ e.ps \in SUBSET {0, 1}
         /\ e.what \in {"reset", "stop", "both"} => e.s \in WtStreams
BY DEF Events

\* A datagram's step through the streams keeps everything sound.
LEMMA LiveSound ==
  ASSUME NEW h \in [WtStreams -> Sessions], h = home, NEW v, Sound(v, h), NEW e \in Events,
         NEW again \in SUBSET SessSlots,
         ~ UniRepeats => ~ (/\ e.what = "data" /\ e.first /\ KindOf[e.s] = "uni"
                            /\ RxOf(v, e.s) # {})
  PROVE  To(v, LiveStreams(v, e, again), h)
<1> DEFINE a == IF e.what = "data" THEN Land(v, e.s, e.first, e.ps) ELSE v
           b == srvrun_offer_wt_streams(a)
           K == {k \in SessSlots : v.id[k] = e.x}
           c == IF e.what = "end" THEN srvrun_close_wt_session_slot(b, K) ELSE b
           d == IF e.what \in {"stop", "both"} THEN srvrun_answer_stream_stop(c, e.s) ELSE c
           f == IF e.what \in {"reset", "stop", "both"}
                THEN srvrun_deliver_one_wt_reset(d, e.s, e.what = "stop") ELSE d
           g == srvrun_drain_wt_close_pending(f, again)
<1>1. LiveStreams(v, e, again) = g
  BY DEF LiveStreams
<1>2. To(v, a, h)
  BY EventFields, Landed, ToSelf
<1> HIDE DEF a
<1>3. To(v, b, h)
  <2>1. To(a, b, h)
    BY <1>2, OfferStreams DEF To
  <2> HIDE DEF b
  <2>q. QED  BY <1>2, <2>1, ToTrans
<1>4. K \in SUBSET SessSlots
  OBVIOUS
<1> HIDE DEF b, K
<1>5. To(v, c, h)
  <2>1. CASE e.what = "end"
    <3>1. To(b, srvrun_close_wt_session_slot(b, K), h)
      BY <1>3, <1>4, CloseSlots DEF To
    <3>2. c = srvrun_close_wt_session_slot(b, K)
      BY <2>1
    <3> HIDE DEF c
    <3>q. QED  BY <1>3, <3>1, <3>2, ToTrans
  <2>q. QED  BY <1>3, <2>1
<1> HIDE DEF c
<1>6. To(v, d, h)
  <2>1. CASE e.what \in {"stop", "both"}
    <3>1. To(c, srvrun_answer_stream_stop(c, e.s), h)
      BY <1>5, <2>1, EventFields, StopAnswered DEF To
    <3>2. d = srvrun_answer_stream_stop(c, e.s)
      BY <2>1
    <3> HIDE DEF d
    <3>q. QED  BY <1>5, <3>1, <3>2, ToTrans
  <2>q. QED  BY <1>5, <2>1
<1> HIDE DEF d
<1>7. To(v, f, h)
  <2>1. CASE e.what \in {"reset", "stop", "both"}
    <3>1. To(d, srvrun_deliver_one_wt_reset(d, e.s, e.what = "stop"), h)
      BY <1>6, <2>1, EventFields, ResetTold DEF To
    <3>2. f = srvrun_deliver_one_wt_reset(d, e.s, e.what = "stop")
      BY <2>1
    <3> HIDE DEF f
    <3>q. QED  BY <1>6, <3>1, <3>2, ToTrans
  <2>q. QED  BY <1>6, <2>1
<1> HIDE DEF f
<1>8. To(f, g, h)
  BY <1>7, Drain DEF To
<1> HIDE DEF g
<1>q. QED  BY <1>1, <1>7, <1>8, ToTrans

\* The session x begins in a free slot, with the next generation.
Begins(v, u, x) ==
  \E k \in SessSlots, g \in 0 .. Wrap - 1 :
    /\ g = srvrun_wt_gen_next(v.last) /\ v.id[k] = NoId
    /\ u.id = [v.id EXCEPT ![k] = x] /\ u.gen = [v.gen EXCEPT ![k] = g]
    /\ u.last = g /\ u.used = v.used \cup {x}
    /\ u.refs = v.refs \cup {[slot |-> k, gen |-> g, id |-> x]}

LEMMA Started ==
  ASSUME NEW h \in [WtStreams -> Sessions], NEW v, Sound(v, h), NEW x \in Sessions,
         NEW asks \in BOOLEAN, Active(v) # SessSlots
  PROVE  /\ Sound(srvrun_start_wt(v, x, asks), h)
         /\ Begins(v, srvrun_start_wt(v, x, asks), x)
<1> DEFINE F == SessSlots \ Active(v)
           k == CHOOSE j \in F : \A z \in F : j <= z
           g == srvrun_wt_gen_next(v.last)
           d == [v.id EXCEPT ![k] = x]
           e == [v.gen EXCEPT ![k] = g]
           y == IF asks THEN x ELSE NoId
           p == [v.pend EXCEPT ![k] = y]
           n == [slot |-> k, gen |-> g, id |-> x]
           u == [v EXCEPT !.id = d, !.gen = e, !.last = g, !.pend = p,
                          !.used = v.used \cup {x}, !.refs = v.refs \cup {n}]
<1>1. srvrun_start_wt(v, x, asks) = u
  BY DEF srvrun_start_wt
<1>2. v \in Conn
  BY DEF Sound
<1>3. k \in SessSlots /\ v.id[k] = NoId
  <2>1. F \in SUBSET Nat /\ F # {}
    BY WtAssumption DEF Active
  <2>2. F \subseteq {z \in SessSlots : v.id[z] = NoId}
    BY DEF Active
  <2>3. k \in F
    <3> HIDE DEF F
    <3>q. QED  BY <2>1, FirstIs
  <2>q. QED  BY <2>2, <2>3
<1>4. g \in 0 .. Wrap - 1
  <2>1. v.last \in 0 .. Wrap - 1 /\ Wrap \in Nat \ {0, 1}
    BY <1>2, WtAssumption DEF Conn
  <2>2. PICK z \in Nat : z = v.last + 1 + (IF v.last = Wrap - 1 THEN 1 ELSE 0)
    BY <2>1
  <2>3. z % Wrap \in 0 .. Wrap - 1
    BY <2>1, <2>2, DivMod
  <2>q. QED  BY <2>2, <2>3 DEF srvrun_wt_gen_next
<1>5. y \in Ids /\ (y # NoId => y = x) /\ x \in Ids /\ x # NoId
  BY WtAssumption DEF Ids
<1> HIDE DEF k, g, y
<1>6. d \in [SessSlots -> Ids] /\ e \in [SessSlots -> 0 .. Wrap - 1] /\ p \in [SessSlots -> Ids]
  BY <1>2, <1>3, <1>4, <1>5 DEF Conn
<1>7. n \in Ref
  BY <1>3, <1>4 DEF Ref
<1>8. d[k] = x /\ p[k] = y /\ \A j \in SessSlots : j # k => d[j] = v.id[j] /\ p[j] = v.pend[j]
  BY <1>2, <1>3 DEF Conn
<1> HIDE DEF d, e, p, n
<1>9. /\ u \in Conn
      /\ u.tx = v.tx /\ u.closed = v.closed /\ u.id = d /\ u.pend = p
      /\ u.opened = v.opened /\ u.stray = v.stray /\ u.gen = e
      /\ u.last = g /\ u.used = v.used \cup {x} /\ u.refs = v.refs \cup {n} /\ u.heard = v.heard
      /\ u.rx = v.rx /\ u.over = v.over /\ u.sendDone = v.sendDone
  <2>1. v.used \cup {x} \in SUBSET Sessions /\ v.refs \cup {n} \in SUBSET Ref
    BY <1>2, <1>7 DEF Conn
  <2> DEFINE U == v.used \cup {x}
             R == v.refs \cup {n}
  <2> HIDE DEF U, R
  <2>2. u = [v EXCEPT !.id = d, !.gen = e, !.last = g, !.pend = p, !.used = U, !.refs = R]
    BY DEF U, R
  <2>3. U \in SUBSET Sessions /\ R \in SUBSET Ref
    BY <2>1 DEF U, R
  <2> HIDE DEF u
  <2>4. /\ u \in Conn
        /\ u.tx = v.tx /\ u.closed = v.closed /\ u.id = d /\ u.pend = p
        /\ u.opened = v.opened /\ u.stray = v.stray /\ u.gen = e
        /\ u.last = g /\ u.used = U /\ u.refs = R /\ u.heard = v.heard
        /\ u.rx = v.rx /\ u.over = v.over /\ u.sendDone = v.sendDone
    BY <1>2, <1>4, <1>6, <2>2, <2>3 DEF Conn
  <2>q. QED  BY <2>4 DEF U, R
<1> HIDE DEF u
<1>10. \A i \in RxSlots : RxSound(u, h, u.rx[i])
  <2> SUFFICES ASSUME NEW i \in RxSlots, v.rx[i].use PROVE RxSound(u, h, v.rx[i])
    BY <1>9 DEF RxSound, Placed
  <2>1. RxSound(v, h, v.rx[i]) /\ v.rx[i].owner \in SessSlots \cup {0}
    BY <1>2 DEF Sound, Conn, Rx
  <2>2. v.rx[i].owner # 0 => v.rx[i].owner # k
    BY <1>3, <2>1, WtAssumption DEF RxSound, Placed
  <2>q. QED  BY <1>8, <1>9, <2>1, <2>2 DEF RxSound, Placed
<1>11. \A s \in WtStreams : TxSound(u, s)
  <2> SUFFICES ASSUME NEW s \in WtStreams PROVE TxSound(u, s)
    OBVIOUS
  <2>1. TxSound(v, s)
    BY DEF Sound
  <2>2. v.tx[s].use => u.id[v.tx[s].owner] = v.id[v.tx[s].owner]
    BY <1>3, <1>8, <1>9, <2>1 DEF TxSound
  <2>q. QED  BY <1>9, <2>1, <2>2, TxFrame
<1>12. PendSound(u) /\ u.stray = {}
  BY <1>5, <1>8, <1>9 DEF Sound, PendSound
<1>13. ~ UniRepeats => HeardSound(u)
  BY <1>9 DEF Sound, HeardSound, OneSlot, RxOf
<1>14. Sound(u, h)
  BY <1>9, <1>10, <1>11, <1>12, <1>13 DEF Sound
<1>15. Begins(v, u, x)
  BY <1>3, <1>4, <1>9 DEF Begins, d, e, n, g
<1>q. QED  BY <1>1, <1>14, <1>15

\* The state after a step is sound when the new connection is.
LEMMA InvOfNext ==
  ASSUME home' \in [WtStreams -> Sessions], Sound(w', home')
  PROVE  WtInv'
BY DEF WtInv, Sound, RxSound, Placed, TxSound, PendSound, HeardSound, HeardUpTo, OneSlot, RxOf,
       Frontier, srvrun_wt_send_ended

-----------------------------------------------------------------------------
\* The actions.

LEMMA StepSound ==
  ASSUME WtInv, NEW e \in Events, NEW again \in SUBSET SessSlots, WtStep(e, again)
  PROVE  To(w, w', home) /\ home' = home
<1>1. To(w, LiveStreams(w, e, again), home)
  BY LiveSound DEF WtInv, WtStep
<1>q. QED  BY <1>1 DEF WtStep

LEMMA ConnectSound ==
  ASSUME WtInv, NEW x \in Sessions, NEW asks \in BOOLEAN, Connect(x, asks)
  PROVE  /\ x \notin w.used /\ home' = home /\ Sound(w', home)
         /\ \E v : To(w, v, home) /\ Begins(v, w', x)
<1> DEFINE e == [what |-> "nothing"]
           v == LiveStreams(w, e, {})
           u == srvrun_start_wt(v, x, asks)
<1>1. e \in Events /\ e.what # "data"
  BY DEF Events
<1>2. {} \in SUBSET SessSlots
  OBVIOUS
<1> HIDE DEF e
<1>3. To(w, v, home)
  BY <1>1, <1>2, LiveSound DEF WtInv
<1>4. Active(v) # SessSlots /\ w' = u /\ x \notin w.used /\ home' = home
  BY DEF Connect, e
<1> HIDE DEF v
<1>5. Sound(v, home)
  BY <1>3 DEF To
<1>6. Sound(u, home) /\ Begins(v, u, x)
  BY <1>4, <1>5, Started DEF WtInv
<1> HIDE DEF u
<1>q. QED  BY <1>3, <1>4, <1>6

LEMMA CloseAskedSound ==
  ASSUME WtInv, NEW k \in SessSlots, wired_server_wt_close_session(k)
  PROVE  To(w, w', home) /\ home' = home
<1> DEFINE p == [w.pend EXCEPT ![k] = w.id[k]]
           u == w'
<1>1. w \in Conn /\ Sound(w, home)
  BY DEF WtInv, Sound
<1>2. p \in [SessSlots -> Ids] /\ p[k] = w.id[k] /\ \A j \in SessSlots : j # k => p[j] = w.pend[j]
  BY <1>1 DEF Conn
<1>3. u = [w EXCEPT !.pend = p] /\ home' = home
  BY DEF wired_server_wt_close_session
<1> HIDE DEF p, u
<1>4. /\ u \in Conn
      /\ u.tx = w.tx /\ u.closed = w.closed /\ u.id = w.id /\ u.pend = p
      /\ u.opened = w.opened /\ u.stray = w.stray /\ u.gen = w.gen
      /\ u.last = w.last /\ u.used = w.used /\ u.refs = w.refs /\ u.heard = w.heard
      /\ u.rx = w.rx /\ u.over = w.over /\ u.sendDone = w.sendDone
  BY <1>1, <1>2, <1>3 DEF Conn
<1>5. Quiet(w, u)
  BY <1>4 DEF Quiet
<1>6. \A i \in RxSlots : RxSound(u, home, u.rx[i])
  BY <1>1, <1>4 DEF Sound, RxSound, Placed
<1>7. \A s \in WtStreams : TxSound(u, s)
  BY <1>1, <1>4, TxFrame DEF Sound
<1>8. PendSound(u) /\ u.stray = {}
  BY <1>1, <1>2, <1>4 DEF Sound, PendSound
<1>9. ~ UniRepeats => HeardSound(u)
  BY <1>1, <1>4 DEF Sound, HeardSound, OneSlot, RxOf
<1>10. To(w, u, home)
  BY <1>4, <1>5, <1>6, <1>7, <1>8, <1>9 DEF To, Sound
<1>q. QED  BY <1>3, <1>10 DEF u

\* A send slot is claimed for a stream whose send part has not ended.
LEMMA TxClaimed ==
  ASSUME NEW h \in [WtStreams -> Sessions], NEW v, Sound(v, h), NEW k \in SessSlots,
         v.id[k] # NoId, NEW s \in WtStreams, v.over[s] = 0, KindOf[s] # "uni",
         KindOf[s] = "bidi" => s \notin v.sendDone,
         NEW u \in Conn, u.tx[s].use, u.tx[s].owner = k, u.tx[s].to = v.id[k],
         \A z \in WtStreams : z # s => u.tx[z] = v.tx[z],
         KindOf[s] = "local" => s \in u.opened, u.opened \in {v.opened, v.opened \cup {s}},
         u.closed = v.closed, u.pend = v.pend, u.id = v.id, u.gen = v.gen, u.stray = v.stray,
         u.last = v.last, u.used = v.used, u.refs = v.refs, u.heard = v.heard,
         u.rx = v.rx, u.over = v.over, u.sendDone = v.sendDone
  PROVE  To(v, u, h)
<1>5. Quiet(v, u)
  BY DEF Quiet
<1>6. \A i \in RxSlots : RxSound(u, h, u.rx[i])
  BY DEF Sound, RxSound, Placed
<1>7. \A z \in WtStreams : TxSound(u, z)
  <2> SUFFICES ASSUME NEW z \in WtStreams PROVE TxSound(u, z)
    OBVIOUS
  <2>1. CASE z = s
    BY <2>1 DEF TxSound
  <2>2. CASE z # s
    <3>1. TxSound(v, z)
      BY DEF Sound
    <3>q. QED  BY <2>2, <3>1, TxFrame
  <2>q. QED  BY <2>1, <2>2
<1>8. PendSound(u) /\ u.stray = {}
  BY DEF Sound, PendSound
<1>9. ~ UniRepeats => HeardSound(u)
  <2> SUFFICES ASSUME HeardSound(v) PROVE HeardSound(u)
    BY DEF Sound
  <2>1. \A z \in WtStreams : RxOf(u, z) = RxOf(v, z)
    BY DEF RxOf
  <2>q. QED  BY <2>1 DEF HeardSound, OneSlot
<1>q. QED  BY <1>5, <1>6, <1>7, <1>8, <1>9 DEF To, Sound

LEMMA ReplySound ==
  ASSUME WtInv, NEW k \in SessSlots, NEW s \in WtStreams, wired_server_wt_stream_reply(k, s)
  PROVE  To(w, w', home) /\ home' = home
<1> DEFINE n == [use |-> TRUE, owner |-> k, to |-> w.id[k]]
           x == [w.tx EXCEPT ![s] = n]
           u == w'
<1>1. w \in Conn /\ Sound(w, home) /\ home \in [WtStreams -> Sessions] /\ TxSound(w, s)
  BY DEF WtInv, Sound
<1>2. /\ w.id[k] # NoId /\ KindOf[s] = "bidi" /\ ~ srvrun_wt_send_ended(w, s) /\ ~ w.tx[s].use
      /\ home' = home /\ u = [w EXCEPT !.tx = x]
  BY DEF wired_server_wt_stream_reply, Active
<1>3. w.over[s] = 0 /\ s \notin w.sendDone
  BY <1>1, <1>2 DEF TxSound, srvrun_wt_send_ended
<1>4. n \in Tx /\ n.use /\ n.owner = k /\ n.to = w.id[k]
  BY <1>1 DEF Tx, Conn
<1> HIDE DEF n
<1>5. /\ x \in [WtStreams -> Tx] /\ x[s] = n
      /\ \A z \in WtStreams : z # s => x[z] = w.tx[z]
  BY <1>1, <1>4 DEF Conn
<1> HIDE DEF x, u
<1>6. /\ u \in Conn
      /\ u.tx = x /\ u.closed = w.closed /\ u.id = w.id /\ u.pend = w.pend
      /\ u.opened = w.opened /\ u.stray = w.stray /\ u.gen = w.gen
      /\ u.last = w.last /\ u.used = w.used /\ u.refs = w.refs /\ u.heard = w.heard
      /\ u.rx = w.rx /\ u.over = w.over /\ u.sendDone = w.sendDone
  BY <1>1, <1>2, <1>5 DEF Conn
<1>7. /\ u.tx[s].use /\ u.tx[s].owner = k /\ u.tx[s].to = w.id[k]
      /\ \A z \in WtStreams : z # s => u.tx[z] = w.tx[z]
  BY <1>4, <1>5, <1>6
<1>a. /\ u.opened \in {w.opened, w.opened \cup {s}} /\ w.id[k] # NoId /\ KindOf[s] # "uni"
      /\ KindOf[s] = "local" => s \in u.opened
  BY <1>2, <1>6
<1>8. To(w, u, home)
  BY <1>1, <1>3, <1>6, <1>7, <1>a, TxClaimed
<1>q. QED  BY <1>2, <1>8 DEF u

LEMMA OpenSound ==
  ASSUME WtInv, NEW k \in SessSlots, NEW s \in WtStreams, wired_server_wt_open_bidi(k, s)
  PROVE  To(w, w', home') /\ home' \in [WtStreams -> Sessions]
<1> DEFINE h == home'
           n == [use |-> TRUE, owner |-> k, to |-> w.id[k]]
           x == [w.tx EXCEPT ![s] = n]
           o == w.opened \cup {s}
           v == [w EXCEPT !.tx = x, !.opened = o]
           free == {i \in RxSlots : ~ w.rx[i].use /\ TableOf[i] = "bidi"}
           i == CHOOSE f \in free : \A j \in free : f <= j
           r == srvloop_wt_slot_claim_at(s, {}, k, w.id[k])
           y == [v.rx EXCEPT ![i] = r]
           u == [v EXCEPT !.rx = y]
<1>1. w \in Conn /\ Sound(w, home) /\ home \in [WtStreams -> Sessions] /\ TxSound(w, s)
  BY DEF WtInv, Sound
<1>2. w.id[k] # NoId /\ KindOf[s] = "local" /\ s \notin w.opened
  BY DEF wired_server_wt_open_bidi, Active
<1>3. h = [home EXCEPT ![s] = w.id[k]]
  BY DEF wired_server_wt_open_bidi
<1>4. w' = IF free = {} THEN v ELSE u
  BY DEF wired_server_wt_open_bidi
<1>5. w.id[k] \in Sessions
  BY <1>1, <1>2 DEF Conn, Ids
<1>6. h \in [WtStreams -> Sessions] /\ h[s] = w.id[k] /\ \A z \in WtStreams : z # s => h[z] = home[z]
  BY <1>1, <1>3, <1>5
<1> HIDE DEF h
<1>7. \A j \in RxSlots : w.rx[j].use => w.rx[j].s # s
  BY <1>1, <1>2 DEF Sound, RxSound, Placed
<1>8. Sound(w, h)
  <2>1. \A j \in RxSlots : RxSound(w, h, w.rx[j])
    BY <1>1, <1>6, <1>7 DEF Sound, RxSound, Placed
  <2>q. QED  BY <1>1, <2>1 DEF Sound
<1>9. w.over[s] = 0
  BY <1>1, <1>2 DEF TxSound, srvrun_wt_send_ended
<1>10. n \in Tx /\ n.use /\ n.owner = k /\ n.to = w.id[k]
  BY <1>1 DEF Tx, Conn
<1> HIDE DEF n
<1>11. /\ x \in [WtStreams -> Tx] /\ x[s] = n
       /\ \A z \in WtStreams : z # s => x[z] = w.tx[z]
  BY <1>1, <1>10 DEF Conn
<1>12. o \in SUBSET WtStreams /\ s \in o /\ o = w.opened \cup {s}
  BY <1>1 DEF Conn
<1> HIDE DEF x, o
<1>13. /\ v \in Conn
       /\ v.tx = x /\ v.closed = w.closed /\ v.id = w.id /\ v.pend = w.pend
       /\ v.opened = o /\ v.stray = w.stray /\ v.gen = w.gen
       /\ v.last = w.last /\ v.used = w.used /\ v.refs = w.refs /\ v.heard = w.heard
       /\ v.rx = w.rx /\ v.over = w.over /\ v.sendDone = w.sendDone
  BY <1>1, <1>11, <1>12 DEF Conn
<1> HIDE DEF v
<1>14. /\ v.tx[s].use /\ v.tx[s].owner = k /\ v.tx[s].to = w.id[k]
       /\ \A z \in WtStreams : z # s => v.tx[z] = w.tx[z]
       /\ s \in v.opened /\ v.opened \in {w.opened, w.opened \cup {s}}
  BY <1>10, <1>11, <1>12, <1>13
<1>15. To(w, v, h)
  BY <1>2, <1>6, <1>8, <1>9, <1>13, <1>14, TxClaimed
<1>16. CASE free = {}
  BY <1>4, <1>6, <1>15, <1>16 DEF h
<1>17. CASE free # {}
  <2>1. i \in free
    <3>1. free \in SUBSET Nat
      BY WtAssumption
    <3> HIDE DEF free
    <3>q. QED  BY <1>17, <3>1, FirstIs
  <2>2. i \in RxSlots /\ ~ v.rx[i].use
    BY <1>13, <2>1
  <2>3. r \in Rx /\ r.use /\ r.s = s /\ r.dlv = 0 /\ r.owner = k /\ r.to = w.id[k]
    <3>1. r = [use |-> TRUE, s |-> s, got |-> {}, dlv |-> 0, owner |-> k,
               to |-> w.id[k], guess |-> FALSE]
      BY DEF srvloop_wt_slot_claim_at
    <3> HIDE DEF r
    <3>2. /\ TRUE \in BOOLEAN /\ FALSE \in BOOLEAN /\ {} \in SUBSET {0, 1} /\ 0 \in 0 .. 2
          /\ w.id[k] \in Sessions \cup {NoId}
      BY <1>5
    <3>q. QED  BY <3>1, <3>2 DEF Rx
  <2>4. ~ UniRepeats => RxOf(v, s) = {} /\ v.heard[s] = <<>>
    <3>1. RxOf(w, s) = {} /\ RxOf(v, s) = {}
      BY <1>7, <1>13 DEF RxOf
    <3>q. QED  BY <1>1, <1>2, <1>13, <3>1 DEF Sound, HeardSound
  <2> HIDE DEF i, r, free
  <2>5. y \in [RxSlots -> Rx] /\ y[i] = r /\ \A j \in RxSlots : j # i => y[j] = v.rx[j]
    BY <1>13, <2>2, <2>3 DEF Conn
  <2> HIDE DEF y
  <2>6. /\ u \in Conn
        /\ u.tx = v.tx /\ u.closed = v.closed /\ u.id = v.id /\ u.pend = v.pend
        /\ u.opened = v.opened /\ u.stray = v.stray /\ u.gen = v.gen
        /\ u.last = v.last /\ u.used = v.used /\ u.refs = v.refs /\ u.heard = v.heard
        /\ u.rx = y /\ u.over = v.over /\ u.sendDone = v.sendDone
    BY <1>13, <2>5 DEF Conn
  <2>7. w' = u
    BY <1>4, <1>17
  <2> HIDE DEF u
  <2>8. /\ u.rx[i].use /\ u.rx[i].s = s /\ u.rx[i].dlv = 0
        /\ Placed(v, h, u.rx[i])
        /\ \A j \in RxSlots : j # i => u.rx[j] = v.rx[j]
        /\ KindOf[s] = "local" => s \in v.opened
    BY <1>2, <1>6, <1>13, <1>14, <2>3, <2>5, <2>6 DEF Placed
  <2>9. Sound(v, h)
    BY <1>15 DEF To
  <2>10. To(v, u, h)
    BY <1>6, <2>2, <2>4, <2>6, <2>8, <2>9, NewSlot
  <2>11. To(w, u, h)
    BY <1>15, <2>10, ToTrans
  <2>q. QED  BY <1>6, <2>7, <2>11 DEF h
<1>q. QED  BY <1>16, <1>17

LEMMA ResetAskedSound ==
  ASSUME WtInv, NEW k \in SessSlots, NEW s \in WtStreams, wired_server_wt_stream_reset(k, s)
  PROVE  To(w, w', home) /\ home' = home
<1> DEFINE R == {s}
<1>1. Sound(w, home) /\ home \in [WtStreams -> Sessions]
  BY DEF WtInv
<1>2. home' = home /\ w' = srvrun_send_wt_busy_reset(w, R)
  BY DEF wired_server_wt_stream_reset
<1>3. R \in SUBSET WtStreams /\ \A z \in R : KindOf[z] = "local" => z \in w.opened
  BY DEF wired_server_wt_stream_reset
<1> HIDE DEF R
<1>4. To(w, srvrun_send_wt_busy_reset(w, R), home)
  BY <1>1, <1>3, BusyReset
<1>q. QED  BY <1>2, <1>4

LEMMA ReapSound ==
  ASSUME WtInv, NEW s \in WtStreams, srvrun_reap_one_wtsend(s)
  PROVE  To(w, w', home) /\ home' = home
<1> DEFINE x == [w.tx EXCEPT ![s] = FreeTx]
           o == [w.over EXCEPT ![s] = w.over[s] + 1]
           D == IF KindOf[s] = "bidi" THEN w.sendDone \cup {s} ELSE w.sendDone
           u == w'
<1>1. w \in Conn /\ Sound(w, home) /\ TxSound(w, s)
  BY DEF WtInv, Sound
<1>2. w.tx[s].use /\ home' = home /\ u = [w EXCEPT !.tx = x, !.over = o, !.sendDone = D]
  BY DEF srvrun_reap_one_wtsend
<1>3. FreeTx \in Tx /\ ~ FreeTx.use
  BY DEF Tx, Ids, FreeTx
<1>4. w.over[s] = 0
  BY <1>1, <1>2 DEF TxSound
<1>5. /\ x \in [WtStreams -> Tx] /\ x[s] = FreeTx /\ \A z \in WtStreams : z # s => x[z] = w.tx[z]
  BY <1>1, <1>3 DEF Conn
<1>6. /\ o \in [WtStreams -> Nat] /\ o[s] = 1 /\ \A z \in WtStreams : z # s => o[z] = w.over[z]
  BY <1>1, <1>4 DEF Conn
<1>7. /\ D \in SUBSET WtStreams /\ (KindOf[s] = "bidi" => s \in D)
      /\ \A z \in WtStreams : z # s => (z \in D <=> z \in w.sendDone)
  BY <1>1 DEF Conn
<1> HIDE DEF x, o, D, u
<1>8. /\ u \in Conn
      /\ u.tx = x /\ u.closed = w.closed /\ u.id = w.id /\ u.pend = w.pend
      /\ u.opened = w.opened /\ u.stray = w.stray /\ u.gen = w.gen
      /\ u.last = w.last /\ u.used = w.used /\ u.refs = w.refs /\ u.heard = w.heard
      /\ u.rx = w.rx /\ u.over = o /\ u.sendDone = D
  BY <1>1, <1>2, <1>5, <1>6, <1>7 DEF Conn
<1>9. Quiet(w, u)
  BY <1>8 DEF Quiet
<1>10. \A i \in RxSlots : RxSound(u, home, u.rx[i])
  BY <1>1, <1>8 DEF Sound, RxSound, Placed
<1>11. \A z \in WtStreams : TxSound(u, z)
  <2> SUFFICES ASSUME NEW z \in WtStreams PROVE TxSound(u, z)
    OBVIOUS
  <2>1. CASE z = s
    <3>1. KindOf[s] \in {"bidi", "uni", "local"}
      BY WtAssumption
    <3>2. ~ u.tx[s].use /\ u.over[s] = 1
      BY <1>3, <1>5, <1>6, <1>8
    <3>3. srvrun_wt_send_ended(u, s)
      BY <1>1, <1>2, <1>7, <1>8, <3>1, <3>2 DEF srvrun_wt_send_ended, TxSound
    <3>q. QED  BY <2>1, <3>2, <3>3 DEF TxSound
  <2>2. CASE z # s
    <3>1. TxSound(w, z)
      BY <1>1 DEF Sound
    <3>q. QED  BY <1>5, <1>6, <1>7, <1>8, <2>2, <3>1, TxFrame
  <2>q. QED  BY <2>1, <2>2
<1>12. PendSound(u) /\ u.stray = {}
  BY <1>1, <1>8 DEF Sound, PendSound
<1>13. ~ UniRepeats => HeardSound(u)
  BY <1>1, <1>8 DEF Sound, HeardSound, OneSlot, RxOf
<1>14. To(w, u, home)
  BY <1>8, <1>9, <1>10, <1>11, <1>12, <1>13 DEF To, Sound
<1>q. QED  BY <1>2, <1>14 DEF u

-----------------------------------------------------------------------------
\* References.

\* A generation given after `last' differs from every one given less than a full turn
\* before, and is one further from it.
LEMMA NextGen ==
  ASSUME NEW a \in 1 .. Wrap - 1, NEW l \in 0 .. Wrap - 1, Dist(a, l) < Wrap - 2
  PROVE  LET g == srvrun_wt_gen_next(l) IN g # a /\ Dist(a, g) = Dist(a, l) + 1
<1>0. Wrap \in Nat \ {0, 1}
  BY WtAssumption
<1>1. CASE l = Wrap - 1
  <2>1. l + 1 + 1 = Wrap * 1 + 1 /\ 1 \in 0 .. Wrap - 1 /\ l + 1 + 1 \in Nat
    BY <1>0, <1>1
  <2>2. (l + 1 + 1) % Wrap = 1
    BY <1>0, <2>1, ModIs
  <2>3. srvrun_wt_gen_next(l) = 1
    BY <1>1, <2>2 DEF srvrun_wt_gen_next
  <2>q. QED  BY <1>0, <1>1, <2>3 DEF Dist
<1>2. CASE l # Wrap - 1
  <2>1. l + 1 + 0 = Wrap * 0 + (l + 1) /\ l + 1 \in 0 .. Wrap - 1 /\ l + 1 + 0 \in Nat
    BY <1>0, <1>2
  <2>2. (l + 1 + 0) % Wrap = l + 1
    BY <1>0, <2>1, ModIs
  <2>3. srvrun_wt_gen_next(l) = l + 1
    BY <1>2, <2>2 DEF srvrun_wt_gen_next
  <2>q. QED  BY <1>0, <1>2, <2>3 DEF Dist
<1>q. QED  BY <1>1, <1>2

LEMMA GenNotZero ==
  ASSUME NEW l \in 0 .. Wrap - 1
  PROVE  srvrun_wt_gen_next(l) # 0 /\ Dist(srvrun_wt_gen_next(l), srvrun_wt_gen_next(l)) = 0
<1>0. Wrap \in Nat \ {0, 1}
  BY WtAssumption
<1>1. CASE l = Wrap - 1
  <2>1. l + 1 + 1 = Wrap * 1 + 1 /\ 1 \in 0 .. Wrap - 1 /\ l + 1 + 1 \in Nat
    BY <1>0, <1>1
  <2>2. (l + 1 + 1) % Wrap = 1
    BY <1>0, <2>1, ModIs
  <2>3. srvrun_wt_gen_next(l) = 1
    BY <1>1, <2>2 DEF srvrun_wt_gen_next
  <2>q. QED  BY <2>3 DEF Dist
<1>2. CASE l # Wrap - 1
  <2>1. l + 1 + 0 = Wrap * 0 + (l + 1) /\ l + 1 \in 0 .. Wrap - 1 /\ l + 1 + 0 \in Nat
    BY <1>0, <1>2
  <2>2. (l + 1 + 0) % Wrap = l + 1
    BY <1>0, <2>1, ModIs
  <2>3. srvrun_wt_gen_next(l) = l + 1
    BY <1>2, <2>2 DEF srvrun_wt_gen_next
  <2>q. QED  BY <1>0, <2>3 DEF Dist
<1>q. QED  BY <1>1, <1>2

LEMMA RefQuiet ==
  ASSUME NEW v, NEW u, RefSound(v), Quiet(v, u)
  PROVE  RefSound(u)
<1>1. \A k \in SessSlots : u.id[k] # NoId =>
        [slot |-> k, gen |-> u.gen[k], id |-> u.id[k]] \in u.refs
  <2> SUFFICES ASSUME NEW k \in SessSlots, u.id[k] # NoId
               PROVE  [slot |-> k, gen |-> u.gen[k], id |-> u.id[k]] \in u.refs
    OBVIOUS
  <2>1. u.id[k] = v.id[k] /\ u.gen[k] = v.gen[k] /\ u.refs = v.refs
    BY DEF Quiet
  <2>2. [slot |-> k, gen |-> v.gen[k], id |-> v.id[k]] \in v.refs
    BY <2>1 DEF RefSound
  <2>q. QED  BY <2>1, <2>2
<1>q. QED  BY <1>1 DEF RefSound, Quiet

LEMMA RefBegins ==
  ASSUME FewSessions, NEW v \in Conn, RefSound(v), NEW x \in Sessions, x \notin v.used,
         NEW u, Begins(v, u, x)
  PROVE  RefSound(u)
<1>1. PICK k \in SessSlots, g \in 0 .. Wrap - 1 :
        /\ g = srvrun_wt_gen_next(v.last) /\ v.id[k] = NoId
        /\ u.id = [v.id EXCEPT ![k] = x] /\ u.gen = [v.gen EXCEPT ![k] = g]
        /\ u.last = g /\ u.used = v.used \cup {x}
        /\ u.refs = v.refs \cup {[slot |-> k, gen |-> g, id |-> x]}
  BY DEF Begins
<1> DEFINE n == [slot |-> k, gen |-> g, id |-> x]
<1>2. n.slot = k /\ n.gen = g /\ n.id = x /\ u.refs = v.refs \cup {n}
  BY <1>1
<1>3. Wrap \in Nat \ {0, 1} /\ v.last \in 0 .. Wrap - 1 /\ v.used \subseteq Sessions
  BY WtAssumption DEF Conn
<1>4. g # 0 /\ Dist(g, g) = 0
  BY <1>1, <1>3, GenNotZero
<1>5. /\ IsFiniteSet(v.used) /\ IsFiniteSet(u.used)
      /\ Cardinality(v.used) \in Nat /\ Cardinality(u.used) = Cardinality(v.used) + 1
      /\ Cardinality(u.used) < Wrap
  <2>1. IsFiniteSet(v.used)
    BY DEF RefSound
  <2>a. IsFiniteSet(v.used \cup {x}) /\ Cardinality(v.used \cup {x}) = Cardinality(v.used) + 1
    BY <2>1, FS_AddElement
  <2>b. u.used = v.used \cup {x}
    BY <1>1
  <2>2. IsFiniteSet(u.used) /\ Cardinality(u.used) = Cardinality(v.used) + 1
    BY <2>a, <2>b
  <2>3. u.used \subseteq Sessions
    BY <1>1, <1>3
  <2>4. Cardinality(u.used) <= Cardinality(Sessions)
    BY <2>3, FS_Subset DEF FewSessions
  <2>5. Cardinality(v.used) \in Nat /\ Cardinality(Sessions) \in Nat
    BY <2>1, FS_CardinalityType DEF FewSessions
  <2>q. QED  BY <1>3, <2>1, <2>2, <2>4, <2>5 DEF FewSessions
<1>6. \A r \in v.refs : /\ r.gen \in 1 .. Wrap - 1 /\ r.id \in v.used
                        /\ Dist(r.gen, v.last) < Cardinality(v.used)
                        /\ Dist(r.gen, v.last) \in Int
  <2> SUFFICES ASSUME NEW r \in v.refs
               PROVE  /\ r.gen \in 1 .. Wrap - 1 /\ r.id \in v.used
                      /\ Dist(r.gen, v.last) < Cardinality(v.used)
                      /\ Dist(r.gen, v.last) \in Int
    OBVIOUS
  <2>1. r.gen \in 0 .. Wrap - 1
    BY DEF Conn, Ref
  <2>2. r.gen # 0 /\ r.id \in v.used /\ Dist(r.gen, v.last) < Cardinality(v.used)
    BY DEF RefSound
  <2>q. QED  BY <1>3, <2>1, <2>2 DEF Dist
<1>7. \A r \in v.refs : g # r.gen /\ Dist(r.gen, g) < Cardinality(u.used) /\ r.id # x
  <2> SUFFICES ASSUME NEW r \in v.refs
               PROVE  g # r.gen /\ Dist(r.gen, g) < Cardinality(u.used) /\ r.id # x
    OBVIOUS
  <2>1. Dist(r.gen, v.last) < Wrap - 2
    BY <1>3, <1>5, <1>6
  <2>2. g # r.gen /\ Dist(r.gen, g) = Dist(r.gen, v.last) + 1
    BY <1>1, <1>3, <1>6, <2>1, NextGen
  <2>q. QED  BY <1>5, <1>6, <2>2
<1>8. \A j \in SessSlots : u.id[j] # NoId => [slot |-> j, gen |-> u.gen[j], id |-> u.id[j]] \in u.refs
  <2> SUFFICES ASSUME NEW j \in SessSlots, u.id[j] # NoId
               PROVE  [slot |-> j, gen |-> u.gen[j], id |-> u.id[j]] \in u.refs
    OBVIOUS
  <2>1. v.id \in [SessSlots -> Ids] /\ v.gen \in [SessSlots -> 0 .. Wrap - 1]
    BY DEF Conn
  <2>2. CASE j = k
    <3>1. u.id[j] = x /\ u.gen[j] = g
      BY <1>1, <2>1, <2>2
    <3>q. QED  BY <1>1, <2>2, <3>1
  <2>3. CASE j # k
    <3>1. u.id[j] = v.id[j] /\ u.gen[j] = v.gen[j]
      BY <1>1, <2>1, <2>3
    <3>2. [slot |-> j, gen |-> v.gen[j], id |-> v.id[j]] \in v.refs
      BY <3>1 DEF RefSound
    <3>q. QED  BY <1>1, <3>1, <3>2
  <2>q. QED  BY <2>2, <2>3
<1>9. u.last = g /\ u.used = v.used \cup {x}
  BY <1>1
<1> HIDE DEF n
<1>10. \A r \in u.refs : r.gen # 0 /\ r.id \in u.used /\ Dist(r.gen, u.last) < Cardinality(u.used)
  <2>1. \A r \in v.refs : r.gen # 0
    BY DEF RefSound
  <2>q. QED  BY <1>2, <1>4, <1>5, <1>6, <1>7, <1>9, <2>1
<1>11. \A r, q \in u.refs : (r.gen = q.gen \/ r.id = q.id) => r = q
  <2>1. \A r, q \in v.refs : (r.gen = q.gen \/ r.id = q.id) => r = q
    BY DEF RefSound
  <2>q. QED  BY <1>2, <1>7, <2>1
<1>q. QED  BY <1>5, <1>8, <1>10, <1>11 DEF RefSound

-----------------------------------------------------------------------------
\* The inductive invariants.

\* Every step is quiet about sessions and references, or begins one session.
LEMMA StepKinds ==
  ASSUME WtInv, [WtNext]_wtVars
  PROVE  /\ WtInv'
         /\ \/ Quiet(w, w')
            \/ \E x \in Sessions : /\ x \notin w.used
                                   /\ \E v \in Conn : Quiet(w, v) /\ Begins(v, w', x)
<1>0. home \in [WtStreams -> Sessions] /\ Sound(w, home)
  BY DEF WtInv
<1>1. ASSUME NEW e \in Events, NEW again \in SUBSET SessSlots, WtStep(e, again)
      PROVE  To(w, w', home') /\ home' \in [WtStreams -> Sessions]
  BY <1>0, <1>1, StepSound
<1>2. ASSUME NEW x \in Sessions, NEW asks \in BOOLEAN, Connect(x, asks)
      PROVE  /\ Sound(w', home') /\ home' \in [WtStreams -> Sessions] /\ x \notin w.used
             /\ \E v \in Conn : Quiet(w, v) /\ Begins(v, w', x)
  BY <1>0, <1>2, ConnectSound DEF To, Sound
<1>3. ASSUME NEW k \in SessSlots, wired_server_wt_close_session(k)
      PROVE  To(w, w', home') /\ home' \in [WtStreams -> Sessions]
  BY <1>0, <1>3, CloseAskedSound
<1>4. ASSUME NEW k \in SessSlots, NEW s \in WtStreams, wired_server_wt_open_bidi(k, s)
      PROVE  To(w, w', home') /\ home' \in [WtStreams -> Sessions]
  BY <1>4, OpenSound
<1>5. ASSUME NEW k \in SessSlots, NEW s \in WtStreams, wired_server_wt_stream_reply(k, s)
      PROVE  To(w, w', home') /\ home' \in [WtStreams -> Sessions]
  BY <1>0, <1>5, ReplySound
<1>6. ASSUME NEW k \in SessSlots, NEW s \in WtStreams, wired_server_wt_stream_reset(k, s)
      PROVE  To(w, w', home') /\ home' \in [WtStreams -> Sessions]
  BY <1>0, <1>6, ResetAskedSound
<1>7. ASSUME NEW s \in WtStreams, srvrun_reap_one_wtsend(s)
      PROVE  To(w, w', home') /\ home' \in [WtStreams -> Sessions]
  BY <1>0, <1>7, ReapSound
<1>8. CASE UNCHANGED wtVars
  <2>1. To(w, w', home') /\ home' \in [WtStreams -> Sessions]
    BY <1>0, <1>8, ToSelf DEF wtVars
  <2>q. QED  BY <2>1, InvOfNext DEF To
<1>9. CASE WtNext
  <2>1. CASE \E x \in Sessions, asks \in BOOLEAN : Connect(x, asks)
    BY <1>2, <2>1, InvOfNext
  <2>2. CASE ~ \E x \in Sessions, asks \in BOOLEAN : Connect(x, asks)
    <3>1. To(w, w', home') /\ home' \in [WtStreams -> Sessions]
      BY <1>1, <1>3, <1>4, <1>5, <1>6, <1>7, <1>9, <2>2 DEF WtNext, Active
    <3>q. QED  BY <3>1, InvOfNext DEF To
  <2>q. QED  BY <2>1, <2>2
<1>q. QED  BY <1>8, <1>9

LEMMA InitSound ==
  ASSUME WtInit
  PROVE  WtInv /\ RefSound(w)
<1>1. FreeRx \in Rx /\ ~ FreeRx.use
  BY DEF Rx, FreeRx
<1>2. FreeTx \in Tx /\ ~ FreeTx.use
  BY DEF Tx, Ids, FreeTx
<1>3. home \in [WtStreams -> Sessions]
  BY WtAssumption DEF WtInit
<1> DEFINE d == [k \in SessSlots |-> NoId]
           g == [k \in SessSlots |-> 0]
           x == [i \in RxSlots |-> FreeRx]
           t == [s \in WtStreams |-> FreeTx]
           q == [s \in WtStreams |-> <<>>]
           o == [s \in WtStreams |-> 0]
<1>4. /\ d \in [SessSlots -> Ids] /\ g \in [SessSlots -> 0 .. Wrap - 1] /\ FirstGen \in 0 .. Wrap - 1
      /\ x \in [RxSlots -> Rx] /\ t \in [WtStreams -> Tx]
      /\ q \in [WtStreams -> Seq({0, 1})] /\ o \in [WtStreams -> Nat]
  <2>1. 0 \in 0 .. Wrap - 1 /\ FirstGen \in 0 .. Wrap - 1
    BY WtAssumption
  <2>2. NoId \in Ids
    BY DEF Ids
  <2>3. <<>> \in Seq({0, 1})
    OBVIOUS
  <2> HIDE DEF Ids
  <2>q. QED  BY <1>1, <1>2, <2>1, <2>2, <2>3
<1>5. /\ \A k \in SessSlots : d[k] = NoId
      /\ \A i \in RxSlots : x[i] = FreeRx
      /\ \A s \in WtStreams : t[s] = FreeTx /\ q[s] = <<>> /\ o[s] = 0
  OBVIOUS
<1>6. w = [id |-> d, gen |-> g, pend |-> d, last |-> FirstGen, rx |-> x, tx |-> t,
           closed |-> {}, sendDone |-> {}, opened |-> {}, used |-> {}, refs |-> {},
           heard |-> q, stray |-> {}, over |-> o]
  BY DEF WtInit
<1> HIDE DEF d, g, x, t, q, o
<1>7. /\ w \in Conn
      /\ w.id = d /\ w.rx = x /\ w.tx = t /\ w.heard = q /\ w.over = o /\ w.stray = {}
      /\ w.refs = {} /\ w.used = {}
  BY <1>4, <1>6 DEF Conn
<1>8. \A i \in RxSlots : RxSound(w, home, w.rx[i])
  BY <1>1, <1>5, <1>7 DEF RxSound, Placed
<1>9. \A s \in WtStreams : TxSound(w, s)
  BY <1>2, <1>5, <1>7 DEF TxSound
<1>10. PendSound(w)
  BY <1>5, <1>7 DEF PendSound
<1>11. HeardSound(w)
  BY <1>1, <1>5, <1>7 DEF HeardSound, OneSlot, Heards
<1>12. RefSound(w)
  <2>1. IsFiniteSet({})
    BY FS_EmptySet
  <2>q. QED  BY <1>5, <1>7, <2>1 DEF RefSound
<1>q. QED  BY <1>3, <1>7, <1>8, <1>9, <1>10, <1>11, <1>12 DEF WtInv, Sound

\* The connection's sessions and streams are sound, always.
THEOREM WtInvariant == WtSpec => []WtInv
<1>1. WtInit => WtInv
  BY InitSound
<1>2. WtInv /\ [WtNext]_wtVars => WtInv'
  BY StepKinds
<1>q. QED  BY <1>1, <1>2, PTL DEF WtSpec

\* The slots, ids and generations keep their types (the tables of srvrun_conn).
THEOREM WtTypeCorrect == WtSpec => []WtTypeOK
<1>1. WtInv => WtTypeOK
  BY DEF WtInv, Sound, Conn, WtTypeOK, Rx, Tx, Ids
<1>q. QED  BY <1>1, WtInvariant, PTL

\* However often session slots are used again, a stream's slots belong to the session it
\* was given to, a close ends only the session it was asked for, and nothing reaches another
\* session.  A stream is given to the session its signal names, unless it was offered while
\* the signal was incomplete.
THEOREM StreamsStayWithTheirSession == WtSpec => []OwnerIsItsSession
<1>1. WtInv => OwnerIsItsSession
  BY DEF WtInv, Sound, RxSound, Placed, TxSound, PendSound, OwnerIsItsSession
<1>q. QED  BY <1>1, WtInvariant, PTL

\* The send part of a stream ends once, and no send slot is claimed for it afterwards.
THEOREM SendPartsEndOnce == WtSpec => []SendEndsOnce
<1>1. WtInv => SendEndsOnce
  <2> SUFFICES ASSUME WtInv, NEW s \in WtStreams
               PROVE  w.over[s] <= 1 /\ (w.tx[s].use => w.over[s] = 0)
    BY DEF SendEndsOnce
  <2>1. TxSound(w, s)
    BY DEF WtInv, Sound
  <2>2. w.over[s] \in {0, 1} /\ (w.tx[s].use => w.over[s] = 0)
    BY <2>1 DEF TxSound
  <2>q. QED  BY <2>2
<1>q. QED  BY <1>1, WtInvariant, PTL

\* The application hears each piece of a stream once and in order, when the network does
\* not repeat the first piece of an open unidirectional stream (it may: the run wt_uni).
THEOREM BytesHeardOnce == ~ UniRepeats => (WtSpec => []HeardOnce)
<1>1. ~ UniRepeats /\ WtInv => HeardOnce
  BY DEF WtInv, Sound, HeardSound, Heards, HeardOnce
<1>2. SUFFICES ASSUME ~ UniRepeats PROVE WtSpec => []HeardOnce
  OBVIOUS
<1>3. WtInv => HeardOnce
  BY <1>1, <1>2
<1>q. QED  BY <1>3, WtInvariant, PTL

\* A reference resolves exactly while its session is open, as long as fewer sessions come
\* than there are generations.
THEOREM ReferencesExact == FewSessions => (WtSpec => []RefExact)
<1>0. SUFFICES ASSUME FewSessions PROVE WtSpec => []RefExact
  OBVIOUS
<1>1. WtInit => WtInv /\ RefSound(w)
  BY InitSound
<1>2. WtInv /\ RefSound(w) /\ [WtNext]_wtVars => WtInv' /\ RefSound(w)'
  <2> SUFFICES ASSUME WtInv, RefSound(w), [WtNext]_wtVars PROVE WtInv' /\ RefSound(w)'
    OBVIOUS
  <2>1. RefSound(w')
    <3>1. CASE Quiet(w, w')
      BY <3>1, RefQuiet
    <3>2. ASSUME NEW x \in Sessions, x \notin w.used,
                 NEW v \in Conn, Quiet(w, v), Begins(v, w', x)
          PROVE  RefSound(w')
      <4>1. RefSound(v) /\ x \notin v.used
        BY <3>2, RefQuiet DEF Quiet
      <4>q. QED  BY <1>0, <3>2, <4>1, RefBegins
    <3>q. QED  BY <3>1, <3>2, StepKinds
  <2>2. RefSound(w)'
    BY <2>1 DEF RefSound, Dist
  <2>q. QED  BY <2>2, StepKinds
<1>3. WtInv /\ RefSound(w) => RefExact
  <2> SUFFICES ASSUME WtInv, RefSound(w), NEW r \in w.refs
               PROVE  wired_wt_ref_get(w, r) <=> w.id[r.slot] = r.id
    BY DEF RefExact
  <2>1. /\ r \in Ref /\ r.slot \in SessSlots /\ r.id \in Sessions /\ r.id # NoId /\ r.gen # 0
        /\ r = [slot |-> r.slot, gen |-> r.gen, id |-> r.id]
    BY WtAssumption DEF WtInv, Sound, Conn, Ref, RefSound
  <2> DEFINE n == [slot |-> r.slot, gen |-> w.gen[r.slot], id |-> w.id[r.slot]]
  <2>2. n.gen = w.gen[r.slot] /\ n.id = w.id[r.slot]
    OBVIOUS
  <2>3. w.id[r.slot] # NoId => n \in w.refs
    BY <2>1 DEF RefSound
  <2> HIDE DEF n
  <2>4. n \in w.refs => ((r.gen = n.gen \/ r.id = n.id) => r = n)
    BY DEF RefSound
  <2>q. QED  BY <2>1, <2>2, <2>3, <2>4 DEF wired_wt_ref_get
<1>q. QED  BY <1>1, <1>2, <1>3, PTL DEF WtSpec
=============================================================================
