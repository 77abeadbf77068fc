------------------------- MODULE FlowCredit_proofs -------------------------
(***************************************************************************)
(* No stream exceeds its limit, for any number of streams and slots, any   *)
(* packet size and any limits.  The credit a slot holds is a limit the     *)
(* peer announced for that very stream, because a latched value is, and    *)
(* what a stream has sent is its one slot's cursor, because a stream is    *)
(* claimed once.  And the total cached for a send pass is the sum over the *)
(* slots, because the pass starts from a scan and every slice adds what it *)
(* sends.                                                                  *)
(***************************************************************************)
EXTENDS FlowCredit, ModLemmas

Slot == [in_use : BOOLEAN, stream : Streams \cup {None}, cur : Nat, len : Nat,
         credit : Nat, sdb : Nat]

\* The part of the state the argument is about, unbounded.
CreditTyped ==
  /\ slot \in [Slots -> Slot]
  /\ started \subseteq Streams
  /\ sent \in [Streams -> Nat]
  /\ limit \in [Streams -> Nat]
  /\ max_stream_data \in [DOMAIN max_stream_data -> Nat]
  /\ DOMAIN max_stream_data \subseteq Streams

\* Latched limits, and the credit of a slot, were announced for that stream.
LatchAnnounced == \A s \in DOMAIN max_stream_data : max_stream_data[s] <= limit[s]

\* A slot in use serves a claimed stream that no other slot serves; its cursor is
\* what the stream has sent.
SlotsSound ==
  /\ \A i \in Slots : slot[i].in_use =>
       /\ slot[i].stream \in started
       /\ slot[i].cur <= slot[i].len
       /\ slot[i].cur = sent[slot[i].stream]
       /\ slot[i].credit <= limit[slot[i].stream]
  /\ \A i, j \in Slots :
       slot[i].in_use /\ slot[j].in_use /\ slot[i].stream = slot[j].stream => i = j

Fresh == \A s \in Streams : InitStream <= limit[s] /\ (s \notin started => sent[s] = 0)

CreditInv == CreditTyped /\ LatchAnnounced /\ SlotsSound /\ Fresh /\ WithinStreamLimit

-----------------------------------------------------------------------------
\* The larger and the smaller of two numbers.
LEMMA MaxOfTwo ==
  ASSUME NEW a \in Int, NEW b \in Int
  PROVE  Max({a, b}) = IF a >= b THEN a ELSE b
  BY DEF Max

\* The least of two numbers.
LEMMA MinOfTwo ==
  ASSUME NEW a \in Int, NEW b \in Int
  PROVE  Min({a, b}) = IF a <= b THEN a ELSE b
  BY DEF Min

\* A frame carries a number no larger than the limit it was announced under.
LEMMA AnnouncedBelow ==
  ASSUME NEW from \in Nat, NEW newest \in Nat, from <= newest,
         NEW v \in Announced(from, newest)
  PROVE  v \in Nat /\ v <= newest
  BY DEF Announced

\* The invariant holds initially.
LEMMA CreditInit == Init => CreditInv
  BY CreditAssumption
  DEF Init, CreditInv, CreditTyped, LatchAnnounced, SlotsSound, Fresh,
      WithinStreamLimit, Free, Slot, NoLatch

\* The peer only raises limits.
LEMMA RaiseStreamKeeps ==
  ASSUME CreditInv, NEW s \in Streams, RaiseStream(s)
  PROVE  CreditInv'
  <1>1. /\ limit' \in [Streams -> Nat]
        /\ \A u \in Streams : limit[u] <= limit'[u]
    BY CreditAssumption DEF CreditInv, CreditTyped, RaiseStream
  <1>2. UNCHANGED <<slot, started, sent, max_stream_data>>
    BY DEF RaiseStream, server, latch
  <1>3. CreditTyped'
    BY <1>1, <1>2 DEF CreditInv, CreditTyped
  <1>4. LatchAnnounced'
    BY <1>1, <1>2 DEF CreditInv, CreditTyped, LatchAnnounced
  <1>5. SlotsSound'
    <2>1. ASSUME NEW i \in Slots, slot[i].in_use
          PROVE  slot[i].credit <= limit'[slot[i].stream]
      <3>1. slot[i].credit \in Nat /\ slot[i].stream \in Streams
        BY <2>1 DEF CreditInv, CreditTyped, SlotsSound, Slot
      <3>2. slot[i].credit <= limit[slot[i].stream]
        BY <2>1 DEF CreditInv, SlotsSound
      <3>q. QED  BY <3>1, <3>2, <1>1 DEF CreditInv, CreditTyped
    <2>q. QED  BY <2>1, <1>2 DEF CreditInv, SlotsSound
  <1>6. Fresh' /\ WithinStreamLimit'
    BY <1>1, <1>2, CreditAssumption
    DEF CreditInv, CreditTyped, Fresh, WithinStreamLimit
  <1>q. QED  BY <1>3, <1>4, <1>5, <1>6 DEF CreditInv

\* A latched value is one the peer announced for that stream.
LEMMA GatherKeeps ==
  ASSUME CreditInv, NEW s \in Streams, NEW v, GatherMaxStreamData(s, v)
  PROVE  CreditInv'
  <1>1. UNCHANGED <<slot, started, sent, limit>>
    BY DEF GatherMaxStreamData, server, peer
  <1>2. v \in Nat /\ v <= limit[s]
    <2>1. limit[s] \in Nat /\ InitStream <= limit[s] /\ InitStream \in Nat
      BY CreditAssumption DEF CreditInv, CreditTyped, Fresh
    <2>q. QED  BY <2>1, AnnouncedBelow DEF GatherMaxStreamData
  <1>3. /\ max_stream_data' \in [DOMAIN max_stream_data' -> Nat]
        /\ DOMAIN max_stream_data' \subseteq Streams
        /\ LatchAnnounced'
    <2>1. CASE max_stream_data' = max_stream_data
      BY <2>1, <1>1 DEF CreditInv, CreditTyped, LatchAnnounced
    <2>2. CASE max_stream_data' = Latched(s, v)
      BY <2>2, <1>1, <1>2 DEF CreditInv, CreditTyped, LatchAnnounced, Latched
    <2>q. QED  BY <2>1, <2>2 DEF GatherMaxStreamData
  <1>q. QED
    BY <1>1, <1>3 DEF CreditInv, CreditTyped, SlotsSound, Fresh, WithinStreamLimit

\* A slot's credit becomes the latched limit or stays; a reaped slot is free.
LEMMA ApplyKeeps ==
  ASSUME CreditInv, NEW acked \in SUBSET Slots, ApplyCredits(acked)
  PROVE  CreditInv'
  <1>1. UNCHANGED <<started, sent, limit>> /\ max_stream_data' = NoLatch
    BY DEF ApplyCredits, peer
  <1>2. ASSUME NEW i \in Slots, slot[i].in_use
        PROVE  /\ RaisedCredit(slot[i]) \in Nat
               /\ RaisedCredit(slot[i]) <= limit[slot[i].stream]
    <2>1. /\ slot[i].credit \in Nat /\ slot[i].stream \in Streams
          /\ slot[i].credit <= limit[slot[i].stream]
          /\ limit[slot[i].stream] \in Nat
      BY <1>2 DEF CreditInv, CreditTyped, SlotsSound, Slot
    <2>2. CASE slot[i].stream \in DOMAIN max_stream_data
      <3>1. /\ max_stream_data[slot[i].stream] \in Nat
            /\ max_stream_data[slot[i].stream] <= limit[slot[i].stream]
        BY <2>2 DEF CreditInv, CreditTyped, LatchAnnounced
      <3>q. QED  BY <2>1, <2>2, <3>1, MaxOfTwo DEF RaisedCredit
    <2>q. QED  BY <2>1, <2>2 DEF RaisedCredit
  <1>3. ASSUME NEW i \in Slots
        PROVE  /\ slot'[i] \in Slot
               /\ slot'[i].in_use => /\ slot[i].in_use
                                     /\ slot'[i].stream = slot[i].stream
                                     /\ slot'[i].cur = slot[i].cur
                                     /\ slot'[i].len = slot[i].len
                                     /\ slot'[i].credit <= limit[slot[i].stream]
    <2>1. slot[i] \in Slot
      BY DEF CreditInv, CreditTyped
    <2>2. CASE i \in acked
      <3>1. slot'[i] = Free
        BY <2>2 DEF ApplyCredits
      <3>q. QED  BY <3>1 DEF Free, Slot
    <2>3. CASE i \notin acked /\ i \in Live
      <3>1. slot'[i] = [slot[i] EXCEPT !.credit = RaisedCredit(slot[i])]
        BY <2>3 DEF ApplyCredits
      <3>2. slot[i].in_use
        BY <2>3 DEF Live
      <3>q. QED  BY <3>1, <3>2, <2>1, <1>2 DEF Slot
    <2>4. CASE i \notin acked /\ i \notin Live
      <3>1. slot'[i] = slot[i] /\ ~ slot[i].in_use
        BY <2>4 DEF ApplyCredits, Live
      <3>q. QED  BY <3>1, <2>1
    <2>q. QED  BY <2>2, <2>3, <2>4
  <1>4. slot' \in [Slots -> Slot]
    BY <1>3 DEF ApplyCredits
  <1>5. SlotsSound'
    BY <1>1, <1>3 DEF CreditInv, SlotsSound
  <1>q. QED
    BY <1>1, <1>4, <1>5
    DEF CreditInv, CreditTyped, LatchAnnounced, Fresh, WithinStreamLimit, NoLatch

\* A stream is claimed once, with nothing sent on it yet.
LEMMA StartKeeps ==
  ASSUME CreditInv, NEW s \in Streams, NEW i \in Slots, NEW n \in 1 .. MaxLen,
         StartResp(s, i, n)
  PROVE  CreditInv'
  <1> DEFINE new == [in_use |-> TRUE, stream |-> s, cur |-> 0,
                     len |-> n, credit |-> InitStream, sdb |-> 0]
  <1>1. UNCHANGED <<sent, limit, max_stream_data>> /\ started' = started \cup {s}
    BY DEF StartResp, latch, peer
  <1>2. n \in Nat /\ new \in Slot
    BY CreditAssumption DEF Slot
  <1>3. slot \in [Slots -> Slot] /\ slot' = [slot EXCEPT ![i] = new]
    BY DEF StartResp, CreditInv, CreditTyped
  <1>4. slot' \in [Slots -> Slot]
    BY <1>2, <1>3
  <1>5. s \notin started /\ sent[s] = 0 /\ InitStream <= limit[s]
    BY DEF StartResp, CreditInv, Fresh
  <1>6. SlotsSound'
    <2>1. ASSUME NEW j \in Slots, slot'[j].in_use
          PROVE  /\ slot'[j].stream \in started'
                 /\ slot'[j].cur <= slot'[j].len
                 /\ slot'[j].cur = sent'[slot'[j].stream]
                 /\ slot'[j].credit <= limit'[slot'[j].stream]
                 /\ j # i => slot'[j].stream \in started
                 /\ j # i => slot'[j] = slot[j]
      <3>1. CASE j = i
        <4>1. slot'[j] = new
          BY <3>1, <1>3
        <4>q. QED  BY <4>1, <3>1, <1>1, <1>2, <1>5
      <3>2. CASE j # i
        <4>1. slot'[j] = slot[j]
          BY <3>2, <1>3
        <4>q. QED  BY <4>1, <2>1, <1>1 DEF CreditInv, SlotsSound
      <3>q. QED  BY <3>1, <3>2
    <2>2. slot'[i].stream = s
      BY <1>3
    <2>3. ASSUME NEW j \in Slots, NEW k \in Slots, slot'[j].in_use, slot'[k].in_use,
                 slot'[j].stream = slot'[k].stream
          PROVE  j = k
      <3>1. CASE j # i /\ k # i
        BY <3>1, <2>1, <2>3 DEF CreditInv, SlotsSound
      <3>2. CASE j = i \/ k = i
        BY <3>2, <2>1, <2>2, <2>3, <1>5
      <3>q. QED  BY <3>1, <3>2
    <2>q. QED  BY <2>1, <2>3 DEF SlotsSound
  <1>7. started' \subseteq Streams
    BY <1>1 DEF CreditInv, CreditTyped
  <1>q. QED
    BY <1>1, <1>4, <1>6, <1>7
    DEF CreditInv, CreditTyped, LatchAnnounced, Fresh, WithinStreamLimit

\* srvrun_resp_stop keeps it.
LEMMA StopKeeps ==
  ASSUME CreditInv, NEW i \in Slots, StopResp(i)
  PROVE  CreditInv'
  <1>1. UNCHANGED <<started, sent, limit, max_stream_data>>
    BY DEF StopResp, latch, peer
  <1>2. slot \in [Slots -> Slot] /\ slot' = [slot EXCEPT ![i] = Free]
    BY DEF StopResp, CreditInv, CreditTyped
  <1>3. Free \in Slot /\ ~ Free.in_use
    BY DEF Free, Slot
  <1>4. slot' \in [Slots -> Slot]
    BY <1>2, <1>3
  <1>5. \A j \in Slots : slot'[j].in_use => slot'[j] = slot[j]
    BY <1>2, <1>3
  <1>6. SlotsSound'
    BY <1>1, <1>5 DEF CreditInv, SlotsSound
  <1>q. QED
    BY <1>1, <1>4, <1>6
    DEF CreditInv, CreditTyped, LatchAnnounced, Fresh, WithinStreamLimit

\* The gate: a packet is sent only when a full one fits the credit, so what the
\* stream has sent afterwards is within its limit.
LEMMA PumpKeeps ==
  ASSUME CreditInv, NEW i \in Slots, PumpOne(i)
  PROVE  CreditInv'
  <1> DEFINE n == Min({Mps, slot[i].len - slot[i].cur})
             u == slot[i].stream
  <1>1. UNCHANGED <<started, limit, max_stream_data>>
    BY DEF PumpOne, latch, peer
  <1>2. slot[i].in_use
    BY DEF PumpOne, Live
  <1>3. /\ slot \in [Slots -> Slot] /\ slot[i] \in Slot
        /\ sent \in [Streams -> Nat]
    BY DEF CreditInv, CreditTyped
  <1>4. /\ u \in Streams /\ slot[i].cur \in Nat /\ slot[i].len \in Nat
        /\ slot[i].credit \in Nat /\ slot[i].cur < slot[i].len
        /\ sent[u] = slot[i].cur /\ slot[i].credit <= limit[u] /\ limit[u] \in Nat
        /\ u \in started
    BY <1>2, <1>3 DEF PumpOne, CreditInv, CreditTyped, SlotsSound, Slot
  <1>5. /\ n \in Nat /\ n <= Mps /\ slot[i].cur + n <= slot[i].len
    <2>1. Mps \in Nat /\ Mps \in Int /\ slot[i].len - slot[i].cur \in Int
      BY <1>4, CreditAssumption
    <2>2. n = IF Mps <= slot[i].len - slot[i].cur THEN Mps ELSE slot[i].len - slot[i].cur
      BY <2>1, MinOfTwo
    <2>q. QED  BY <1>4, <2>1, <2>2
  <1>6. slot[i].cur + n <= limit[u]
    BY <1>4, <1>5, CreditAssumption DEF PumpOne, stream_credit_room
  <1>7. slot' = [slot EXCEPT ![i].cur = @ + n] /\ sent' = [sent EXCEPT ![u] = @ + n]
    BY DEF PumpOne
  <1>8. /\ slot'[i] = [slot[i] EXCEPT !.cur = @ + n]
        /\ \A j \in Slots : j # i => slot'[j] = slot[j]
        /\ sent'[u] = slot[i].cur + n
        /\ \A s \in Streams : s # u => sent'[s] = sent[s]
    BY <1>3, <1>4, <1>7
  <1>9. /\ slot'[i] \in Slot /\ slot'[i].in_use
        /\ slot'[i].cur = slot[i].cur + n /\ slot'[i].len = slot[i].len
        /\ slot'[i].credit = slot[i].credit /\ slot'[i].stream = u
    BY <1>2, <1>3, <1>4, <1>5, <1>8 DEF Slot
  <1>10. slot' \in [Slots -> Slot] /\ sent' \in [Streams -> Nat]
    BY <1>3, <1>4, <1>5, <1>7, <1>8, <1>9
  <1>11. SlotsSound'
    <2>1. ASSUME NEW j \in Slots, slot'[j].in_use
          PROVE  /\ slot[j].in_use /\ slot'[j].stream = slot[j].stream
                 /\ slot'[j].stream \in started'
                 /\ slot'[j].cur <= slot'[j].len
                 /\ slot'[j].cur = sent'[slot'[j].stream]
                 /\ slot'[j].credit <= limit'[slot'[j].stream]
      <3>1. CASE j = i
        BY <3>1, <1>1, <1>2, <1>4, <1>5, <1>8, <1>9
      <3>2. CASE j # i
        <4>1. slot'[j] = slot[j] /\ slot[j].in_use
          BY <3>2, <2>1, <1>8
        <4>2. slot[j].stream # u /\ slot[j].stream \in Streams
          BY <3>2, <4>1, <1>2 DEF CreditInv, CreditTyped, SlotsSound
        <4>q. QED  BY <4>1, <4>2, <1>1, <1>8 DEF CreditInv, SlotsSound
      <3>q. QED  BY <3>1, <3>2
    <2>q. QED  BY <2>1 DEF CreditInv, SlotsSound
  <1>12. WithinStreamLimit' /\ Fresh'
    BY <1>1, <1>4, <1>6, <1>8 DEF CreditInv, WithinStreamLimit, Fresh
  <1>q. QED
    BY <1>1, <1>10, <1>11, <1>12 DEF CreditInv, CreditTyped, LatchAnnounced

\* A blocked pass keeps it.
LEMMA BlockedKeeps ==
  ASSUME CreditInv, NEW i \in Slots, NEW lost, PumpBlocked(i, lost)
  PROVE  CreditInv'
  <1>1. UNCHANGED <<started, sent, limit, max_stream_data>>
    BY DEF PumpBlocked, latch
  <1>2. slot \in [Slots -> Slot] /\ slot[i] \in Slot /\ slot[i].credit \in Nat
    BY DEF CreditInv, CreditTyped, Slot
  <1>3. CASE slot' = slot
    BY <1>1, <1>3
    DEF CreditInv, CreditTyped, LatchAnnounced, SlotsSound, Fresh, WithinStreamLimit
  <1>4. CASE slot' = [slot EXCEPT ![i].sdb = slot[i].credit]
    <2>1. slot'[i] = [slot[i] EXCEPT !.sdb = slot[i].credit]
      BY <1>2, <1>4
    <2>2. \A j \in Slots : j # i => slot'[j] = slot[j]
      BY <1>2, <1>4
    <2>3. /\ slot'[i] \in Slot /\ slot'[i].in_use = slot[i].in_use
          /\ slot'[i].stream = slot[i].stream /\ slot'[i].cur = slot[i].cur
          /\ slot'[i].len = slot[i].len /\ slot'[i].credit = slot[i].credit
      BY <1>2, <2>1 DEF Slot
    <2>4. slot' \in [Slots -> Slot]
      BY <1>2, <1>4, <2>2, <2>3
    <2>5. \A j \in Slots : /\ slot'[j].in_use = slot[j].in_use
                            /\ slot'[j].stream = slot[j].stream
                            /\ slot'[j].cur = slot[j].cur
                            /\ slot'[j].len = slot[j].len
                            /\ slot'[j].credit = slot[j].credit
      BY <2>2, <2>3
    <2>6. SlotsSound'
      BY <1>1, <2>5 DEF CreditInv, SlotsSound
    <2>q. QED
      BY <1>1, <2>4, <2>6
      DEF CreditInv, CreditTyped, LatchAnnounced, Fresh, WithinStreamLimit
  <1>q. QED  BY <1>3, <1>4 DEF PumpBlocked

-----------------------------------------------------------------------------
\* Every step keeps it.
LEMMA CreditStep == CreditInv /\ [Next]_vars => CreditInv'
  <1> SUFFICES ASSUME CreditInv, [Next]_vars
               PROVE  CreditInv'
    OBVIOUS
  <1> DEFINE same == UNCHANGED <<slot, started, sent, limit, max_stream_data>>
  <1>0. ASSUME same PROVE CreditInv'
    BY <1>0 DEF CreditInv, CreditTyped, LatchAnnounced, SlotsSound, Fresh,
                WithinStreamLimit
  <1>1. CASE Peer
    <2>1. CASE RaiseData
      BY <2>1, <1>0 DEF RaiseData, server, latch
    <2>2. ASSUME NEW s \in Streams, RaiseStream(s) PROVE CreditInv'
      BY <2>2, RaiseStreamKeeps
    <2>3. ASSUME NEW v, GatherMaxData(v) PROVE CreditInv'
      BY <2>3, <1>0 DEF GatherMaxData, server, peer
    <2>4. ASSUME NEW s \in Streams, NEW v, GatherMaxStreamData(s, v) PROVE CreditInv'
      BY <2>4, GatherKeeps
    <2>q. QED  BY <1>1, <2>1, <2>2, <2>3, <2>4 DEF Peer
  <1>2. CASE Step
    <2>1. ASSUME NEW acked \in SUBSET Slots, ApplyCredits(acked) PROVE CreditInv'
      BY <2>1, ApplyKeeps
    <2>2. ASSUME NEW s \in Streams, NEW i \in Slots, NEW n \in 1 .. MaxLen,
                 StartResp(s, i, n)
          PROVE  CreditInv'
      BY <2>2, StartKeeps
    <2>3. ASSUME NEW i \in Slots, StopResp(i) PROVE CreditInv'
      BY <2>3, StopKeeps
    <2>4. CASE PumpStarts
      BY <2>4, <1>0 DEF PumpStarts, latch, peer
    <2>5. CASE PumpEnds
      BY <2>5, <1>0 DEF PumpEnds, server, latch, peer
    <2>q. QED  BY <1>2, <2>1, <2>2, <2>3, <2>4, <2>5 DEF Step
  <1>3. ASSUME NEW i \in Slots, PumpOne(i) PROVE CreditInv'
    BY <1>3, PumpKeeps
  <1>4. ASSUME NEW i \in Slots, NEW lost, PumpBlocked(i, lost) PROVE CreditInv'
    BY <1>4, BlockedKeeps
  <1>5. CASE UNCHANGED vars
    BY <1>5, <1>0 DEF vars, server, latch, peer
  <1>q. QED  BY <1>1, <1>2, <1>3, <1>4, <1>5 DEF Next

\* RFC 9000 4.1 for every number of streams and slots, every packet size and all
\* limits, with frames late, repeated, reordered and early: no stream is sent
\* beyond the limit its peer announced (srvrun_sess_credit_room with the raise-only
\* srvrun_apply_one_stream_credit_update).
THEOREM StreamLimitKept == Spec => []WithinStreamLimit
  <1>1. Spec => []CreditInv
    BY CreditInit, CreditStep, PTL DEF Spec
  <1>2. CreditInv => WithinStreamLimit
    BY DEF CreditInv
  <1>q. QED  BY <1>1, <1>2, PTL

-----------------------------------------------------------------------------
\* The scan adds up the cursors of the slots in use.
ConsumedSum ==
  \E h : /\ IsSum(Live, [i \in Live |-> slot[i].cur], h)
         /\ conn_consumed_bytes = h[Live]

\* consumed is the sum of the cursors of the slots in use.
LEMMA ConsumedIs == CreditTyped => ConsumedSum
  <1> SUFFICES ASSUME CreditTyped PROVE ConsumedSum
    OBVIOUS
  <1> DEFINE w == [i \in Live |-> slot[i].cur]
             Body(h, s) == IF s = {} THEN 0
                           ELSE slot[CHOOSE x \in s : TRUE].cur
                                + h[s \ {CHOOSE x \in s : TRUE}]
             it == CHOOSE it : it = [s \in SUBSET Live |-> Body(it, s)]
  <1>1. IsFiniteSet(Live)
    BY CreditAssumption, FS_Subset DEF Live
  <1>2. w \in [Live -> Nat]
    BY DEF CreditTyped, Slot, Live
  <1>3. PICK h \in [SUBSET Live -> Nat] : IsSum(Live, w, h)
    BY <1>1, <1>2, SumExists
  <1>4. ASSUME NEW s \in SUBSET Live PROVE h[s] = Body(h, s)
    <2>1. CASE s = {}
      BY <2>1, <1>3 DEF IsSum
    <2>2. CASE s # {}
      <3>1. (CHOOSE x \in s : TRUE) \in Live
        BY <2>2
      <3>2. w[CHOOSE x \in s : TRUE] = slot[CHOOSE x \in s : TRUE].cur
        BY <3>1
      <3>q. QED  BY <2>2, <3>2, <1>3 DEF IsSum
    <2>q. QED  BY <2>1, <2>2
  <1>5. h = [s \in SUBSET Live |-> Body(h, s)]
    <2>1. h = [s \in SUBSET Live |-> h[s]]
      BY <1>3 DEF IsSum
    <2>q. QED  BY <2>1, <1>4
  <1>6. it = [s \in SUBSET Live |-> Body(it, s)]
    BY <1>5
  <1>7. conn_consumed_bytes = it[Live]
    BY DEF conn_consumed_bytes, MapThenSumSet, MapThenFoldSet
  <1> HIDE DEF it
  <1>8. IsSum(Live, w, it)
    <2>1. ASSUME NEW s \in SUBSET Live
          PROVE  it[s] = IF s = {} THEN 0
                         ELSE w[CHOOSE x \in s : TRUE] + it[s \ {CHOOSE x \in s : TRUE}]
      <3>1. it[s] = Body(it, s)
        BY <1>6
      <3>2. CASE s = {}
        BY <3>1, <3>2
      <3>3. CASE s # {}
        <4>1. (CHOOSE x \in s : TRUE) \in Live
          BY <3>3
        <4>2. w[CHOOSE x \in s : TRUE] = slot[CHOOSE x \in s : TRUE].cur
          BY <4>1
        <4>q. QED  BY <3>1, <3>3, <4>2
      <3>q. QED  BY <3>2, <3>3
    <2>q. QED  BY <2>1 DEF IsSum
  <1>q. QED  BY <1>7, <1>8 DEF ConsumedSum

\* A slice moves the scan's total by its length.
LEMMA ConsumedBump ==
  ASSUME CreditInv, NEW i \in Slots, PumpOne(i)
  PROVE  conn_consumed_bytes' = conn_consumed_bytes + Min({Mps, slot[i].len - slot[i].cur})
  <1> DEFINE n == Min({Mps, slot[i].len - slot[i].cur})
             w == [j \in Live |-> slot[j].cur]
             v == [j \in Live |-> slot'[j].cur]
  <1>1. slot \in [Slots -> Slot] /\ slot[i] \in Slot /\ slot[i].in_use /\ i \in Live
    BY DEF CreditInv, CreditTyped, PumpOne, Live
  <1>2. n \in Nat
    <2>1. slot[i].cur \in Nat /\ slot[i].len \in Nat /\ slot[i].cur < slot[i].len
      BY <1>1 DEF PumpOne, Slot
    <2>q. QED  BY <2>1, CreditAssumption, MinOfTwo
  <1>3. slot' = [slot EXCEPT ![i].cur = @ + n]
    BY DEF PumpOne
  <1> HIDE DEF n
  <1>4. /\ slot'[i] = [slot[i] EXCEPT !.cur = @ + n]
        /\ \A j \in Slots : j # i => slot'[j] = slot[j]
        /\ DOMAIN slot' = Slots
    BY <1>1, <1>3
  <1>5. /\ slot'[i].in_use = slot[i].in_use /\ slot'[i].cur = slot[i].cur + n
    BY <1>1, <1>4 DEF Slot
  <1>6. Live' = Live
    BY <1>4, <1>5 DEF Live
  <1>7. CreditTyped /\ CreditTyped'
    BY PumpKeeps DEF CreditInv
  <1>8. PICK g : IsSum(Live, w, g) /\ conn_consumed_bytes = g[Live]
    BY <1>7, ConsumedIs DEF ConsumedSum
  <1>9. PICK h : IsSum(Live', [j \in Live' |-> slot'[j].cur], h) /\ conn_consumed_bytes' = h[Live']
    <2>1. ConsumedSum'
      BY <1>7, ConsumedIs, PTL
    <2>q. QED  BY <2>1 DEF ConsumedSum
  <1>10. IsSum(Live, v, h) /\ conn_consumed_bytes' = h[Live]
    BY <1>6, <1>9
  <1>11. /\ w \in [Live -> Nat] /\ v \in [Live -> Nat]
    BY <1>6, <1>7 DEF CreditTyped, Slot, Live
  <1>12. v[i] = w[i] + n /\ \A j \in Live \ {i} : v[j] = w[j]
    BY <1>1, <1>4, <1>5 DEF Live
  <1>13. IsFiniteSet(Live)
    BY CreditAssumption, FS_Subset DEF Live
  <1> HIDE DEF w, v
  <1>14. h[Live] = g[Live] + n
    BY <1>1, <1>2, <1>8, <1>10, <1>11, <1>12, <1>13, SumBump
  <1>q. QED  BY <1>8, <1>10, <1>14 DEF n

\* ... and nothing else moves it.
LEMMA ConsumedSame ==
  ASSUME CreditTyped, CreditTyped', Live' = Live, \A i \in Live : slot'[i].cur = slot[i].cur
  PROVE  conn_consumed_bytes' = conn_consumed_bytes
  <1> DEFINE w == [j \in Live |-> slot[j].cur]
  <1>1. PICK g : IsSum(Live, w, g) /\ conn_consumed_bytes = g[Live]
    BY ConsumedIs DEF ConsumedSum
  <1>2. PICK h : IsSum(Live', [j \in Live' |-> slot'[j].cur], h) /\ conn_consumed_bytes' = h[Live']
    <2>1. ConsumedSum'
      BY ConsumedIs, PTL
    <2>q. QED  BY <2>1 DEF ConsumedSum
  <1>3. IsSum(Live, w, h) /\ conn_consumed_bytes' = h[Live]
    <2>1. [j \in Live' |-> slot'[j].cur] = w
      OBVIOUS
    <2>q. QED  BY <1>2, <2>1
  <1>4. w \in [Live -> Nat] /\ IsFiniteSet(Live)
    BY CreditAssumption, FS_Subset DEF CreditTyped, Slot, Live
  <1> HIDE DEF w
  <1>5. CASE Live = {}
    BY <1>1, <1>3, <1>5 DEF IsSum
  <1>6. CASE Live # {}
    <2>1. PICK i \in Live : TRUE
      BY <1>6
    <2>2. w[i] = w[i] + 0
      BY <1>4
    <2>3. g[Live] \in Nat
      BY <1>1, <1>4, SumTyped
    <2>4. h[Live] = g[Live] + 0
      BY <1>1, <1>3, <1>4, <2>1, <2>2, SumBump
    <2>q. QED  BY <1>1, <1>3, <2>3, <2>4
  <1>q. QED  BY <1>5, <1>6

\* Every step keeps the cached total exact.
LEMMA AcctStep == CreditInv /\ AcctExact /\ [Next]_vars => AcctExact'
  <1> SUFFICES ASSUME CreditInv, AcctExact, [Next]_vars
               PROVE  AcctExact'
    OBVIOUS
  <1>t. CreditTyped /\ CreditTyped'
    BY CreditStep DEF CreditInv
  <1>0. ASSUME slot' = slot PROVE conn_consumed_bytes' = conn_consumed_bytes
    BY <1>0, <1>t, ConsumedSame DEF Live
  <1>1. CASE Peer
    BY <1>1 DEF Peer, RaiseData, RaiseStream, GatherMaxData, GatherMaxStreamData, AcctExact
  <1>2. CASE Step
    <2>1. CASE PumpStarts
      BY <2>1, <1>0 DEF PumpStarts, AcctExact
    <2>2. CASE ~ PumpStarts
      BY <1>2, <2>2 DEF Step, ApplyCredits, StartResp, StopResp, PumpEnds, AcctExact
    <2>q. QED  BY <2>1, <2>2
  <1>3. ASSUME NEW i \in Slots, PumpOne(i) PROVE AcctExact'
    <2>1. acct' = acct + Min({Mps, slot[i].len - slot[i].cur}) /\ phase = "pump"
      BY <1>3 DEF PumpOne
    <2>q. QED  BY <1>3, <2>1, ConsumedBump DEF AcctExact
  <1>4. ASSUME NEW i \in Slots, NEW lost, PumpBlocked(i, lost) PROVE AcctExact'
    <2>1. acct' = acct /\ phase = "pump"
      BY <1>4 DEF PumpBlocked
    <2>2. /\ DOMAIN slot' = Slots
          /\ \A j \in Slots : slot'[j].in_use = slot[j].in_use /\ slot'[j].cur = slot[j].cur
      <3>1. slot' = slot \/ slot' = [slot EXCEPT ![i].sdb = slot[i].credit]
        BY <1>4 DEF PumpBlocked
      <3>q. QED  BY <3>1, <1>t DEF CreditTyped, Slot
    <2>3. Live' = Live
      BY <2>2 DEF Live
    <2>4. conn_consumed_bytes' = conn_consumed_bytes
      <3>1. \A j \in Live : slot'[j].cur = slot[j].cur
        BY <2>2 DEF Live
      <3>q. QED  BY <3>1, <2>3, <1>t, ConsumedSame
    <2>q. QED  BY <2>1, <2>4 DEF AcctExact
  <1>5. CASE UNCHANGED vars
    <2>1. UNCHANGED <<slot, acct, phase>>
      BY <1>5 DEF vars, server
    <2>q. QED  BY <2>1, <1>0 DEF AcctExact
  <1>q. QED  BY <1>1, <1>2, <1>3, <1>4, <1>5 DEF Next

\* The cached total that gates every slice is the scan's total in every send pass,
\* for any number of slots (srvrun_acct_resync at the pass's start, then one
\* addition per slice in srvrun_pump_one).
THEOREM AcctKept == Spec => []AcctExact
  <1>1. Init => AcctExact
    BY DEF Init, AcctExact
  <1>2. Spec => [](CreditInv /\ AcctExact)
    BY <1>1, CreditInit, CreditStep, AcctStep, PTL DEF Spec
  <1>q. QED  BY <1>2, PTL

-----------------------------------------------------------------------------
\* TypeOK, whose count of latch entries needs that there are finitely many.
CreditTypes == CreditInv /\ TypeOK /\ IsFiniteSet(DOMAIN max_stream_data)

\* The slots of TypeOK.
BoundSlot == [in_use : BOOLEAN, stream : Streams \cup {None}, cur : 0 .. MaxLen,
              len : 0 .. MaxLen, credit : 0 .. MaxLimit, sdb : 0 .. MaxLimit]

\* The scan's total is a number.
LEMMA ConsumedTyped == CreditTyped => conn_consumed_bytes \in Nat
  <1> SUFFICES ASSUME CreditTyped PROVE conn_consumed_bytes \in Nat
    OBVIOUS
  <1> DEFINE w == [i \in Live |-> slot[i].cur]
  <1>1. IsFiniteSet(Live) /\ w \in [Live -> Nat]
    <2>1. Live \in SUBSET Slots /\ \A i \in Live : slot[i].cur \in Nat
      BY DEF Live, CreditTyped, Slot
    <2>q. QED  BY <2>1, CreditAssumption, FS_Subset
  <1>2. PICK h : IsSum(Live, w, h) /\ conn_consumed_bytes = h[Live]
    BY ConsumedIs DEF ConsumedSum
  <1> HIDE DEF w
  <1>3. \A s \in SUBSET Live : h[s] \in Nat
    BY <1>1, <1>2, SumTyped
  <1>q. QED  BY <1>2, <1>3

\* CreditTypes holds initially.
LEMMA TypesInit == Init => CreditTypes
  <1> SUFFICES ASSUME Init PROVE CreditTypes
    OBVIOUS
  <1>1. DOMAIN max_stream_data = {}
    BY DEF Init, NoLatch
  <1>2. IsFiniteSet({}) /\ Cardinality({}) = 0
    BY FS_EmptySet
  <1>3. slot \in [Slots -> BoundSlot]
    BY CreditAssumption DEF Init, Free, BoundSlot
  <1>4. max_stream_data \in [DOMAIN max_stream_data -> 0 .. MaxLimit]
    BY DEF Init, NoLatch
  <1>6. 0 \in 0 .. MaxLen /\ 0 \in 0 .. MaxLimit /\ SeenCap >= 0
    BY CreditAssumption
  <1>7. /\ sent \in [Streams -> 0 .. MaxLen] /\ limit \in [Streams -> 0 .. MaxLimit]
        /\ limit_data \in 0 .. MaxLimit /\ conn_credit \in 0 .. MaxLimit
        /\ blocked_at \in 0 .. MaxLimit /\ max_data_seen \in 0 .. MaxLimit
    BY <1>6, CreditAssumption DEF Init
  <1>5. TypeOK
    BY <1>1, <1>2, <1>3, <1>4, <1>6, <1>7 DEF Init, TypeOK, BoundSlot
  <1>q. QED  BY <1>1, <1>2, <1>5, CreditInit DEF CreditTypes

\* A frame that is gathered stays within the bound of the limits, and the latch within
\* its entries.
LEMMA GatherTyped ==
  ASSUME CreditTypes, NEW s \in Streams, NEW v \in 0 .. MaxLimit, GatherMaxStreamData(s, v)
  PROVE  TypeOK' /\ IsFiniteSet(DOMAIN max_stream_data')
  <1> DEFINE D == DOMAIN max_stream_data
  <1>1. UNCHANGED <<server, max_data_seen, phase, sent, peer>>
    BY DEF GatherMaxStreamData
  <1>2. CASE max_stream_data' = max_stream_data
    BY <1>1, <1>2 DEF CreditTypes, TypeOK, server, peer
  <1>3. CASE max_stream_data_slot(s) /\ max_stream_data' = Latched(s, v)
    <2>1. DOMAIN max_stream_data' = D \cup {s} /\ IsFiniteSet(D)
      BY <1>3 DEF Latched, CreditTypes
    <2>2. max_stream_data' \in [D \cup {s} -> 0 .. MaxLimit]
      BY <1>3 DEF Latched, CreditTypes, TypeOK
    <2>3. /\ IsFiniteSet(D \cup {s}) /\ Cardinality(D) \in Nat
          /\ Cardinality(D \cup {s}) = IF s \in D THEN Cardinality(D) ELSE Cardinality(D) + 1
      BY <2>1, FS_AddElement, FS_CardinalityType
    <2>4. Cardinality(D \cup {s}) <= SeenCap
      BY <1>3, <2>3, CreditAssumption DEF max_stream_data_slot, CreditTypes, TypeOK
    <2>q. QED  BY <1>1, <2>1, <2>2, <2>3, <2>4 DEF CreditTypes, TypeOK, server, peer
  <1>q. QED  BY <1>2, <1>3 DEF GatherMaxStreamData

\* Applying the latches raises credits to latched values and frees what was acknowledged.
LEMMA ApplyTyped ==
  ASSUME CreditTypes, NEW acked \in SUBSET Slots, ApplyCredits(acked)
  PROVE  TypeOK' /\ IsFiniteSet(DOMAIN max_stream_data')
  <1>1. conn_consumed_bytes \in Nat
    BY ConsumedTyped DEF CreditTypes, CreditInv
  <1>2. conn_credit' \in 0 .. MaxLimit
    <2>1. conn_credit \in Int /\ max_data_seen \in Int
      BY CreditAssumption DEF CreditTypes, TypeOK
    <2>2. conn_credit' \in {conn_credit, max_data_seen}
      BY <2>1, MaxOfTwo DEF ApplyCredits
    <2>q. QED  BY <2>2 DEF CreditTypes, TypeOK
  <1>3. slot' \in [Slots -> BoundSlot]
    <2>0. slot \in [Slots -> BoundSlot]
      BY DEF CreditTypes, TypeOK, BoundSlot
    <2>1. ASSUME NEW i \in Slots  PROVE RaisedCredit(slot[i]) \in 0 .. MaxLimit
      <3>0. slot[i] \in BoundSlot /\ slot[i].credit \in 0 .. MaxLimit
        BY <2>0 DEF BoundSlot
      <3>1. CASE slot[i].stream \in DOMAIN max_stream_data
        <4> DEFINE a == slot[i].credit
                   b == max_stream_data[slot[i].stream]
        <4>1. a \in 0 .. MaxLimit /\ b \in 0 .. MaxLimit /\ RaisedCredit(slot[i]) = Max({a, b})
          BY <3>0, <3>1 DEF CreditTypes, TypeOK, RaisedCredit
        <4> HIDE DEF a, b
        <4>2. Max({a, b}) = IF a >= b THEN a ELSE b
          BY <4>1, CreditAssumption, MaxOfTwo
        <4>q. QED  BY <4>1, <4>2
      <3>2. CASE slot[i].stream \notin DOMAIN max_stream_data
        BY <3>0, <3>2 DEF RaisedCredit
      <3>q. QED  BY <3>1, <3>2
    <2>2. Free \in BoundSlot
      BY CreditAssumption DEF Free, BoundSlot
    <2>3. ASSUME NEW i \in Slots
          PROVE  [slot[i] EXCEPT !.credit = RaisedCredit(slot[i])] \in BoundSlot
      <3>1. slot[i] \in BoundSlot /\ RaisedCredit(slot[i]) \in 0 .. MaxLimit
        BY <2>0, <2>1
      <3>q. QED  BY <3>1 DEF BoundSlot
    <2>q. QED  BY <2>0, <2>2, <2>3 DEF ApplyCredits
  <1>4. /\ max_stream_data' = NoLatch /\ DOMAIN NoLatch = {}
        /\ NoLatch \in [DOMAIN NoLatch -> 0 .. MaxLimit]
    BY DEF ApplyCredits, NoLatch
  <1>5. IsFiniteSet({}) /\ Cardinality({}) = 0
    BY FS_EmptySet
  <1>6. /\ acct' = conn_consumed_bytes /\ max_data_seen' = 0 /\ phase' = "start"
        /\ flying' \in BOOLEAN
        /\ UNCHANGED <<started, blocked_at, sent, peer>>
    BY DEF ApplyCredits
  <1>q. QED
    BY <1>1, <1>2, <1>3, <1>4, <1>5, <1>6, CreditAssumption
    DEF CreditTypes, TypeOK, BoundSlot, peer

\* A slice moves the cursor up to the length at most.
LEMMA PumpTyped ==
  ASSUME CreditTypes, NEW i \in Slots, PumpOne(i)
  PROVE  TypeOK' /\ IsFiniteSet(DOMAIN max_stream_data')
  <1> DEFINE n == Min({Mps, slot[i].len - slot[i].cur})
             s == slot[i].stream
  <1>0. slot \in [Slots -> BoundSlot] /\ slot[i] \in BoundSlot
    BY DEF CreditTypes, TypeOK, BoundSlot
  <1>1. /\ slot[i].in_use /\ slot[i].cur < slot[i].len /\ slot[i].len \in 0 .. MaxLen
        /\ slot[i].cur \in 0 .. MaxLen
    BY <1>0 DEF PumpOne, Live, BoundSlot
  <1>2. n \in Nat /\ slot[i].cur + n <= slot[i].len
    <2>1. Mps \in Int /\ slot[i].len - slot[i].cur \in Int
      BY <1>1, CreditAssumption
    <2>2. n = IF Mps <= slot[i].len - slot[i].cur THEN Mps ELSE slot[i].len - slot[i].cur
      BY <2>1, MinOfTwo
    <2>q. QED  BY <1>1, <2>2, CreditAssumption
  <1> HIDE DEF n
  <1>3. slot[i].cur + n \in 0 .. MaxLen
    BY <1>1, <1>2, CreditAssumption
  <1>4. s \in Streams /\ sent[s] = slot[i].cur
    BY <1>1 DEF CreditTypes, CreditInv, SlotsSound, CreditTyped
  <1>5. slot' = [slot EXCEPT ![i].cur = slot[i].cur + n]
    BY DEF PumpOne, n
  <1>6. slot' \in [Slots -> BoundSlot]
    BY <1>0, <1>3, <1>5 DEF BoundSlot
  <1>7. sent' = [sent EXCEPT ![s] = slot[i].cur + n]
    BY <1>4 DEF PumpOne, n
  <1>8. sent' \in [Streams -> 0 .. MaxLen]
    BY <1>3, <1>4, <1>7 DEF CreditTypes, TypeOK
  <1>9. acct' = acct + n /\ flying' = TRUE
        /\ UNCHANGED <<started, conn_credit, blocked_at, latch, phase, peer>>
    BY DEF PumpOne, n
  <1>10. acct' \in Nat
    BY <1>2, <1>9 DEF CreditTypes, TypeOK
  <1>q. QED
    BY <1>6, <1>8, <1>9, <1>10 DEF CreditTypes, TypeOK, BoundSlot, latch, peer

\* A pass that a credit blocks notes the limit it is blocked at.
LEMMA BlockedTyped ==
  ASSUME CreditTypes, NEW i \in Slots, NEW lost, PumpBlocked(i, lost)
  PROVE  TypeOK' /\ IsFiniteSet(DOMAIN max_stream_data')
  <1>0. slot \in [Slots -> BoundSlot] /\ slot[i] \in BoundSlot
    BY DEF CreditTypes, TypeOK, BoundSlot
  <1>1. slot' = slot \/ slot' = [slot EXCEPT ![i].sdb = slot[i].credit]
    BY DEF PumpBlocked
  <1>2. slot' \in [Slots -> BoundSlot]
    BY <1>0, <1>1 DEF BoundSlot
  <1>3. blocked_at' \in {conn_credit, blocked_at}
    BY DEF PumpBlocked
  <1>4. asked' \subseteq asked \cup {None, slot[i].stream}
    BY DEF PumpBlocked
  <1>5. slot[i].stream \in Streams \cup {None}
    BY <1>0 DEF BoundSlot
  <1>6. UNCHANGED <<started, conn_credit, acct, flying, latch, phase, sent, limit_data, limit>>
    BY DEF PumpBlocked
  <1>q. QED
    BY <1>2, <1>3, <1>4, <1>5, <1>6 DEF CreditTypes, TypeOK, BoundSlot, latch

\* Every step keeps CreditTypes.
LEMMA TypesStep == CreditTypes /\ [Next]_vars => CreditTypes'
  <1> SUFFICES ASSUME CreditTypes, [Next]_vars
               PROVE  TypeOK' /\ IsFiniteSet(DOMAIN max_stream_data')
    BY CreditStep DEF CreditTypes
  <1>1. CASE RaiseData
    BY <1>1, CreditAssumption DEF RaiseData, CreditTypes, TypeOK, server, latch
  <1>2. ASSUME NEW s \in Streams, RaiseStream(s)
        PROVE  TypeOK' /\ IsFiniteSet(DOMAIN max_stream_data')
    <2>1. limit' \in [Streams -> 0 .. MaxLimit]
      BY <1>2, CreditAssumption DEF RaiseStream, CreditTypes, TypeOK
    <2>q. QED  BY <1>2, <2>1 DEF RaiseStream, CreditTypes, TypeOK, server, latch
  <1>3. ASSUME NEW v \in 0 .. MaxLimit, GatherMaxData(v)
        PROVE  TypeOK' /\ IsFiniteSet(DOMAIN max_stream_data')
    <2>1. max_data_seen \in 0 .. MaxLimit /\ v \in Int /\ max_data_seen \in Int
      BY CreditAssumption DEF CreditTypes, TypeOK
    <2>2. max_data_seen' \in 0 .. MaxLimit
      BY <1>3, <2>1, MaxOfTwo DEF GatherMaxData
    <2>q. QED  BY <1>3, <2>2 DEF GatherMaxData, CreditTypes, TypeOK, server, peer
  <1>4. ASSUME NEW s \in Streams, NEW i \in Slots, NEW n \in 1 .. MaxLen, StartResp(s, i, n)
        PROVE  TypeOK' /\ IsFiniteSet(DOMAIN max_stream_data')
    <2>1. slot' \in [Slots -> BoundSlot]
      BY <1>4, CreditAssumption DEF StartResp, CreditTypes, TypeOK, BoundSlot
    <2>q. QED  BY <1>4, <2>1 DEF StartResp, CreditTypes, TypeOK, BoundSlot, latch, peer
  <1>5. ASSUME NEW i \in Slots, StopResp(i)
        PROVE  TypeOK' /\ IsFiniteSet(DOMAIN max_stream_data')
    <2>1. slot' \in [Slots -> BoundSlot]
      BY <1>5, CreditAssumption DEF StopResp, CreditTypes, TypeOK, BoundSlot, Free
    <2>q. QED  BY <1>5, <2>1 DEF StopResp, CreditTypes, TypeOK, BoundSlot, latch, peer
  <1>6. CASE PumpStarts
    <2>1. acct' \in Nat
      BY <1>6, ConsumedTyped DEF PumpStarts, CreditTypes, CreditInv
    <2>q. QED  BY <1>6, <2>1 DEF PumpStarts, CreditTypes, TypeOK, latch, peer
  <1>7. CASE PumpEnds
    BY <1>7 DEF PumpEnds, CreditTypes, TypeOK, server, latch, peer
  <1>8. CASE UNCHANGED vars
    BY <1>8 DEF vars, CreditTypes, TypeOK, server, latch, peer
  <1>9. CASE Peer
    BY <1>1, <1>2, <1>3, <1>9, GatherTyped DEF Peer
  <1>10. CASE Step
    BY <1>4, <1>5, <1>6, <1>7, <1>10, ApplyTyped DEF Step
  <1>q. QED  BY <1>8, <1>9, <1>10, PumpTyped, BlockedTyped DEF Next

\* The types of the flow control, for every number of streams and slots: no credit is
\* past a limit of the peer, and a step's latch never outgrows its entries
\* (max_stream_data_slot).
THEOREM CreditTypeCorrect == Spec => []TypeOK
  <1>1. CreditTypes => TypeOK
    BY DEF CreditTypes
  <1>q. QED  BY <1>1, TypesInit, TypesStep, PTL DEF Spec
=============================================================================
