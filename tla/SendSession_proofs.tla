-------------------------- MODULE SendSession_proofs --------------------------
(***************************************************************************)
(* The send queue, log and requeue of a response, for every ring, slice,   *)
(* log and record size: types, one final size, bytes that are never        *)
(* overwritten while they may be resent, no byte forgotten, and a slot     *)
(* that is released when its response is delivered.  Each handler is first *)
(* described by what it does to the slices (the lemmas ...Shape); the      *)
(* invariants are proved of those descriptions.                            *)
(***************************************************************************)
EXTENDS SendSession, ModLemmas, FiniteSetTheorems, TLAPS

-----------------------------------------------------------------------------
\* Types.

LogEntry == [off : 0 .. MaxLen, len : 1 .. Chunk, pn : 0 .. MaxPn]
Resendable == [off : 0 .. MaxLen, len : 1 .. Chunk, pn1 : 0 .. MaxPn + 1, probe : BOOLEAN]
Packet == [off : 0 .. MaxLen, len : 0 .. Chunk, pn : 0 .. MaxPn, fin : BOOLEAN,
           intact : BOOLEAN]

\* A slice was taken from the queue.
Within(sl) == sl.off + sl.len <= cur

\* A packet number is used once.
Numbered ==
  /\ \A e \in log : e.pn < txpn
  /\ \A r \in requeue : r.pn1 <= txpn
  /\ \A p \in net : p.pn < txpn
  /\ \A n \in rcvd : n < txpn
  /\ \A d, e \in log : d.pn = e.pn => d = e

QueueTyped ==
  /\ qlen \in 0 .. MaxLen /\ cur \in 0 .. qlen /\ chunk \in {Chunk, Base}
  /\ ring \in [0 .. Cap - 1 -> -1 .. MaxLen]
  /\ streaming \in BOOLEAN /\ in_use \in BOOLEAN
  /\ phase \in {"idle", "reap", "pump", "ping", "dropped"}
SliceTyped ==
  /\ log \subseteq LogEntry /\ requeue \subseteq Resendable
  /\ IsFiniteSet(log) /\ IsFiniteSet(requeue)
  /\ Cardinality(log) <= LogCap /\ Cardinality(requeue) <= LogCap
  /\ (\A e \in log : Within(e)) /\ (\A r \in requeue : Within(r))
CountTyped ==
  /\ txpn \in 0 .. MaxPn /\ largest \in 0 .. MaxPn
  /\ rec \subseteq 0 .. MaxPn /\ Cardinality(rec) <= RecCap
  /\ pto \in 0 .. PtoMax /\ probe \in 0 .. Probes
  /\ drops \in 0 .. MaxDrops
NetTyped ==
  /\ net \subseteq Packet /\ rcvd \subseteq 0 .. MaxPn
  /\ have \subseteq 0 .. MaxLen /\ fins \subseteq 0 .. MaxLen
  /\ (\A p \in net : Within(p)) /\ have \subseteq 0 .. cur - 1

Typed == QueueTyped /\ SliceTyped /\ CountTyped /\ NetTyped /\ Numbered

\* What wired_sendsess_take hands out: the front of a slice to resend, whose rest
\* goes back, or else the next slice of the queue.
Leftover(r, n) == [r EXCEPT !.off = @ + n, !.len = @ - n]

Resend(sl, r) ==
  /\ r \in requeue
  /\ sl.off = r.off /\ sl.pn1 = r.pn1 /\ sl.probe = r.probe /\ sl.cur = cur
  /\ sl.len \in 1 .. r.len /\ sl.len = MinOf(r.len, chunk)
  /\ sl.rest = (requeue \ {r}) \cup
               (IF sl.len = r.len THEN {} ELSE {Leftover(r, sl.len)})

Fresh(sl) ==
  /\ requeue = {} /\ cur < qlen /\ sl.rest = {}
  /\ sl.off = cur /\ sl.pn1 = 0 /\ sl.probe = FALSE /\ sl.cur = cur + sl.len
  /\ sl.len \in 1 .. qlen - cur /\ sl.len <= Chunk /\ (cur % Cap) + sl.len <= Cap

LEMMA TakeShape ==
  ASSUME Typed, NEW sl \in Takes
  PROVE  Fresh(sl) \/ \E r \in requeue : Resend(sl, r)
  <1>0. chunk \in Nat \ {0} /\ chunk <= Chunk /\ Chunk \in Nat /\ cur \in Nat /\ qlen \in Nat
    BY SizesAssumption, SendBoundsAssumption DEF Typed, QueueTyped, SliceTyped, CountTyped, NetTyped
  <1>1. CASE requeue # {}
    <2>1. PICK r \in requeue :
            sl = [off |-> r.off, len |-> MinOf(r.len, chunk), pn1 |-> r.pn1,
                  probe |-> r.probe, cur |-> cur,
                  rest |-> (requeue \ {r}) \cup
                           (IF MinOf(r.len, chunk) = r.len THEN {}
                            ELSE {[r EXCEPT !.off = @ + MinOf(r.len, chunk),
                                            !.len = @ - MinOf(r.len, chunk)]})]
      BY <1>1 DEF Takes
    <2>2. r \in Resendable
      BY DEF Typed, QueueTyped, SliceTyped, CountTyped, NetTyped, Resendable
    <2>4. MinOf(r.len, chunk) \in 1 .. r.len
      BY <1>0, <2>2 DEF Resendable, MinOf
    <2>5. Resend(sl, r)
      BY <2>1, <2>4 DEF Resend, Leftover
    <2>q. QED  BY <2>5
  <1>2. CASE requeue = {}
    <2>1. /\ cur < qlen
          /\ sl = [off |-> cur, len |-> sendq_take, pn1 |-> 0, probe |-> FALSE,
                   cur |-> cur + sendq_take, rest |-> {}]
      BY <1>2 DEF Takes
    <2>2. cur % Cap \in 0 .. Cap - 1 /\ Cap \in Nat \ {0}
      BY <1>0, SizesAssumption, DivMod
    <2>3. /\ sendq_take \in 1 .. qlen - cur /\ sendq_take <= Chunk
          /\ (cur % Cap) + sendq_take <= Cap
      <3> DEFINE m == cur % Cap
      <3>1. m \in 0 .. Cap - 1
        BY <2>2
      <3> HIDE DEF m
      <3>2. sendq_take = MinOf(MinOf(qlen - cur, chunk), Cap - m)
        BY DEF sendq_take, m
      <3>3. sendq_take \in 1 .. qlen - cur /\ sendq_take <= Chunk /\ m + sendq_take <= Cap
        BY <1>0, <2>1, <2>2, <3>1, <3>2 DEF MinOf
      <3>q. QED  BY <3>3 DEF m
    <2>q. QED  BY <1>2, <2>1, <2>3 DEF Fresh
  <1>q. QED  BY <1>1, <1>2

\* A taken slice and what it leaves are slices.
LEMMA TakeTyped ==
  ASSUME Typed, NEW sl \in Takes
  PROVE  /\ sl.off \in 0 .. MaxLen /\ sl.len \in 1 .. Chunk /\ sl.pn1 \in 0 .. MaxPn + 1
         /\ sl.probe \in BOOLEAN /\ sl.cur \in cur .. qlen
         /\ sl.rest \subseteq Resendable /\ IsFiniteSet(sl.rest)
         /\ Cardinality(sl.rest) <= LogCap
  <1>0. /\ cur \in Nat /\ qlen \in Nat /\ cur <= qlen /\ qlen <= MaxLen
        /\ MaxLen \in Nat /\ MaxPn \in Nat /\ Chunk \in Nat /\ LogCap \in Nat \ {0}
        /\ requeue \subseteq Resendable /\ IsFiniteSet(requeue)
        /\ Cardinality(requeue) <= LogCap
    BY SizesAssumption, SendBoundsAssumption DEF Typed, QueueTyped, SliceTyped, CountTyped, NetTyped, Resendable
  <1>1. CASE Fresh(sl)
    <2>1. sl.off \in 0 .. MaxLen /\ sl.len \in 1 .. Chunk /\ sl.cur \in cur .. qlen
      BY <1>0, <1>1 DEF Fresh
    <2>2. IsFiniteSet(sl.rest) /\ Cardinality(sl.rest) = 0
      BY <1>1, FS_EmptySet DEF Fresh
    <2>3. sl.pn1 \in 0 .. MaxPn + 1 /\ sl.rest \subseteq Resendable
      BY <1>0, <1>1 DEF Fresh
    <2>4. sl.probe \in BOOLEAN
      BY <1>1 DEF Fresh
    <2>q. QED  BY <1>0, <2>1, <2>2, <2>3, <2>4
  <1>2. ASSUME NEW r \in requeue, Resend(sl, r)
        PROVE  /\ sl.off \in 0 .. MaxLen /\ sl.len \in 1 .. Chunk /\ sl.pn1 \in 0 .. MaxPn + 1
               /\ sl.probe \in BOOLEAN /\ sl.cur \in cur .. qlen
               /\ sl.rest \subseteq Resendable /\ IsFiniteSet(sl.rest)
               /\ Cardinality(sl.rest) <= LogCap
    <2>1. r \in Resendable
      BY <1>0
    <2>2. /\ sl.off \in 0 .. MaxLen /\ sl.len \in 1 .. Chunk /\ sl.pn1 \in 0 .. MaxPn + 1
          /\ sl.probe \in BOOLEAN /\ sl.cur \in cur .. qlen
      BY <1>0, <1>2, <2>1 DEF Resend, Resendable
    <2>3. /\ IsFiniteSet(requeue \ {r}) /\ Cardinality(requeue) \in Nat
          /\ Cardinality(requeue \ {r}) = Cardinality(requeue) - 1
      BY <1>0, FS_RemoveElement, FS_CardinalityType
    <2>4. CASE sl.len = r.len
      <3>1. sl.rest = requeue \ {r}
        BY <1>2, <2>4 DEF Resend
      <3>q. QED  BY <1>0, <2>2, <2>3, <3>1
    <2>5. CASE sl.len # r.len
      <3> DEFINE x == Leftover(r, sl.len)
      <3>1. sl.rest = (requeue \ {r}) \cup {x}
        BY <1>2, <2>5 DEF Resend
      <3>2. sl.len < r.len /\ sl.len \in Nat /\ r.len \in Nat
        BY <1>2, <2>1, <2>5 DEF Resend, Resendable
      <3>3. x \in Resendable
        <4>1. r.off + sl.len <= MaxLen
          BY <1>0, <2>1, <3>2 DEF Typed, SliceTyped, Within, Resendable
        <4>2. r.off + sl.len \in 0 .. MaxLen /\ r.len - sl.len \in 1 .. Chunk
          BY <1>0, <2>1, <3>2, <4>1 DEF Resendable
        <4>q. QED  BY <2>1, <4>2 DEF Leftover, Resendable
      <3> DEFINE left == requeue \ {r}
      <3>a. left \subseteq Resendable /\ IsFiniteSet(left)
        BY <1>0, <2>3
      <3>b. /\ Cardinality(requeue) \in Nat /\ Cardinality(requeue) <= LogCap
            /\ Cardinality(left) = Cardinality(requeue) - 1
        BY <1>0, <2>3
      <3> HIDE DEF left, x
      <3>c. Cardinality(left) \in Nat
        BY <3>a, FS_CardinalityType
      <3>4. IsFiniteSet(left) /\ left \subseteq Resendable
            /\ Cardinality(left) \in Nat /\ Cardinality(left) + 1 <= LogCap
        BY <1>0, <3>a, <3>b, <3>c
      <3>5. /\ IsFiniteSet(left \cup {x})
            /\ Cardinality(left \cup {x}) \in {Cardinality(left), Cardinality(left) + 1}
        BY <3>4, FS_AddElement
      <3>6. Cardinality(left \cup {x}) <= LogCap
        BY <1>0, <3>4, <3>5
      <3>7. sl.rest = left \cup {x}
        BY <3>1 DEF left
      <3>8. /\ sl.rest \subseteq Resendable /\ IsFiniteSet(sl.rest)
            /\ Cardinality(sl.rest) <= LogCap
        BY <3>3, <3>4, <3>5, <3>6, <3>7
      <3>q. QED  BY <2>2, <3>8
    <2>q. QED  BY <2>4, <2>5
  <1>q. QED  BY <1>1, <1>2, TakeShape

-----------------------------------------------------------------------------
\* What ACKs, losses and probes do to the slices: an entry of the log leaves it when
\* its packet is acknowledged or when a copy is queued for resending.

CopyOf(x, e) == \E b \in BOOLEAN :
  x = [off |-> e.off, len |-> e.len, pn1 |-> e.pn + 1, probe |-> b]

Shuffled ==
  /\ log' \subseteq log
  /\ \A e \in log : e \in log' \/ e.pn \in rcvd \/ \E x \in requeue' : CopyOf(x, e)
  /\ \A r \in requeue : r \in requeue' \/ r.pn1 - 1 \in rcvd
  /\ \A x \in requeue' : x \in requeue \/ \E e \in log : CopyOf(x, e)
  /\ IsFiniteSet(requeue') /\ Cardinality(requeue') <= LogCap

\* srvrun_loss_pass moves lost slices as far as the requeue has room.
LEMMA LossShape ==
  ASSUME Typed, NEW l \in SUBSET log, NEW q \in SUBSET requeue, NEW r, NEW top, NEW t,
         LossPass(l, q, r, top, t)
  PROVE  /\ log' \subseteq l /\ \A e \in l : e \in log' \/ Requeued(e, FALSE) \in requeue'
         /\ q \subseteq requeue'
         /\ \A x \in requeue' : x \in q \/ \E e \in l : x = Requeued(e, FALSE)
         /\ IsFiniteSet(requeue') /\ Cardinality(requeue') <= LogCap
         /\ rec' \subseteq r /\ chunk' \in {Chunk, Base}
  <1> DEFINE lost == {e \in l : IsLost(e.pn, top, t)}
             k == MinOf(Cardinality(lost), Room(q))
  <1>0. /\ IsFiniteSet(l) /\ IsFiniteSet(q) /\ IsFiniteSet(lost)
        /\ Cardinality(q) <= LogCap /\ LogCap \in Nat
        /\ Cardinality(q) \in Nat /\ Cardinality(lost) \in Nat
    <2>1. IsFiniteSet(log) /\ IsFiniteSet(requeue) /\ Cardinality(requeue) <= LogCap
      BY DEF Typed, QueueTyped, SliceTyped, CountTyped, NetTyped
    <2>2. IsFiniteSet(l) /\ IsFiniteSet(q) /\ Cardinality(q) <= Cardinality(requeue)
      BY <2>1, FS_Subset
    <2>3. IsFiniteSet(lost)
      BY <2>2, FS_Subset
    <2>4. Cardinality(q) \in Nat /\ Cardinality(lost) \in Nat /\ Cardinality(requeue) \in Nat
      BY <2>1, <2>2, <2>3, FS_CardinalityType
    <2>q. QED  BY <2>1, <2>2, <2>3, <2>4, SizesAssumption
  <1>1. PICK moved \in kSubset(k, lost) :
          log' = l \ moved /\ requeue' = q \cup {Requeued(e, FALSE) : e \in moved}
    BY DEF LossPass
  <1>2. moved \subseteq lost /\ Cardinality(moved) = k
    BY DEF kSubset
  <1>3. k <= LogCap - Cardinality(q)
    BY <1>0 DEF MinOf, Room
  <1> DEFINE image == {Requeued(e, FALSE) : e \in moved}
             f == [e \in moved |-> Requeued(e, FALSE)]
  <1>4. IsFiniteSet(image) /\ Cardinality(image) <= k
    <2>1. IsFiniteSet(moved)
      BY <1>0, <1>2, FS_Subset
    <2>2. f \in [moved -> image] /\ \A y \in image : \E x \in moved : f[x] = y
      OBVIOUS
    <2> HIDE DEF f, image
    <2>q. QED  BY <1>2, <2>1, <2>2, ImageSmaller
  <1>5. IsFiniteSet(requeue') /\ Cardinality(requeue') <= LogCap
    <2>1. /\ IsFiniteSet(q \cup image)
          /\ Cardinality(q \cup image) =
               Cardinality(q) + Cardinality(image) - Cardinality(q \cap image)
      BY <1>0, <1>4, FS_Union
    <2>2. IsFiniteSet(q \cap image)
      BY <1>0, FS_Subset
    <2>3. Cardinality(q \cap image) \in Nat /\ Cardinality(image) \in Nat
      BY <1>4, <2>2, FS_CardinalityType
    <2>4. k \in Int
      BY <1>0 DEF MinOf, Room
    <2> HIDE DEF k, image
    <2>5. Cardinality(q \cup image) <= LogCap
      BY <1>0, <1>3, <1>4, <2>1, <2>3, <2>4
    <2>q. QED  BY <1>1, <2>1, <2>5 DEF image
  <1>6. rec' \subseteq r
    BY DEF LossPass, rec_detect
  <1>7. chunk' \in {Chunk, Base}
    BY DEF LossPass, shrink, Typed, QueueTyped, SliceTyped, CountTyped, NetTyped
  <1>q. QED  BY <1>1, <1>2, <1>5, <1>6, <1>7

LEMMA RequeuedIsCopy == \A e : \A b \in BOOLEAN : CopyOf(Requeued(e, b), e)
  BY DEF CopyOf, Requeued

\* srvrun_feed_acks drops what is acknowledged and moves what is lost.
LEMMA FeedAcksShape ==
  ASSUME Typed, NEW acked, NEW t, FeedAcks(acked, t)
  PROVE  Shuffled /\ chunk' \in {Chunk, Base} /\ rec' \subseteq rec
  <1> DEFINE l == {e \in log : e.pn \notin acked}
             q == ack_requeued(acked)
             top == Max({largest} \cup acked)
  <1>1. LossPass(l, q, rec \ acked, top, t) /\ acked \subseteq rcvd
    BY DEF FeedAcks
  <1>2. l \in SUBSET log /\ q \in SUBSET requeue
    BY DEF ack_requeued
  <1>3. /\ \A e \in log : e \in l \/ e.pn \in rcvd
        /\ \A r \in requeue : r \in q \/ r.pn1 - 1 \in rcvd
    BY <1>1 DEF ack_requeued
  <1> HIDE DEF l, q, top
  <1>4. /\ log' \subseteq l /\ \A e \in l : e \in log' \/ Requeued(e, FALSE) \in requeue'
        /\ q \subseteq requeue'
        /\ \A x \in requeue' : x \in q \/ \E e \in l : x = Requeued(e, FALSE)
        /\ IsFiniteSet(requeue') /\ Cardinality(requeue') <= LogCap
        /\ rec' \subseteq rec \ acked /\ chunk' \in {Chunk, Base}
    BY <1>1, <1>2, LossShape
  <1>5. Shuffled
    <2>1. log' \subseteq log
      BY <1>2, <1>4
    <2>2. ASSUME NEW e \in log
          PROVE  e \in log' \/ e.pn \in rcvd \/ \E x \in requeue' : CopyOf(x, e)
      <3>1. CASE e \in l
        <4>1. CopyOf(Requeued(e, FALSE), e)
          BY RequeuedIsCopy
        <4>q. QED  BY <1>4, <3>1, <4>1
      <3>q. QED  BY <1>3, <3>1
    <2>3. \A r \in requeue : r \in requeue' \/ r.pn1 - 1 \in rcvd
      BY <1>3, <1>4
    <2>4. ASSUME NEW x \in requeue'
          PROVE  x \in requeue \/ \E e \in log : CopyOf(x, e)
      <3>1. CASE x \in q
        BY <1>2, <3>1
      <3>2. ASSUME NEW e \in l, x = Requeued(e, FALSE)
            PROVE  \E d \in log : CopyOf(x, d)
        BY <1>2, <3>2, RequeuedIsCopy
      <3>q. QED  BY <1>4, <3>1, <3>2
    <2>q. QED  BY <1>4, <2>1, <2>2, <2>3, <2>4 DEF Shuffled
  <1>q. QED  BY <1>4, <1>5

LEMMA LossTimerShape ==
  ASSUME Typed, NEW t, LossTimer(t)
  PROVE  Shuffled /\ chunk' \in {Chunk, Base} /\ rec' \subseteq rec
  <1>1. LossPass(log, requeue, rec, largest, t)
    BY DEF LossTimer
  <1>2. /\ log' \subseteq log /\ \A e \in log : e \in log' \/ Requeued(e, FALSE) \in requeue'
        /\ requeue \subseteq requeue'
        /\ \A x \in requeue' : x \in requeue \/ \E e \in log : x = Requeued(e, FALSE)
        /\ IsFiniteSet(requeue') /\ Cardinality(requeue') <= LogCap
        /\ rec' \subseteq rec /\ chunk' \in {Chunk, Base}
    BY <1>1, LossShape
  <1>3. Shuffled
    BY <1>2, RequeuedIsCopy DEF Shuffled
  <1>q. QED  BY <1>2, <1>3

\* wired_sendsess_pto_probe copies at most as many slices as the requeue holds.
LEMMA ProbeShape ==
  ASSUME Typed, requeue = {}, log # {}
  PROVE  /\ \A x \in pto_probe : \E e \in log : CopyOf(x, e)
         /\ IsFiniteSet(pto_probe) /\ Cardinality(pto_probe) <= LogCap
  <1> DEFINE pns    == {e.pn : e \in log}
             rest   == pns \ {Min(pns)}
             oldest == {Min(pns)} \cup
                       (IF rest = {} \/ LogCap = 1 THEN {} ELSE {Min(rest)})
             Copy(e) == Requeued(e, TRUE)
             copies == {Copy(e) : e \in {x \in log : x.pn \in oldest}}
  <1>1. pto_probe = copies
    BY DEF pto_probe
  <1>2. pns \in SUBSET Nat /\ pns # {}
    <2>1. log \subseteq LogEntry
      BY DEF Typed, QueueTyped, SliceTyped, CountTyped, NetTyped, LogEntry
    <2>2. \A e \in log : e.pn \in Nat
      BY <2>1, SendBoundsAssumption DEF LogEntry
    <2>3. PICK e \in log : TRUE
      OBVIOUS
    <2>4. e.pn \in pns
      BY <2>3
    <2>q. QED  BY <2>2, <2>4
  <1>3. Min(pns) \in pns
    BY <1>2, MinIs
  <1>4. rest # {} => Min(rest) \in rest
    BY <1>2, MinIs
  <1>5. oldest \subseteq pns
    BY <1>3, <1>4
  <1>6. IsFiniteSet(oldest) /\ Cardinality(oldest) <= LogCap
    <2>1. IsFiniteSet({Min(pns)}) /\ Cardinality({Min(pns)}) = 1
      BY FS_Singleton
    <2>2. CASE rest = {} \/ LogCap = 1
      <3>1. oldest = {Min(pns)}
        BY <2>2
      <3>2. 1 <= LogCap
        BY SizesAssumption
      <3> HIDE DEF oldest
      <3>q. QED  BY <2>1, <3>1, <3>2
    <2>3. CASE ~ (rest = {} \/ LogCap = 1)
      <3>1. oldest = {Min(pns)} \cup {Min(rest)}
        BY <2>3
      <3>2. IsFiniteSet(oldest) /\ Cardinality(oldest) <= 2
        BY <3>1, PairSmall
      <3>3. LogCap >= 2
        BY <2>3, SizesAssumption
      <3>4. Cardinality(oldest) \in Nat
        BY <3>2, FS_CardinalityType
      <3>q. QED  BY <3>2, <3>3, <3>4, SizesAssumption
    <2>q. QED  BY <2>2, <2>3
  <1> HIDE DEF pns, rest, oldest
  <1> DEFINE f == [n \in oldest |-> Copy(CHOOSE e \in log : e.pn = n)]
  <1>7. \A e \in log : (CHOOSE d \in log : d.pn = e.pn) = e
    BY DEF Typed, Numbered
  <1>8. \A n \in oldest : \E e \in log : e.pn = n /\ f[n] = Copy(e)
    <2> SUFFICES ASSUME NEW n \in oldest PROVE \E e \in log : e.pn = n /\ f[n] = Copy(e)
      OBVIOUS
    <2>1. PICK e \in log : e.pn = n
      BY <1>5 DEF pns
    <2>2. (CHOOSE d \in log : d.pn = n) = e
      BY <1>7, <2>1
    <2>q. QED  BY <2>1, <2>2
  <1>9. f \in [oldest -> copies]
    <2>1. \A n \in oldest : f[n] \in copies
      BY <1>8
    <2>q. QED  BY <2>1
  <1>10. \A y \in copies : \E n \in oldest : f[n] = y
    <2>1. \A e \in log : e.pn \in oldest => f[e.pn] = Copy(e)
      BY <1>7
    <2> HIDE DEF f
    <2>q. QED  BY <2>1
  <1>11. IsFiniteSet(copies) /\ Cardinality(copies) <= LogCap
    <2> HIDE DEF f, copies
    <2>1. IsFiniteSet(copies) /\ Cardinality(copies) <= Cardinality(oldest)
      BY <1>6, <1>9, <1>10, ImageSmaller
    <2>2. Cardinality(copies) \in Nat /\ Cardinality(oldest) \in Nat
      BY <1>6, <2>1, FS_CardinalityType
    <2>q. QED  BY <1>6, <2>1, <2>2, SizesAssumption
  <1>12. \A e \in log : CopyOf(Copy(e), e)
    BY RequeuedIsCopy
  <1>q. QED  BY <1>1, <1>11, <1>12

LEMMA PtoShape ==
  ASSUME Typed, PtoFires
  PROVE  Shuffled
  <1>0. log' = log /\ LogCap \in Nat \ {0}
    BY SizesAssumption DEF PtoFires
  <1>1. CASE requeue' = requeue
    BY <1>0, <1>1 DEF Shuffled, Typed, QueueTyped, SliceTyped, CountTyped, NetTyped
  <1>2. CASE requeue' # requeue
    <2>1. requeue' = pto_probe
      BY <1>2 DEF PtoFires, pto_sess
    <2>2. requeue = {} /\ log # {}
      BY <1>2, <2>1 DEF pto_probe
    <2>q. QED  BY <1>0, <2>1, <2>2, ProbeShape DEF Shuffled
  <1>q. QED  BY <1>1, <1>2

-----------------------------------------------------------------------------
\* The types are invariant.

LEMMA Sizes ==
  /\ Cap \in Nat \ {0} /\ LogCap \in Nat \ {0} /\ RecCap \in Nat /\ Base \in Nat \ {0}
  /\ Chunk \in Nat \ {0} /\ Base <= Chunk /\ PtoMax \in Nat /\ Probes \in Nat \ {0}
  /\ MaxLen \in Nat /\ MaxPn \in Nat /\ MaxDrops \in Nat
  BY SizesAssumption, SendBoundsAssumption

LEMMA TypedInit ==
  ASSUME Init
  PROVE  Typed
  <1>1. QueueTyped
    <2>1. qlen \in 1 .. MaxLen /\ qlen \in Nat
      BY Sizes DEF Init
    <2>2. ring \in [0 .. Cap - 1 -> -1 .. MaxLen]
      BY <2>1, Sizes DEF Init
    <2>3. streaming \in BOOLEAN
      <3>1. (qlen < MaxLen) \in BOOLEAN
        BY <2>1, Sizes
      <3>2. streaming = FALSE \/ streaming = (qlen < MaxLen)
        BY DEF Init
      <3>q. QED  BY <3>1, <3>2
    <2>q. QED  BY <2>1, <2>2, <2>3, Sizes DEF Init, QueueTyped
  <1>2. SliceTyped
    BY Sizes, FS_EmptySet DEF Init, SliceTyped
  <1>3. CountTyped
    BY Sizes, FS_EmptySet DEF Init, CountTyped
  <1>4. NetTyped /\ Numbered
    BY DEF Init, NetTyped, Numbered
  <1>q. QED  BY <1>1, <1>2, <1>3, <1>4 DEF Typed

\* Moving slices between the log and the requeue keeps them well formed.
LEMMA ShuffledTyped ==
  ASSUME Typed, Shuffled, UNCHANGED <<cur, txpn, net, rcvd>>
  PROVE  SliceTyped' /\ Numbered'
  <1>1. SliceTyped /\ Numbered /\ txpn \in Nat
    BY Sizes DEF Typed, CountTyped
  <1>2. IsFiniteSet(log') /\ Cardinality(log') <= LogCap
    <2>1. IsFiniteSet(log') /\ Cardinality(log') <= Cardinality(log)
      BY <1>1, FS_Subset DEF SliceTyped, Shuffled
    <2>2. Cardinality(log') \in Nat /\ Cardinality(log) \in Nat
      BY <1>1, <2>1, FS_CardinalityType DEF SliceTyped
    <2>q. QED  BY <1>1, <2>1, <2>2, Sizes DEF SliceTyped
  <1>3. \A x : \A e \in log : CopyOf(x, e) => x \in Resendable /\ Within(x) /\ x.pn1 <= txpn
    <2> SUFFICES ASSUME NEW x, NEW e \in log, CopyOf(x, e)
                 PROVE  x \in Resendable /\ Within(x) /\ x.pn1 <= txpn
      OBVIOUS
    <2>1. e \in LogEntry /\ Within(e) /\ e.pn < txpn
      BY <1>1 DEF SliceTyped, Numbered
    <2>2. PICK b \in BOOLEAN : x = [off |-> e.off, len |-> e.len, pn1 |-> e.pn + 1, probe |-> b]
      BY DEF CopyOf
    <2>3. e.off \in 0 .. MaxLen /\ e.len \in 1 .. Chunk /\ e.pn + 1 \in 0 .. MaxPn + 1 /\ e.pn \in Nat
      BY <2>1, Sizes DEF LogEntry
    <2>4. x \in Resendable
      BY <2>2, <2>3 DEF Resendable
    <2>5. x.off = e.off /\ x.len = e.len /\ x.pn1 = e.pn + 1
      BY <2>2
    <2>q. QED  BY <1>1, <2>1, <2>3, <2>4, <2>5 DEF Within
  <1>4. \A x \in requeue' : x \in Resendable /\ Within(x) /\ x.pn1 <= txpn
    BY <1>1, <1>3 DEF Shuffled, SliceTyped, Numbered
  <1>5. SliceTyped'
    BY <1>1, <1>2, <1>4 DEF Shuffled, SliceTyped, Within
  <1>6. Numbered'
    BY <1>1, <1>4 DEF Shuffled, Numbered
  <1>q. QED  BY <1>5, <1>6

\* The record of sent packets is finite, so that it does not grow when it shrinks.
LEMMA RecShrinks ==
  ASSUME CountTyped, rec' \subseteq rec
  PROVE  rec' \subseteq 0 .. MaxPn /\ Cardinality(rec') <= RecCap
  <1>1. IsFiniteSet(rec)
    <2>1. 0 \in Int /\ MaxPn \in Int
      BY Sizes
    <2>2. IsFiniteSet(0 .. MaxPn)
      BY <2>1, FS_Interval
    <2>q. QED  BY <2>2, FS_Subset DEF CountTyped
  <1>2. IsFiniteSet(rec') /\ Cardinality(rec') <= Cardinality(rec)
    BY <1>1, FS_Subset
  <1>3. Cardinality(rec') \in Nat /\ Cardinality(rec) \in Nat
    BY <1>1, <1>2, FS_CardinalityType
  <1>q. QED  BY <1>2, <1>3, Sizes DEF CountTyped

LEMMA AckTyped ==
  ASSUME Typed, NEW acked, NEW t, FeedAcks(acked, t)
  PROVE  Typed'
  <1>0. QueueTyped /\ CountTyped /\ NetTyped
    BY DEF Typed
  <1>1. /\ UNCHANGED <<qlen, cur, ring, streaming, in_use, txpn, probe, net, drops, peer>>
        /\ phase' = "reap" /\ largest' = Max({largest} \cup acked) /\ acked \subseteq rcvd
        /\ pto' \in {0, pto}
    BY DEF FeedAcks
  <1>2. Shuffled /\ chunk' \in {Chunk, Base} /\ rec' \subseteq rec
    BY FeedAcksShape
  <1>3. SliceTyped' /\ Numbered'
    BY <1>1, <1>2, ShuffledTyped DEF peer
  <1>4. largest' \in 0 .. MaxPn
    <2>1. {largest} \cup acked \in SUBSET (0 .. MaxPn)
      BY <1>0, <1>1 DEF CountTyped, NetTyped
    <2>q. QED  BY <1>1, <2>1, MaxIs, Sizes
  <1>5. CountTyped'
    BY <1>0, <1>1, <1>2, <1>4, RecShrinks, Sizes DEF CountTyped
  <1>6. QueueTyped' /\ NetTyped'
    BY <1>0, <1>1, <1>2 DEF QueueTyped, NetTyped, peer, Within
  <1>q. QED  BY <1>3, <1>5, <1>6 DEF Typed

LEMMA TimersTyped ==
  ASSUME Typed, Timers
  PROVE  Typed'
  <1>0. QueueTyped /\ CountTyped /\ NetTyped
    BY DEF Typed
  <1>1. CASE PtoFires
    <2>1. /\ UNCHANGED <<queue, log, streaming, largest, txpn, rec, net, drops, peer>>
          /\ pto' \in 0 .. PtoMax /\ probe' \in 0 .. Probes
          /\ phase' \in {"dropped", "pump"} /\ in_use' \in BOOLEAN
      <3>1. /\ UNCHANGED <<queue, log, streaming, largest, txpn, rec, net, drops, peer>>
            /\ in_use' \in BOOLEAN
        BY <1>0, <1>1 DEF PtoFires, QueueTyped
      <3>2. /\ pto' \in 0 .. PtoMax /\ probe' \in 0 .. Probes
            /\ phase' \in {"dropped", "pump"}
        <4>1. /\ pto \in Nat /\ pto <= PtoMax /\ PtoMax \in Nat /\ probe \in 0 .. Probes
              /\ Probes \in Nat
          BY <1>0, Sizes DEF CountTyped
        <4>2. CASE pto >= PtoMax
          <5>1. pto' = pto /\ probe' = probe /\ phase' = "dropped"
            BY <1>1, <4>2 DEF PtoFires
          <5>q. QED  BY <4>1, <5>1
        <4>3. CASE ~ (pto >= PtoMax)
          <5>1. pto' = pto + 1 /\ probe' = Probes /\ phase' = "pump"
            BY <1>1, <4>3 DEF PtoFires
          <5>q. QED  BY <4>1, <4>3, <5>1
        <4>q. QED  BY <4>2, <4>3
      <3>q. QED  BY <3>1, <3>2
    <2>2. SliceTyped' /\ Numbered'
      BY <1>1, <2>1, PtoShape, ShuffledTyped DEF peer, queue
    <2>3. QueueTyped' /\ NetTyped'
      BY <1>0, <2>1 DEF QueueTyped, NetTyped, queue, peer, Within
    <2>4. CountTyped'
      BY <1>0, <2>1 DEF CountTyped
    <2>q. QED  BY <2>2, <2>3, <2>4 DEF Typed
  <1>2. ASSUME NEW t, LossTimer(t) PROVE Typed'
    <2>1. /\ UNCHANGED <<qlen, cur, ring, conn, txpn, probe, net, drops, peer>>
          /\ phase' = "pump"
      BY <1>2 DEF LossTimer
    <2>2. Shuffled /\ chunk' \in {Chunk, Base} /\ rec' \subseteq rec
      BY <1>2, LossTimerShape
    <2>3. SliceTyped' /\ Numbered'
      BY <2>1, <2>2, ShuffledTyped DEF peer
    <2>4. CountTyped'
      BY <1>0, <2>1, <2>2, RecShrinks DEF CountTyped, conn
    <2>5. QueueTyped' /\ NetTyped'
      BY <1>0, <2>1, <2>2 DEF QueueTyped, NetTyped, conn, peer, Within
    <2>q. QED  BY <2>3, <2>4, <2>5 DEF Typed
  <1>q. QED  BY <1>1, <1>2 DEF Timers

\* wired_sendsess_reclaim_base is at or below everything that may still be read.
LEMMA FloorIs ==
  ASSUME Typed
  PROVE  /\ reclaim_base \in Nat /\ reclaim_base <= cur
         /\ \A sl \in log \cup requeue : reclaim_base <= sl.off
  <1> DEFINE S == {cur} \cup {sl.off : sl \in log \cup requeue}
  <1>1. cur \in Nat /\ \A sl \in log \cup requeue : sl.off \in Nat
    BY Sizes DEF Typed, QueueTyped, SliceTyped, LogEntry, Resendable
  <1>2. S \in SUBSET Nat /\ cur \in S
    BY <1>1
  <1>3. Min(S) \in S /\ \A x \in S : Min(S) <= x
    BY <1>2, MinIs
  <1>q. QED  BY <1>2, <1>3 DEF reclaim_base

\* A refill appends what fits between the queue's end and the floor, without a wrap.
RefillBy(n) ==
  /\ n \in Nat /\ n <= ring_room /\ (qlen % Cap) + n <= Cap /\ qlen + n <= MaxLen
  /\ ring' = [i \in 0 .. Cap - 1 |->
                IF i - (qlen % Cap) \in 0 .. n - 1 THEN qlen + i - (qlen % Cap) ELSE ring[i]]
  /\ qlen' = qlen + n

LEMMA ReapShape ==
  ASSUME Typed, Reap
  PROVE  \/ UNCHANGED <<ring, qlen, streaming>>
         \/ /\ streaming /\ streaming' \in BOOLEAN
            /\ \E n \in Nat : RefillBy(n) /\ (HandlerDeclines \/ n > 0)
  <1>0. /\ Cap \in Nat \ {0} /\ qlen \in Nat /\ cur \in Nat /\ (qlen % Cap) \in 0 .. Cap - 1
        /\ ring_room \in Int
    <2>1. Cap \in Nat \ {0} /\ qlen \in Nat /\ cur \in Nat
      BY Sizes DEF Typed, QueueTyped
    <2>2. (qlen % Cap) \in 0 .. Cap - 1
      BY <2>1, DivMod
    <2>3. reclaim_base \in Nat
      BY FloorIs
    <2>q. QED  BY <2>1, <2>2, <2>3 DEF ring_room
  <1>1. CASE streaming /\ ring_room >= Cap \div 4
    <2> DEFINE take == MinOf(Cap - (qlen % Cap), ring_room)
    <2>1. PICK a \in Answers(take) : Refill(a[1], a[2])
      BY <1>1 DEF Reap
    <2>2. /\ a[1] \in 0 .. take /\ a[2] \in BOOLEAN /\ qlen + a[1] <= MaxLen
          /\ HandlerDeclines \/ a[1] > 0
      BY DEF Answers
    <2>3. a[1] \in Nat /\ a[1] <= ring_room /\ (qlen % Cap) + a[1] <= Cap
      <3> DEFINE m == qlen % Cap
                 r == ring_room
      <3>1. m \in 0 .. Cap - 1 /\ r \in Int /\ take = MinOf(Cap - m, r)
        BY <1>0
      <3> HIDE DEF m, r, take
      <3>2. a[1] \in Nat /\ a[1] <= r /\ m + a[1] <= Cap
        BY <1>0, <2>2, <3>1 DEF MinOf
      <3>q. QED  BY <3>2 DEF m, r
    <2>4. RefillBy(a[1]) /\ streaming' = a[2]
      BY <2>1, <2>2, <2>3 DEF Refill, RefillBy
    <2>q. QED  BY <1>1, <2>2, <2>3, <2>4
  <1>2. CASE ~ (streaming /\ ring_room >= Cap \div 4)
    BY <1>2 DEF Reap
  <1>q. QED  BY <1>1, <1>2

LEMMA ReapTyped ==
  ASSUME Typed, Reap
  PROVE  Typed'
  <1>0. QueueTyped /\ SliceTyped /\ CountTyped /\ NetTyped /\ Numbered
    BY DEF Typed
  <1>1. UNCHANGED <<cur, chunk, log, requeue, txpn, largest, rec, pto, probe, net, drops, peer>>
        /\ phase' = "pump"
    BY DEF Reap
  <1>2. in_use' \in BOOLEAN
    BY DEF Reap
  <1>3. /\ qlen' \in 0 .. MaxLen /\ cur \in 0 .. qlen' /\ streaming' \in BOOLEAN
        /\ ring' \in [0 .. Cap - 1 -> -1 .. MaxLen]
    <2>1. CASE UNCHANGED <<ring, qlen, streaming>>
      BY <1>0, <2>1 DEF QueueTyped
    <2>2. ASSUME NEW n \in Nat, RefillBy(n), streaming' \in BOOLEAN
          PROVE  /\ qlen' \in 0 .. MaxLen /\ cur \in 0 .. qlen' /\ streaming' \in BOOLEAN
                 /\ ring' \in [0 .. Cap - 1 -> -1 .. MaxLen]
      <3> DEFINE m == qlen % Cap
      <3>1. /\ qlen \in Nat /\ cur \in Nat /\ cur <= qlen /\ MaxLen \in Nat /\ qlen + n <= MaxLen
            /\ Cap \in Nat \ {0} /\ m \in 0 .. Cap - 1
            /\ ring' = [i \in 0 .. Cap - 1 |->
                          IF i - m \in 0 .. n - 1 THEN qlen + i - m ELSE ring[i]]
            /\ ring \in [0 .. Cap - 1 -> -1 .. MaxLen] /\ qlen' = qlen + n
        BY <1>0, <2>2, Sizes, DivMod DEF QueueTyped, RefillBy
      <3> HIDE DEF m
      <3>2. \A i \in 0 .. Cap - 1 : i - m \in 0 .. n - 1 => qlen + i - m \in -1 .. MaxLen
        BY <3>1
      <3>3. ring' \in [0 .. Cap - 1 -> -1 .. MaxLen]
        BY <3>1, <3>2
      <3>q. QED  BY <2>2, <3>1, <3>3
    <2>q. QED  BY <2>1, <2>2, ReapShape
  <1>4. QueueTyped'
    BY <1>0, <1>1, <1>2, <1>3 DEF QueueTyped
  <1>5. SliceTyped' /\ CountTyped' /\ NetTyped' /\ Numbered'
    BY <1>0, <1>1 DEF SliceTyped, CountTyped, NetTyped, Numbered, peer, Within
  <1>q. QED  BY <1>4, <1>5 DEF Typed

\* Sealing a packet uses the next number and keeps the record within its capacity.
LEMMA SealedTyped ==
  ASSUME CountTyped, txpn < MaxPn, NEW pkt, Sealed(pkt), UNCHANGED <<largest, pto, drops>>
  PROVE  CountTyped'
  <1>1. /\ txpn \in 0 .. MaxPn /\ MaxPn \in Nat /\ probe \in 0 .. Probes /\ Probes \in Nat
        /\ txpn' = txpn + 1 /\ probe' = IF probe > 0 THEN probe - 1 ELSE 0
        /\ rec' = IF Cardinality(rec) < RecCap THEN rec \cup {txpn} ELSE rec
    BY Sizes DEF CountTyped, Sealed
  <1>2. txpn' \in 0 .. MaxPn /\ probe' \in 0 .. Probes
    BY <1>1
  <1>3. rec' \subseteq 0 .. MaxPn
    BY <1>1 DEF CountTyped
  <1>4. IsFiniteSet(rec) /\ Cardinality(rec) \in Nat
    <2>1. 0 \in Int /\ MaxPn \in Int
      BY Sizes
    <2>2. IsFiniteSet(0 .. MaxPn)
      BY <2>1, FS_Interval
    <2>3. IsFiniteSet(rec)
      BY <2>2, FS_Subset DEF CountTyped
    <2>q. QED  BY <2>3, FS_CardinalityType
  <1>5. Cardinality(rec') <= RecCap
    <2>1. CASE Cardinality(rec) < RecCap
      <3>1. Cardinality(rec \cup {txpn}) = IF txpn \in rec THEN Cardinality(rec)
                                           ELSE Cardinality(rec) + 1
        BY <1>4, FS_AddElement
      <3>2. rec' = rec \cup {txpn}
        BY <1>1, <2>1
      <3>3. Cardinality(rec') <= Cardinality(rec) + 1
        BY <1>4, <3>1, <3>2
      <3>4. Cardinality(rec') \in Nat
        BY <1>4, <3>1, <3>2
      <3>q. QED  BY <1>4, <2>1, <3>3, <3>4, Sizes
    <2>2. CASE ~ (Cardinality(rec) < RecCap)
      BY <1>1, <2>2 DEF CountTyped
    <2>q. QED  BY <2>1, <2>2
  <1>q. QED  BY <1>2, <1>3, <1>5 DEF CountTyped

\* What a send does, whichever slice it takes.
Sent(sl) ==
  LET pkt == [off |-> sl.off, len |-> sl.len, pn |-> txpn,
              fin |-> srvrun_slice_fin(sl), intact |-> Intact(sl)] IN
  /\ cur' = sl.cur /\ requeue' = sl.rest
  /\ Sealed(pkt) /\ net' = net \cup {pkt}
  /\ log' = log \cup {[off |-> sl.off, len |-> sl.len, pn |-> txpn]}
  /\ txpn < MaxPn /\ txpn' = txpn + 1
  /\ UNCHANGED <<qlen, chunk, ring, conn, phase, drops, peer>>

LEMMA SendTyped ==
  ASSUME Typed, Cardinality(log) < LogCap, NEW sl \in Takes, Sent(sl)
  PROVE  Typed'
  <1>0. QueueTyped /\ SliceTyped /\ CountTyped /\ NetTyped /\ Numbered
    BY DEF Typed
  <1>1. /\ sl.off \in 0 .. MaxLen /\ sl.len \in 1 .. Chunk /\ sl.cur \in cur .. qlen
        /\ sl.rest \subseteq Resendable /\ IsFiniteSet(sl.rest) /\ Cardinality(sl.rest) <= LogCap
    BY TakeTyped
  <1>2. CountTyped'
    BY <1>0, SealedTyped DEF Sent, conn
  <1>n. /\ cur \in Nat /\ qlen \in Nat /\ cur <= qlen /\ txpn \in Nat /\ txpn < MaxPn
        /\ MaxPn \in Nat /\ cur' = sl.cur /\ sl.cur \in Nat /\ cur <= sl.cur /\ qlen <= MaxLen
        /\ txpn' = txpn + 1 /\ MaxLen \in Nat
    BY <1>0, <1>1, Sizes DEF QueueTyped, CountTyped, Sent
  <1>3. QueueTyped'
    BY <1>0, <1>1, <1>n DEF QueueTyped, Sent, conn
  <1>w. /\ sl.off + sl.len <= cur' /\ \A x \in sl.rest : x.off + x.len <= cur' /\ x.pn1 <= txpn
    <2>1. CASE Fresh(sl)
      BY <1>n, <2>1 DEF Fresh
    <2>2. ASSUME NEW r \in requeue, Resend(sl, r)
          PROVE  /\ sl.off + sl.len <= cur'
                 /\ \A x \in sl.rest : x.off + x.len <= cur' /\ x.pn1 <= txpn
      <3>1. /\ r \in Resendable /\ r.off + r.len <= cur /\ r.pn1 <= txpn
            /\ \A x \in requeue : x.off + x.len <= cur /\ x.pn1 <= txpn
        BY <1>0 DEF SliceTyped, Within, Numbered
      <3>2. sl.off = r.off /\ sl.len \in 1 .. r.len /\ sl.cur = cur
        BY <2>2 DEF Resend
      <3>3. r.off \in Nat /\ r.len \in Nat
        BY <3>1, Sizes DEF Resendable
      <3>4. Leftover(r, sl.len).off + Leftover(r, sl.len).len <= cur
            /\ Leftover(r, sl.len).pn1 = r.pn1
        BY <1>n, <3>1, <3>2, <3>3 DEF Leftover, Resendable
      <3>5. \A x \in sl.rest : x \in requeue \/ x = Leftover(r, sl.len)
        BY <2>2 DEF Resend
      <3>q. QED  BY <1>n, <3>1, <3>2, <3>3, <3>4, <3>5
    <2>q. QED  BY <2>1, <2>2, TakeShape
  <1> DEFINE e == [off |-> sl.off, len |-> sl.len, pn |-> txpn]
  <1>4. e \in LogEntry /\ e.off + e.len <= cur' /\ e.pn = txpn
    BY <1>0, <1>1, <1>w, <1>n DEF LogEntry, CountTyped
  <1>5. log' = log \cup {e} /\ requeue' = sl.rest
    BY DEF Sent
  <1> HIDE DEF e
  <1>6. IsFiniteSet(log') /\ Cardinality(log') <= LogCap
    <2>1. IsFiniteSet(log) /\ Cardinality(log) \in Nat
      BY <1>0, FS_CardinalityType DEF SliceTyped
    <2>2. /\ IsFiniteSet(log \cup {e})
          /\ Cardinality(log \cup {e}) = IF e \in log THEN Cardinality(log) ELSE Cardinality(log) + 1
      BY <2>1, FS_AddElement
    <2>3. Cardinality(log') = Cardinality(log) \/ Cardinality(log') = Cardinality(log) + 1
      BY <1>5, <2>2
    <2>q. QED  BY <1>5, <2>1, <2>2, <2>3, Sizes
  <1>7. \A x \in log : x.off + x.len <= cur' /\ x.pn < txpn /\ x.pn \in Nat
    BY <1>0, <1>n DEF SliceTyped, Within, Numbered, LogEntry
  <1>8. SliceTyped'
    BY <1>0, <1>1, <1>4, <1>5, <1>6, <1>7, <1>w DEF SliceTyped, Within
  <1> DEFINE pkt == [off |-> sl.off, len |-> sl.len, pn |-> txpn,
                     fin |-> srvrun_slice_fin(sl), intact |-> Intact(sl)]
  <1>9. /\ net' = net \cup {pkt} /\ pkt \in Packet /\ pkt.off + pkt.len <= cur' /\ pkt.pn = txpn
        /\ rcvd' = rcvd /\ have' = have /\ fins' = fins
    <2>1. srvrun_slice_fin(sl) \in BOOLEAN /\ Intact(sl) \in BOOLEAN
      BY DEF srvrun_slice_fin, Intact
    <2>2. net' = net \cup {pkt} /\ rcvd' = rcvd /\ have' = have /\ fins' = fins
      BY DEF Sent, peer
    <2>3. sl.len \in 0 .. Chunk /\ txpn \in 0 .. MaxPn
      BY <1>1, <1>n
    <2>4. pkt \in Packet
      BY <1>1, <2>1, <2>3 DEF Packet
    <2>q. QED  BY <1>w, <2>2, <2>4
  <1> HIDE DEF pkt
  <1>10. NetTyped'
    <2>1. \A x \in net : x.off + x.len <= cur'
      BY <1>0, <1>n DEF NetTyped, Within, Packet
    <2>2. have \subseteq 0 .. cur' - 1
      BY <1>0, <1>n DEF NetTyped
    <2>q. QED  BY <1>0, <1>9, <2>1, <2>2 DEF NetTyped, Within
  <1>11. Numbered'
    <2>1. \A x \in log' : x.pn < txpn'
      BY <1>4, <1>5, <1>7, <1>n
    <2>2. \A x \in requeue' : x.pn1 <= txpn'
      <3>1. \A x \in sl.rest : x.pn1 \in Nat /\ x.pn1 <= txpn
        BY <1>1, <1>w, Sizes DEF Resendable
      <3>q. QED  BY <1>5, <1>n, <3>1
    <2>3. (\A x \in net' : x.pn < txpn') /\ \A x \in rcvd' : x < txpn'
      <3>1. (\A x \in net : x.pn \in Nat /\ x.pn < txpn) /\ \A x \in rcvd : x \in Nat /\ x < txpn
        BY <1>0, Sizes DEF NetTyped, Numbered, Packet
      <3>q. QED  BY <1>9, <1>n, <3>1
    <2>4. \A x, y \in log' : x.pn = y.pn => x = y
      BY <1>0, <1>4, <1>5, <1>7, <1>n DEF Numbered
    <2>q. QED  BY <2>1, <2>2, <2>3, <2>4 DEF Numbered
  <1>q. QED  BY <1>2, <1>3, <1>8, <1>10, <1>11 DEF Typed

\* What a take leaves of the requeue was taken before.
LEMMA RestWithin ==
  ASSUME Typed, NEW sl \in Takes
  PROVE  /\ sl.off + sl.len <= sl.cur /\ sl.pn1 <= txpn
         /\ \A x \in sl.rest : x.off + x.len <= sl.cur /\ x.pn1 <= txpn
  <1>0. /\ cur \in Nat /\ qlen \in Nat /\ txpn \in Nat
        /\ SliceTyped /\ Numbered
    BY Sizes DEF Typed, QueueTyped, CountTyped
  <1>1. CASE Fresh(sl)
    BY <1>0, <1>1 DEF Fresh
  <1>2. ASSUME NEW r \in requeue, Resend(sl, r)
        PROVE  /\ sl.off + sl.len <= sl.cur /\ sl.pn1 <= txpn
               /\ \A x \in sl.rest : x.off + x.len <= sl.cur /\ x.pn1 <= txpn
    <2>1. /\ r \in Resendable /\ r.off + r.len <= cur /\ r.pn1 <= txpn
          /\ \A x \in requeue : x.off + x.len <= cur /\ x.pn1 <= txpn
      BY <1>0 DEF SliceTyped, Within, Numbered
    <2>2. sl.off = r.off /\ sl.len \in 1 .. r.len /\ sl.cur = cur /\ sl.pn1 = r.pn1
      BY <1>2 DEF Resend
    <2>3. r.off \in Nat /\ r.len \in Nat
      BY <2>1, Sizes DEF Resendable
    <2>4. Leftover(r, sl.len).off + Leftover(r, sl.len).len <= cur
          /\ Leftover(r, sl.len).pn1 = r.pn1
      BY <1>0, <2>1, <2>2, <2>3 DEF Leftover, Resendable
    <2>5. \A x \in sl.rest : x \in requeue \/ x = Leftover(r, sl.len)
      BY <1>2 DEF Resend
    <2>q. QED  BY <1>0, <2>1, <2>2, <2>3, <2>4, <2>5
  <1>q. QED  BY <1>1, <1>2, TakeShape

\* What a failed send does: the slice goes back to the requeue.
Failed(sl) ==
  /\ cur' = sl.cur /\ requeue' = untake(sl)
  /\ txpn' \in {txpn, txpn + 1} /\ txpn < MaxPn
  /\ phase' \in {"ping", "idle"} /\ probe' = 0
  /\ UNCHANGED <<qlen, chunk, ring, log, conn, rec, net, drops, peer>>

PutBack(sl) == [off |-> sl.off, len |-> sl.len, pn1 |-> sl.pn1, probe |-> sl.probe]

LEMMA FailTyped ==
  ASSUME Typed, NEW sl \in Takes, Failed(sl)
  PROVE  Typed'
  <1>0. QueueTyped /\ SliceTyped /\ CountTyped /\ NetTyped /\ Numbered
    BY DEF Typed
  <1>1. /\ sl.off \in 0 .. MaxLen /\ sl.len \in 1 .. Chunk /\ sl.cur \in cur .. qlen
        /\ sl.pn1 \in 0 .. MaxPn + 1 /\ sl.probe \in BOOLEAN
        /\ sl.rest \subseteq Resendable /\ IsFiniteSet(sl.rest) /\ Cardinality(sl.rest) <= LogCap
    BY TakeTyped
  <1>2. /\ sl.off + sl.len <= sl.cur /\ sl.pn1 <= txpn
        /\ \A x \in sl.rest : x.off + x.len <= sl.cur /\ x.pn1 <= txpn
    BY RestWithin
  <1>3. /\ cur \in Nat /\ qlen \in Nat /\ cur <= qlen /\ txpn \in Nat /\ txpn < MaxPn
        /\ MaxPn \in Nat /\ cur' = sl.cur /\ sl.cur \in Nat /\ cur <= sl.cur /\ qlen <= MaxLen
        /\ txpn' \in Nat /\ txpn <= txpn' /\ txpn' <= MaxPn /\ MaxLen \in Nat
    <2>1. /\ cur \in Nat /\ qlen \in Nat /\ cur <= qlen /\ qlen <= MaxLen
          /\ MaxLen \in Nat /\ MaxPn \in Nat /\ txpn \in Nat
      BY <1>0, Sizes DEF QueueTyped, CountTyped
    <2>2. cur' = sl.cur /\ txpn < MaxPn /\ (txpn' = txpn \/ txpn' = txpn + 1)
      BY DEF Failed
    <2>3. sl.cur \in Nat /\ cur <= sl.cur
      BY <1>1, <2>1
    <2>q. QED  BY <2>1, <2>2, <2>3
  <1>4. QueueTyped'
    <2>1. /\ UNCHANGED <<qlen, chunk, ring, streaming, in_use>>
          /\ phase' \in {"idle", "reap", "pump", "ping", "dropped"}
      BY DEF Failed, conn
    <2>2. cur' \in 0 .. qlen'
      BY <1>3, <1>1, <2>1
    <2>q. QED  BY <1>0, <2>1, <2>2 DEF QueueTyped
  <1>5. CountTyped'
    BY <1>0, <1>3, Sizes DEF CountTyped, Failed, conn
  <1> DEFINE b == PutBack(sl)
  <1>6. b \in Resendable /\ b.off + b.len <= sl.cur /\ b.pn1 <= txpn
    BY <1>1, <1>2 DEF Resendable, PutBack
  <1>7. requeue' = sl.rest \/ (Room(sl.rest) > 0 /\ requeue' = sl.rest \cup {b})
    BY DEF Failed, untake, PutBack
  <1> HIDE DEF b
  <1>8. IsFiniteSet(requeue') /\ Cardinality(requeue') <= LogCap
    <2>1. CASE requeue' = sl.rest
      BY <1>1, <2>1
    <2>2. CASE Room(sl.rest) > 0 /\ requeue' = sl.rest \cup {b}
      <3>1. Cardinality(sl.rest) \in Nat
        BY <1>1, FS_CardinalityType
      <3>2. /\ IsFiniteSet(sl.rest \cup {b})
            /\ Cardinality(sl.rest \cup {b}) = IF b \in sl.rest THEN Cardinality(sl.rest)
                                               ELSE Cardinality(sl.rest) + 1
        BY <1>1, FS_AddElement
      <3>3. \/ Cardinality(sl.rest \cup {b}) = Cardinality(sl.rest)
            \/ Cardinality(sl.rest \cup {b}) = Cardinality(sl.rest) + 1
        BY <3>2
      <3>4. Cardinality(sl.rest) < LogCap
        BY <2>2, <3>1, Sizes DEF Room
      <3>q. QED  BY <2>2, <3>1, <3>2, <3>3, <3>4, Sizes
    <2>q. QED  BY <1>7, <2>1, <2>2
  <1>9. \A x \in requeue' : x \in Resendable /\ x.off + x.len <= cur' /\ x.pn1 <= txpn'
    <2>1. \A x \in requeue' : x \in Resendable /\ x.off + x.len <= sl.cur /\ x.pn1 <= txpn
      BY <1>1, <1>2, <1>6, <1>7
    <2>2. \A x \in Resendable : x.pn1 \in Nat
      BY <1>3 DEF Resendable
    <2>q. QED  BY <1>3, <2>1, <2>2
  <1>10. log' = log /\ net' = net /\ rcvd' = rcvd /\ have' = have /\ fins' = fins
    BY DEF Failed, peer
  <1>11. \A x \in log : x.off + x.len <= cur' /\ x.pn < txpn'
    BY <1>0, <1>3 DEF SliceTyped, Within, Numbered, LogEntry
  <1>12. SliceTyped'
    BY <1>0, <1>8, <1>9, <1>10, <1>11 DEF SliceTyped, Within
  <1>13. NetTyped'
    <2>1. \A x \in net : x.off + x.len <= cur'
      BY <1>0, <1>3 DEF NetTyped, Within, Packet
    <2>2. have \subseteq 0 .. cur' - 1
      BY <1>0, <1>3 DEF NetTyped
    <2>q. QED  BY <1>0, <1>10, <2>1, <2>2 DEF NetTyped, Within
  <1>14. Numbered'
    <2>1. (\A x \in net : x.pn \in Nat /\ x.pn < txpn) /\ \A x \in rcvd : x \in Nat /\ x < txpn
      BY <1>0, Sizes DEF NetTyped, Numbered, Packet
    <2>2. (\A x \in net : x.pn < txpn') /\ \A x \in rcvd : x < txpn'
      BY <1>3, <2>1
    <2>q. QED  BY <1>0, <1>9, <1>10, <1>11, <2>2 DEF Numbered
  <1>q. QED  BY <1>4, <1>5, <1>12, <1>13, <1>14 DEF Typed

LEMMA PingTyped ==
  ASSUME Typed, Ping
  PROVE  Typed'
  <1>0. QueueTyped /\ SliceTyped /\ CountTyped /\ NetTyped /\ Numbered
    BY DEF Typed
  <1>1. /\ UNCHANGED <<queue, log, requeue, conn, drops, peer>> /\ phase' = "idle"
        /\ txpn < MaxPn
    BY DEF Ping
  <1>2. QueueTyped' /\ SliceTyped'
    BY <1>0, <1>1 DEF QueueTyped, SliceTyped, queue, conn, Within
  <1> DEFINE pkt == [off |-> 0, len |-> 0, pn |-> txpn, fin |-> FALSE, intact |-> TRUE]
  <1>3. CASE UNCHANGED <<net, txpn, rec, probe>>
    BY <1>0, <1>1, <1>2, <1>3 DEF Typed, CountTyped, NetTyped, Numbered, queue, conn, peer, Within
  <1>4. CASE Sealed(pkt)
    <2>1. CountTyped'
      BY <1>0, <1>1, <1>4, SealedTyped DEF conn
    <2>2. txpn \in Nat /\ txpn < MaxPn /\ MaxPn \in Nat /\ txpn' = txpn + 1 /\ cur \in Nat
          /\ net' = net \cup {pkt} /\ cur' = cur
      BY <1>0, <1>1, <1>4, Sizes DEF CountTyped, QueueTyped, Sealed, queue
    <2>3. pkt \in Packet /\ pkt.off + pkt.len <= cur /\ pkt.pn = txpn
      <3>1. 0 \in 0 .. MaxLen /\ 0 \in 0 .. Chunk /\ txpn \in 0 .. MaxPn
        BY <2>2, Sizes
      <3>2. pkt \in Packet
        BY <3>1 DEF Packet
      <3>q. QED  BY <2>2, <3>2
    <2> HIDE DEF pkt
    <2>4. NetTyped'
      BY <1>0, <1>1, <2>2, <2>3 DEF NetTyped, Within, peer
    <2>5. Numbered'
      <3>1. (\A x \in net : x.pn \in Nat /\ x.pn < txpn) /\ \A x \in rcvd : x \in Nat /\ x < txpn
        BY <1>0, Sizes DEF NetTyped, Numbered, Packet
      <3>2. \A x \in log : x.pn \in Nat /\ x.pn < txpn
        BY <1>0, Sizes DEF SliceTyped, Numbered, LogEntry
      <3>3. \A x \in requeue : x.pn1 \in Nat /\ x.pn1 <= txpn
        BY <1>0, Sizes DEF SliceTyped, Numbered, Resendable
      <3>4. log' = log /\ requeue' = requeue /\ rcvd' = rcvd
        BY <1>1 DEF peer
      <3>5. (\A x \in net' : x.pn < txpn') /\ \A x \in rcvd' : x < txpn'
        BY <2>2, <2>3, <3>1, <3>4
      <3>6. (\A x \in log' : x.pn < txpn') /\ (\A x \in requeue' : x.pn1 <= txpn')
        BY <2>2, <3>2, <3>3, <3>4
      <3>q. QED  BY <1>0, <3>4, <3>5, <3>6 DEF Numbered
    <2>q. QED  BY <1>2, <2>1, <2>4, <2>5 DEF Typed
  <1>q. QED  BY <1>3, <1>4 DEF Ping

\* The network takes a packet away, and what arrives was sent.
LEMMA NetworkTyped ==
  ASSUME Typed, NEW p \in net, Deliver(p) \/ Drop(p)
  PROVE  Typed'
  <1>0. QueueTyped /\ SliceTyped /\ CountTyped /\ NetTyped /\ Numbered
    BY DEF Typed
  <1>1. UNCHANGED <<queue, log, requeue, conn, txpn, rec, probe, phase>> /\ net' = net \ {p}
    BY DEF Deliver, Drop
  <1>2. QueueTyped' /\ SliceTyped'
    BY <1>0, <1>1 DEF QueueTyped, SliceTyped, queue, conn, Within
  <1>3. CountTyped'
    <2>1. drops' \in 0 .. MaxDrops
      BY <1>0, Sizes DEF CountTyped, Deliver, Drop
    <2>q. QED  BY <1>0, <1>1, <2>1 DEF CountTyped, conn
  <1>4. /\ p \in Packet /\ p.off + p.len <= cur /\ p.pn < txpn /\ p.pn \in 0 .. MaxPn
        /\ p.off \in Nat /\ p.len \in Nat /\ cur \in Nat /\ cur <= MaxLen /\ MaxLen \in Nat
        /\ cur' = cur /\ txpn' = txpn
    BY <1>0, <1>1, Sizes DEF NetTyped, Numbered, Packet, Within, QueueTyped, queue
  <1>5. /\ rcvd' \subseteq rcvd \cup {p.pn} /\ have' \subseteq have \cup Bytes(p)
        /\ fins' \subseteq fins \cup {p.off + p.len}
    BY DEF Deliver, Drop, peer
  <1>6. Bytes(p) \subseteq 0 .. cur - 1 /\ Bytes(p) \subseteq 0 .. MaxLen
        /\ p.off + p.len \in 0 .. MaxLen
    BY <1>4 DEF Bytes
  <1>7. NetTyped'
    BY <1>0, <1>1, <1>4, <1>5, <1>6 DEF NetTyped, Within
  <1>8. Numbered'
    BY <1>0, <1>1, <1>4, <1>5 DEF Numbered
  <1>q. QED  BY <1>2, <1>3, <1>7, <1>8 DEF Typed

\* The steps that take a slice.
LEMMA PumpShape ==
  /\ PumpSend => \E sl \in Takes : Sent(sl) /\ Cardinality(log) < LogCap /\ in_use
                                   /\ phase = "pump"
  /\ PumpFail => \E sl \in Takes : Failed(sl) /\ in_use /\ SealFails /\ phase = "pump"
  <1>1. ASSUME PumpSend
        PROVE  \E sl \in Takes : Sent(sl) /\ Cardinality(log) < LogCap /\ in_use /\ phase = "pump"
    <2>1. PICK sl \in Takes :
            /\ cur' = sl.cur /\ requeue' = sl.rest
            /\ Sealed([off |-> sl.off, len |-> sl.len, pn |-> txpn,
                       fin |-> srvrun_slice_fin(sl), intact |-> Intact(sl)])
            /\ log' = log \cup {[off |-> sl.off, len |-> sl.len, pn |-> txpn]}
      BY <1>1 DEF PumpSend
    <2>2. /\ UNCHANGED <<qlen, chunk, ring, conn, phase, drops, peer>> /\ txpn < MaxPn
          /\ Cardinality(log) < LogCap /\ in_use /\ phase = "pump"
      BY <1>1 DEF PumpSend, GateOpen
    <2>3. Sent(sl)
      BY <2>1, <2>2 DEF Sent, Sealed
    <2>q. QED  BY <2>2, <2>3
  <1>2. ASSUME PumpFail
        PROVE  \E sl \in Takes : Failed(sl) /\ in_use /\ SealFails /\ phase = "pump"
    <2>1. PICK sl \in Takes : cur' = sl.cur /\ requeue' = untake(sl)
      BY <1>2 DEF PumpFail
    <2>2. Failed(sl)
      BY <1>2, <2>1 DEF PumpFail, Failed
    <2>q. QED  BY <1>2, <2>2 DEF PumpFail, GateOpen
  <1>q. QED  BY <1>1, <1>2

\* Steps that only move the server along.
LEMMA IdleTyped ==
  ASSUME Typed, PumpEnds \/ Tick
  PROVE  Typed'
  <1>1. /\ UNCHANGED <<queue, log, requeue, conn, txpn, rec, net, drops, peer>>
        /\ phase' \in {"ping", "idle", "pump"} /\ probe' \in {0, probe}
    BY DEF PumpEnds, Tick
  <1>2. QueueTyped' /\ SliceTyped'
    BY <1>1 DEF Typed, QueueTyped, SliceTyped, queue, conn, Within
  <1>3. CountTyped'
    BY <1>1, Sizes DEF Typed, CountTyped, conn
  <1>4. NetTyped' /\ Numbered'
    BY <1>1 DEF Typed, NetTyped, Numbered, Within, queue, peer
  <1>q. QED  BY <1>2, <1>3, <1>4 DEF Typed

LEMMA TypedNext ==
  ASSUME Typed, [Next]_vars
  PROVE  Typed'
  <1>1. CASE AckStep
    BY <1>1, AckTyped DEF AckStep
  <1>2. CASE Timers
    BY <1>2, TimersTyped
  <1>3. CASE Reap
    BY <1>3, ReapTyped
  <1>4. CASE PumpSend
    BY <1>4, PumpShape, SendTyped
  <1>5. CASE PumpFail
    BY <1>5, PumpShape, FailTyped
  <1>6. CASE Ping
    BY <1>6, PingTyped
  <1>7. CASE PumpEnds \/ Tick
    BY <1>7, IdleTyped
  <1>8. CASE \E p \in net : Deliver(p) \/ Drop(p)
    BY <1>8, NetworkTyped
  <1>9. CASE UNCHANGED vars
    <2>1. UNCHANGED <<qlen, cur, chunk, ring, log, requeue, streaming, in_use, largest, pto, txpn,
                      rec, probe, phase, net, drops, rcvd, have, fins>>
      BY <1>9 DEF vars, queue, conn, peer
    <2>q. QED  BY <2>1 DEF Typed, QueueTyped, SliceTyped, CountTyped, NetTyped, Numbered, Within
  <1>q. QED  BY <1>1, <1>2, <1>3, <1>4, <1>5, <1>6, <1>7, <1>8, <1>9 DEF Next, Pump

\* Types: in particular neither the log nor the requeue ever holds more than
\* WIRED_SENDSESS_LOG slices and the record never more than SENTMETA_CAP packets, every
\* slice in them was taken from the queue, and no packet number is used twice.
THEOREM SendTypeCorrect == Spec => []TypeOK
  <1>1. Init => Typed
    BY TypedInit
  <1>2. Typed /\ [Next]_vars => Typed'
    BY TypedNext
  <1>3. Typed => TypeOK
    BY DEF Typed, QueueTyped, SliceTyped, CountTyped, NetTyped, TypeOK, LogEntry, Resendable, Packet
  <1>q. QED  BY <1>1, <1>2, <1>3, PTL DEF Spec

LEMMA AlwaysTyped == Spec => []Typed
  <1>1. Init => Typed
    BY TypedInit
  <1>2. Typed /\ [Next]_vars => Typed'
    BY TypedNext
  <1>q. QED  BY <1>1, <1>2, PTL DEF Spec

-----------------------------------------------------------------------------
\* The final size.

LEMMA FinalSizeStep ==
  ASSUME Typed, FinalSizeStable, [Next]_vars
  PROVE  FinalSizeStable'
  <1>1. CASE UNCHANGED <<qlen, streaming, net, fins>>
    BY <1>1 DEF FinalSizeStable
  <1>2. CASE Reap
    <2>1. net' = net /\ fins' = fins
      BY <1>2 DEF Reap, peer
    <2>2. CASE UNCHANGED <<qlen, streaming>>
      BY <2>1, <2>2 DEF FinalSizeStable
    <2>3. CASE streaming
      BY <2>1, <2>3 DEF FinalSizeStable
    <2>q. QED  BY <1>2, <2>2, <2>3, ReapShape
  <1>3. CASE PumpSend
    <2>1. PICK sl \in Takes : Sent(sl)
      BY <1>3, PumpShape
    <2> DEFINE pkt == [off |-> sl.off, len |-> sl.len, pn |-> txpn,
                       fin |-> srvrun_slice_fin(sl), intact |-> Intact(sl)]
    <2>2. net' = net \cup {pkt} /\ qlen' = qlen /\ streaming' = streaming /\ fins' = fins
      BY <2>1 DEF Sent, conn, peer
    <2>3. pkt.fin => pkt.off + pkt.len = qlen /\ ~ streaming
      BY DEF srvrun_slice_fin
    <2> HIDE DEF pkt
    <2>q. QED  BY <2>2, <2>3 DEF FinalSizeStable
  <1>4. CASE Ping
    <2>1. qlen' = qlen /\ streaming' = streaming /\ fins' = fins
      BY <1>4 DEF Ping, queue, conn, peer
    <2>2. \A p \in net' : p.fin => p \in net
      BY <1>4 DEF Ping, Sealed
    <2>q. QED  BY <2>1, <2>2 DEF FinalSizeStable
  <1>5. ASSUME NEW p \in net, Deliver(p) \/ Drop(p)
        PROVE  FinalSizeStable'
    <2>1. /\ qlen' = qlen /\ streaming' = streaming /\ net' \subseteq net
          /\ fins' = fins \/ (p.fin /\ fins' = fins \cup {p.off + p.len})
      BY <1>5 DEF Deliver, Drop, queue, conn, peer
    <2>q. QED  BY <2>1 DEF FinalSizeStable
  <1>6. CASE AckStep \/ Timers \/ PumpFail \/ PumpEnds \/ Tick \/ UNCHANGED vars
    <2>1. UNCHANGED <<qlen, streaming, net, fins>>
      BY <1>6 DEF AckStep, FeedAcks, Timers, PtoFires, LossTimer, PumpFail, PumpEnds, Tick,
                  vars, queue, conn, peer
    <2>q. QED  BY <1>1, <2>1
  <1>q. QED  BY <1>2, <1>3, <1>4, <1>5, <1>6 DEF Next, Pump

\* Every FIN that srvrun_slice_fin ever put on a packet, on a first send or on a resend,
\* names the one final size of the response (RFC 9000 4.5), whatever is lost, resent or
\* refilled in between.
THEOREM OneFinalSize == Spec => []FinalSizeStable
  <1>1. Init => FinalSizeStable
    BY DEF Init, FinalSizeStable
  <1>2. Typed /\ FinalSizeStable /\ [Next]_vars => FinalSizeStable'
    BY FinalSizeStep
  <1>q. QED  BY <1>1, <1>2, AlwaysTyped, PTL DEF Spec

-----------------------------------------------------------------------------
\* The ring.

\* An offset a little further on lies a little further on in the ring.
LEMMA ModAdd ==
  ASSUME NEW x \in Nat, NEW k \in Nat, NEW d \in Nat \ {0}, (x % d) + k < d
  PROVE  (x + k) % d = (x % d) + k
  <1> DEFINE q == x \div d
             r == x % d
  <1>1. r \in 0 .. d - 1 /\ q \in Nat /\ x = d * q + r
    BY DivMod
  <1>2. r + k < d
    OBVIOUS
  <1> HIDE DEF q, r
  <1>3. x + k = d * q + (r + k) /\ r + k \in 0 .. d - 1 /\ x + k \in Nat /\ q \in Int
    BY <1>1, <1>2
  <1>4. (x + k) % d = r + k
    BY <1>3, ModIs
  <1>q. QED  BY <1>4 DEF r

\* The ring holds every byte that may still be sent: the ones not yet taken and the ones
\* of a slice in flight or to resend, and no such slice crosses the wrap.
Stored(i) == ring[i % Cap] = i
Whole(sl) == (sl.off % Cap) + sl.len <= Cap /\ \A i \in Bytes(sl) : Stored(i)
RingInv ==
  /\ \A i \in cur .. qlen - 1 : Stored(i)
  /\ \A sl \in log \cup requeue : Whole(sl)

\* A slice of such a ring is read back as it was written.
LEMMA WholeIsIntact ==
  ASSUME NEW sl, sl.off \in Nat, sl.len \in Nat, Whole(sl)
  PROVE  Intact(sl)
  <1> SUFFICES ASSUME NEW i \in 0 .. sl.len - 1
               PROVE  (sl.off % Cap) + i < Cap /\ ring[(sl.off % Cap) + i] = sl.off + i
    BY DEF Intact
  <1> DEFINE m == sl.off % Cap
             o == sl.off
             n == sl.len
  <1>1. m \in 0 .. Cap - 1 /\ Cap \in Nat \ {0}
    BY Sizes, DivMod
  <1>2. m + n <= Cap /\ o \in Nat /\ n \in Nat /\ i \in 0 .. n - 1
    BY DEF Whole
  <1>3. m + i < Cap /\ i \in Nat /\ o + i \in o .. o + n - 1
    <2> HIDE DEF m, o, n
    <2>q. QED  BY <1>1, <1>2
  <1>4. (o + i) % Cap = m + i
    BY <1>1, <1>2, <1>3, ModAdd
  <1>5. ring[(o + i) % Cap] = o + i
    BY <1>3 DEF Whole, Bytes, Stored
  <1>q. QED  BY <1>3, <1>4, <1>5

\* The front and the rest of a split slice are whole if the slice was.
LEMMA SplitWhole ==
  ASSUME NEW r \in Resendable, Whole(r), NEW n \in 1 .. r.len, NEW x,
         \/ x.off = r.off /\ x.len = n
         \/ n # r.len /\ x.off = r.off + n /\ x.len = r.len - n
  PROVE  Whole(x)
  <1> DEFINE m == r.off % Cap
             o == r.off
             l == r.len
  <1>1. m \in 0 .. Cap - 1 /\ Cap \in Nat \ {0} /\ o \in Nat /\ l \in Nat
    <2>1. o \in Nat /\ l \in Nat
      BY Sizes DEF Resendable
    <2>q. QED  BY <2>1, Sizes, DivMod
  <1>2. m + l <= Cap /\ n \in 1 .. l /\ \A i \in o .. o + l - 1 : Stored(i)
    BY DEF Whole, Bytes
  <1>3. CASE x.off = o /\ x.len = n
    <2> HIDE DEF o, l
    <2>1. (x.off % Cap) = m
      BY <1>3 DEF o
    <2> HIDE DEF m
    <2>2. (x.off % Cap) + x.len <= Cap
      BY <1>1, <1>2, <1>3, <2>1
    <2>3. \A i \in Bytes(x) : Stored(i)
      BY <1>1, <1>2, <1>3 DEF Bytes
    <2>q. QED  BY <2>2, <2>3 DEF Whole
  <1>4. CASE n # l /\ x.off = o + n /\ x.len = l - n
    <2>1. n \in Nat /\ m + n < Cap
      <3> HIDE DEF m, o, l
      <3>q. QED  BY <1>1, <1>2, <1>4
    <2>2. (o + n) % Cap = m + n
      BY <1>1, <2>1, ModAdd
    <2>3. (x.off % Cap) = m + n
      BY <1>4, <2>2
    <2> HIDE DEF m, o, l
    <2>4. (x.off % Cap) + x.len <= Cap
      BY <1>1, <1>2, <1>4, <2>1, <2>3
    <2>5. \A i \in Bytes(x) : Stored(i)
      BY <1>1, <1>2, <1>4, <2>1 DEF Bytes
    <2>q. QED  BY <2>4, <2>5 DEF Whole
  <1>q. QED  BY <1>3, <1>4

\* So a take hands out whole slices only.
LEMMA TakeWhole ==
  ASSUME Typed, RingInv, NEW sl \in Takes
  PROVE  Whole(sl) /\ \A x \in sl.rest : Whole(x)
  <1>1. CASE Fresh(sl)
    <2>1. (sl.off % Cap) + sl.len <= Cap /\ sl.rest = {}
      BY <1>1 DEF Fresh
    <2>0. /\ cur \in Nat /\ qlen \in Nat
          /\ sl.off = cur /\ sl.len \in 1 .. qlen - cur
      BY <1>1, Sizes DEF Fresh, Typed, QueueTyped
    <2>2. \A i \in Bytes(sl) : i \in cur .. qlen - 1
      BY <2>0 DEF Bytes
    <2>q. QED  BY <2>1, <2>2 DEF Whole, RingInv
  <1>2. ASSUME NEW r \in requeue, Resend(sl, r)
        PROVE  Whole(sl) /\ \A x \in sl.rest : Whole(x)
    <2>1. r \in Resendable /\ Whole(r)
      BY DEF Typed, SliceTyped, RingInv
    <2>2. sl.off = r.off /\ sl.len \in 1 .. r.len
      BY <1>2 DEF Resend
    <2>3. Whole(sl)
      BY <2>1, <2>2, SplitWhole
    <2>4. sl.len # r.len => Whole(Leftover(r, sl.len))
      <3>1. Leftover(r, sl.len).off = r.off + sl.len /\ Leftover(r, sl.len).len = r.len - sl.len
        BY <2>1 DEF Leftover, Resendable
      <3>q. QED  BY <2>1, <2>2, <3>1, SplitWhole
    <2>5. \A x \in sl.rest : x \in requeue \/ (sl.len # r.len /\ x = Leftover(r, sl.len))
      BY <1>2 DEF Resend
    <2>q. QED  BY <2>3, <2>4, <2>5 DEF RingInv
  <1>q. QED  BY <1>1, <1>2, TakeShape

\* A refill writes new bytes where no byte lies that may still be sent.
LEMMA RefillKeeps ==
  ASSUME Typed, NEW n \in Nat, RefillBy(n), NEW i \in Nat,
         i >= reclaim_base, i < qlen => Stored(i), i < qlen + n
  PROVE  Stored(i)'
  <1> DEFINE m == qlen % Cap
             c == i % Cap
  <1>1. /\ Cap \in Nat \ {0} /\ qlen \in Nat /\ reclaim_base \in Nat
        /\ n <= Cap - (qlen - reclaim_base)
    BY Sizes, FloorIs DEF Typed, QueueTyped, RefillBy, ring_room
  <1>2. m \in 0 .. Cap - 1 /\ c \in 0 .. Cap - 1
    BY <1>1, DivMod
  <1>3. /\ m + n <= Cap
        /\ ring' = [j \in 0 .. Cap - 1 |-> IF j - m \in 0 .. n - 1 THEN qlen + j - m ELSE ring[j]]
    BY DEF RefillBy
  <1>4. CASE i < qlen
    <2>1. ~ (c - m \in 0 .. n - 1)
      <3> SUFFICES ASSUME c - m \in 0 .. n - 1 PROVE FALSE
        OBVIOUS
      <3> DEFINE k == c - m
      <3>1. k \in Nat /\ k < n /\ m + k < Cap /\ c = m + k
        <4> HIDE DEF m, c
        <4>q. QED  BY <1>1, <1>2, <1>3
      <3> HIDE DEF k
      <3>2. (qlen + k) % Cap = m + k
        BY <1>1, <3>1, ModAdd
      <3>3. i % Cap = (qlen + k) % Cap
        BY <3>1, <3>2
      <3>4. qlen + k \in Nat /\ i <= qlen + k /\ (qlen + k) - i < Cap
        BY <1>1, <1>4, <3>1
      <3>5. i = qlen + k
        BY <1>1, <3>3, <3>4, ModDistinct
      <3>q. QED  BY <1>1, <1>4, <3>1, <3>5
    <2>2. ring[c] = i
      BY <1>4 DEF Stored
    <2>3. ring'[c] = i
      <3> HIDE DEF m, c
      <3>q. QED  BY <1>2, <1>3, <2>1, <2>2
    <2>q. QED  BY <2>3 DEF Stored
  <1>5. CASE ~ (i < qlen)
    <2> DEFINE k == i - qlen
    <2>1. k \in Nat /\ k < n /\ i = qlen + k
      BY <1>1, <1>5
    <2> HIDE DEF k
    <2>2. m + k < Cap
      <3> HIDE DEF m
      <3>q. QED  BY <1>1, <1>2, <1>3, <2>1
    <2>3. c = m + k
      BY <1>1, <2>1, <2>2, ModAdd
    <2>4. ring'[c] = i
      <3> HIDE DEF m, c
      <3>1. c - m = k /\ k \in 0 .. n - 1 /\ qlen + c - m = i
        BY <1>1, <1>2, <2>1, <2>3
      <3>q. QED  BY <1>2, <1>3, <3>1
    <2>q. QED  BY <2>4 DEF Stored
  <1>q. QED  BY <1>4, <1>5

LEMMA ReapRing ==
  ASSUME Typed, RingInv, Reap
  PROVE  RingInv'
  <1>0. log' = log /\ requeue' = requeue /\ cur' = cur
    BY DEF Reap
  <1>1. CASE UNCHANGED <<ring, qlen>>
    BY <1>0, <1>1 DEF RingInv, Whole, Stored, Bytes
  <1>2. ASSUME NEW n \in Nat, RefillBy(n)
        PROVE  RingInv'
    <2>0. cur \in Nat /\ qlen \in Nat /\ cur <= qlen /\ qlen' = qlen + n
      BY <1>2, Sizes DEF Typed, QueueTyped, RefillBy
    <2>1. ASSUME NEW i \in cur .. qlen' - 1
          PROVE  Stored(i)'
      <3>1. i \in Nat /\ i >= reclaim_base /\ i < qlen + n
        BY <2>0, FloorIs
      <3>2. i < qlen => Stored(i)
        BY <2>0 DEF RingInv
      <3>q. QED  BY <1>2, <3>1, <3>2, RefillKeeps
    <2>2. ASSUME NEW sl \in log \cup requeue
          PROVE  Whole(sl)'
      <3>1. sl.off \in Nat /\ sl.len \in Nat /\ sl.off + sl.len <= cur /\ Whole(sl)
            /\ reclaim_base <= sl.off /\ reclaim_base \in Nat
        BY Sizes, FloorIs DEF Typed, SliceTyped, LogEntry, Resendable, Within, RingInv
      <3>2. ASSUME NEW i \in Bytes(sl)
            PROVE  Stored(i)'
        <4>1. i \in Nat /\ i >= reclaim_base /\ i < qlen + n
          BY <2>0, <3>1 DEF Bytes
        <4>2. Stored(i)
          BY <3>1 DEF Whole
        <4>q. QED  BY <1>2, <4>1, <4>2, RefillKeeps
      <3>q. QED  BY <3>1, <3>2 DEF Whole
    <2>q. QED  BY <1>0, <2>1, <2>2 DEF RingInv
  <1>q. QED  BY <1>1, <1>2, ReapShape

LEMMA RingNext ==
  ASSUME Typed, RingInv, BytesIntact, [Next]_vars
  PROVE  RingInv' /\ BytesIntact'
  <1>1. CASE Reap
    <2>1. net' = net
      BY <1>1 DEF Reap
    <2>q. QED  BY <1>1, <2>1, ReapRing DEF BytesIntact
  <1>2. CASE PumpSend
    <2>1. PICK sl \in Takes : Sent(sl)
      BY <1>2, PumpShape
    <2> DEFINE e == [off |-> sl.off, len |-> sl.len, pn |-> txpn]
               pkt == [off |-> sl.off, len |-> sl.len, pn |-> txpn,
                       fin |-> srvrun_slice_fin(sl), intact |-> Intact(sl)]
    <2>2. /\ Whole(sl) /\ \A x \in sl.rest : Whole(x)
          /\ sl.off \in Nat /\ sl.len \in Nat /\ sl.cur \in Nat /\ cur <= sl.cur /\ cur \in Nat
      <3>1. cur \in Nat /\ qlen \in Nat /\ MaxLen \in Nat /\ Chunk \in Nat
        BY Sizes DEF Typed, QueueTyped
      <3>2. sl.off \in 0 .. MaxLen /\ sl.len \in 1 .. Chunk /\ sl.cur \in cur .. qlen
        BY TakeTyped
      <3>3. Whole(sl) /\ \A x \in sl.rest : Whole(x)
        BY TakeWhole
      <3>q. QED  BY <3>1, <3>2, <3>3
    <2>3. /\ ring' = ring /\ qlen' = qlen /\ cur' = sl.cur /\ requeue' = sl.rest
          /\ log' = log \cup {e} /\ net' = net \cup {pkt}
      BY <2>1 DEF Sent
    <2>4. Whole(e) /\ pkt.intact
      BY <2>2, WholeIsIntact DEF Whole, Bytes
    <2> HIDE DEF e, pkt
    <2>5. \A i \in cur' .. qlen' - 1 : Stored(i)
      BY <2>2, <2>3 DEF RingInv, Typed, QueueTyped
    <2>q. QED  BY <2>2, <2>3, <2>4, <2>5 DEF RingInv, BytesIntact, Whole, Stored, Bytes
  <1>3. CASE PumpFail
    <2>1. PICK sl \in Takes : Failed(sl)
      BY <1>3, PumpShape
    <2>2. /\ Whole(sl) /\ \A x \in sl.rest : Whole(x)
          /\ sl.off \in Nat /\ sl.len \in Nat /\ sl.cur \in Nat /\ cur <= sl.cur /\ cur \in Nat
      <3>1. cur \in Nat /\ qlen \in Nat /\ MaxLen \in Nat /\ Chunk \in Nat
        BY Sizes DEF Typed, QueueTyped
      <3>2. sl.off \in 0 .. MaxLen /\ sl.len \in 1 .. Chunk /\ sl.cur \in cur .. qlen
        BY TakeTyped
      <3>3. Whole(sl) /\ \A x \in sl.rest : Whole(x)
        BY TakeWhole
      <3>q. QED  BY <3>1, <3>2, <3>3
    <2>3. /\ ring' = ring /\ qlen' = qlen /\ cur' = sl.cur /\ log' = log /\ net' = net
          /\ requeue' \subseteq sl.rest \cup {PutBack(sl)}
      BY <2>1 DEF Failed, untake, PutBack
    <2>4. Whole(PutBack(sl))
      BY <2>2 DEF Whole, Bytes, PutBack
    <2>5. \A i \in cur' .. qlen' - 1 : Stored(i)
      BY <2>2, <2>3 DEF RingInv, Typed, QueueTyped
    <2>q. QED  BY <2>2, <2>3, <2>4, <2>5 DEF RingInv, BytesIntact, Whole, Stored, Bytes
  <1>4. CASE AckStep \/ Timers
    <2>1. Shuffled /\ UNCHANGED <<qlen, cur, ring, net>>
      BY <1>4, FeedAcksShape, LossTimerShape, PtoShape
         DEF AckStep, Timers, FeedAcks, LossTimer, PtoFires, queue
    <2>2. ASSUME NEW x, NEW e \in log, CopyOf(x, e)
          PROVE  Whole(x)
      <3>1. x.off = e.off /\ x.len = e.len
        BY <2>2 DEF CopyOf
      <3>q. QED  BY <3>1 DEF RingInv, Whole, Bytes
    <2>3. \A x \in log' \cup requeue' : Whole(x)
      BY <2>1, <2>2 DEF Shuffled, RingInv
    <2>q. QED  BY <2>1, <2>3 DEF RingInv, BytesIntact, Whole, Stored, Bytes
  <1>5. CASE \/ Ping \/ PumpEnds \/ Tick \/ UNCHANGED vars
             \/ \E p \in net : Deliver(p) \/ Drop(p)
    <2>1. /\ UNCHANGED <<qlen, cur, ring, log, requeue>>
          /\ \A p \in net' : p \in net \/ p.intact
      BY <1>5 DEF Ping, Sealed, PumpEnds, Tick, Deliver, Drop, vars, queue
    <2>q. QED  BY <2>1 DEF RingInv, BytesIntact, Whole, Stored, Bytes
  <1>q. QED  BY <1>1, <1>2, <1>3, <1>4, <1>5 DEF Next, Pump

\* Every packet, first send or resend, carries the bytes of its own stream range: a refill
\* (srvrun_resp_refill_write) never overwrites a ring cell that a slice in flight or
\* waiting to be resent may still be read from, and no slice, split or not, is read across
\* the ring's wrap.
THEOREM BytesAlwaysIntact == Spec => []BytesIntact
  <1>1. Init => RingInv /\ BytesIntact
    <2> SUFFICES ASSUME Init PROVE RingInv /\ BytesIntact
      OBVIOUS
    <2>1. /\ qlen \in Nat /\ qlen <= Cap /\ cur = 0 /\ log = {} /\ requeue = {} /\ net = {}
          /\ ring = [i \in 0 .. Cap - 1 |-> IF i < qlen THEN i ELSE -1]
      BY Sizes DEF Init
    <2>2. ASSUME NEW i \in cur .. qlen - 1
          PROVE  Stored(i)
      <3>1. i \in 0 .. Cap - 1 /\ i < qlen /\ i \in Nat /\ i = Cap * 0 + i /\ Cap \in Nat \ {0}
        BY <2>1, Sizes
      <3>2. i % Cap = i
        BY <3>1, ModIs
      <3>q. QED  BY <2>1, <3>1, <3>2 DEF Stored
    <2>q. QED  BY <2>1, <2>2 DEF RingInv, BytesIntact
  <1>2. Typed /\ RingInv /\ BytesIntact /\ [Next]_vars => RingInv' /\ BytesIntact'
    BY RingNext
  <1>q. QED  BY <1>1, <1>2, AlwaysTyped, PTL DEF Spec

-----------------------------------------------------------------------------
\* Nothing that was taken is forgotten.

Ends(sl) == sl.off + sl.len

\* The packet pn carries the slice, and the end of the stream if the slice has it: what the
\* network still holds of that packet holds it, and the peer has it if it has the packet.
Carries(sl, pn) ==
  /\ pn \in rcvd => Bytes(sl) \subseteq have
  /\ \A p \in net : p.pn = pn => Bytes(sl) \subseteq Bytes(p)
CarriesEnd(sl, pn) ==
  ~ streaming /\ Ends(sl) = qlen =>
    /\ pn \in rcvd => qlen \in fins
    /\ \A p \in net : p.pn = pn => p.fin

\* A slice in flight is carried by its packet, a slice to resend by the packet that was
\* lost: so the ACK of either may drop the slice.
Accounted ==
  /\ \A e \in log : Carries(e, e.pn)
  /\ \A r \in requeue : Carries(r, r.pn1 - 1)
EndAccounted ==
  /\ \A e \in log : CarriesEnd(e, e.pn)
  /\ \A r \in requeue : CarriesEnd(r, r.pn1 - 1)

\* What was taken is with the peer, in flight or waiting, and so is the end of the stream.
Covered ==
  \A b \in 0 .. cur - 1 : b \in have \/ \E sl \in log \cup requeue : b \in Bytes(sl)
EndCovered ==
  ~ streaming /\ cur = qlen => qlen \in fins \/ \E sl \in log \cup requeue : Ends(sl) = qlen

Delivery == Accounted /\ Covered
EndDelivery == EndAccounted /\ EndCovered

\* x is a part of r, to resend under the same lost packet.
Part(x, r) ==
  x.pn1 = r.pn1 /\ Bytes(x) \subseteq Bytes(r) /\ (Ends(x) = qlen => Ends(r) = qlen)

\* A take splits what is to resend into the slice and the rest, and loses nothing of it.
LEMMA TakeParts ==
  ASSUME Typed, NEW sl \in Takes
  PROVE  /\ \A x \in sl.rest : \E r \in requeue : Part(x, r)
         /\ sl.pn1 = 0 \/ \E r \in requeue : Part(sl, r)
         /\ \A b \in 0 .. sl.cur - 1 : b \in 0 .. cur - 1 \/ b \in Bytes(sl)
         /\ \A r \in requeue : \A b \in Bytes(r) :
              b \in Bytes(sl) \/ \E x \in sl.rest : b \in Bytes(x)
         /\ sl.cur = qlen => cur = qlen \/ Ends(sl) = qlen
         /\ \A r \in requeue : Ends(sl) = Ends(r) \/ \E x \in sl.rest : Ends(x) = Ends(r)
  <1>0. cur \in Nat /\ qlen \in Nat /\ cur <= qlen
    BY Sizes DEF Typed, QueueTyped
  <1>1. CASE Fresh(sl)
    <2>1. /\ sl.rest = {} /\ requeue = {} /\ sl.pn1 = 0 /\ sl.off = cur /\ sl.cur = cur + sl.len
          /\ sl.len \in Nat
      BY <1>0, <1>1 DEF Fresh
    <2>2. \A b \in 0 .. sl.cur - 1 : b \in 0 .. cur - 1 \/ b \in Bytes(sl)
      BY <1>0, <2>1 DEF Bytes
    <2>q. QED  BY <2>1, <2>2 DEF Ends
  <1>2. ASSUME NEW r \in requeue, Resend(sl, r)
        PROVE  /\ \A x \in sl.rest : \E s \in requeue : Part(x, s)
               /\ \E s \in requeue : Part(sl, s)
               /\ sl.cur = cur
               /\ \A s \in requeue : \A b \in Bytes(s) :
                    b \in Bytes(sl) \/ \E x \in sl.rest : b \in Bytes(x)
               /\ \A s \in requeue : Ends(sl) = Ends(s) \/ \E x \in sl.rest : Ends(x) = Ends(s)
    <2>1. /\ r \in Resendable /\ r.off \in Nat /\ r.len \in Nat /\ r.off + r.len <= cur
      BY Sizes DEF Typed, SliceTyped, Resendable, Within
    <2>2. /\ sl.off = r.off /\ sl.len \in 1 .. r.len /\ sl.pn1 = r.pn1 /\ sl.cur = cur
          /\ sl.rest = (requeue \ {r}) \cup
                       (IF sl.len = r.len THEN {} ELSE {Leftover(r, sl.len)})
      BY <1>2 DEF Resend
    <2> DEFINE left == Leftover(r, sl.len)
    <2>3. left.off = r.off + sl.len /\ left.len = r.len - sl.len /\ left.pn1 = r.pn1
      BY <2>1 DEF Leftover, Resendable
    <2> HIDE DEF left
    <2>4. Part(sl, r)
      <3>1. Bytes(sl) \subseteq Bytes(r)
        BY <2>1, <2>2 DEF Bytes
      <3>2. Ends(sl) = qlen => Ends(r) = qlen
        BY <1>0, <2>1, <2>2 DEF Ends
      <3>q. QED  BY <2>2, <3>1, <3>2 DEF Part
    <2>5. Part(left, r) /\ Ends(left) = Ends(r)
      <3>1. Bytes(left) \subseteq Bytes(r)
        BY <2>1, <2>2, <2>3 DEF Bytes
      <3>2. Ends(left) = Ends(r)
        BY <2>1, <2>2, <2>3 DEF Ends
      <3>q. QED  BY <2>3, <3>1, <3>2 DEF Part
    <2>6. \A x : Part(x, x)
      BY DEF Part
    <2>7. \A x \in sl.rest : \E s \in requeue : Part(x, s)
      BY <2>2, <2>5, <2>6 DEF left
    <2>8. \A b \in Bytes(r) : b \in Bytes(sl) \/ (sl.len # r.len /\ b \in Bytes(left))
      BY <2>1, <2>2, <2>3 DEF Bytes
    <2>9. sl.len = r.len => Ends(sl) = Ends(r)
      BY <2>2 DEF Ends
    <2>10. sl.len # r.len => left \in sl.rest
      BY <2>2 DEF left
    <2>11. \A s \in requeue : s = r \/ s \in sl.rest
      BY <2>2
    <2>q. QED  BY <2>2, <2>4, <2>5, <2>7, <2>8, <2>9, <2>10, <2>11
  <1>3. CASE \E r \in requeue : Resend(sl, r)
    BY <1>2, <1>3
  <1>q. QED  BY <1>1, <1>3, TakeShape

\* ACKs, losses and probes.
LEMMA ShuffledDelivers ==
  ASSUME Typed, Shuffled, UNCHANGED <<cur, qlen, streaming, net, rcvd, have, fins>>
  PROVE  (Delivery => Delivery') /\ (EndDelivery => EndDelivery')
  <1>1. ASSUME NEW x, NEW e \in log, CopyOf(x, e)
        PROVE  Bytes(x) = Bytes(e) /\ Ends(x) = Ends(e) /\ x.pn1 - 1 = e.pn
    <2>1. x.off = e.off /\ x.len = e.len /\ x.pn1 = e.pn + 1
      BY <1>1 DEF CopyOf
    <2>2. e.pn \in Nat
      BY Sizes DEF Typed, SliceTyped, LogEntry
    <2>q. QED  BY <2>1, <2>2 DEF Bytes, Ends
  <1>2. ASSUME Delivery PROVE Delivery'
    <2>1. Accounted'
      <3>1. \A e \in log' : Carries(e, e.pn)
        BY <1>2 DEF Delivery, Accounted, Shuffled
      <3>2. \A x \in requeue' : Carries(x, x.pn1 - 1)
        BY <1>1, <1>2 DEF Delivery, Accounted, Shuffled, Carries
      <3>q. QED  BY <3>1, <3>2 DEF Accounted, Carries, Bytes
    <2>2. ASSUME NEW b \in 0 .. cur - 1
          PROVE  b \in have \/ \E sl \in log' \cup requeue' : b \in Bytes(sl)
      <3>1. CASE b \in have
        BY <3>1
      <3>2. ASSUME NEW e \in log, b \in Bytes(e)
            PROVE  b \in have \/ \E sl \in log' \cup requeue' : b \in Bytes(sl)
        BY <1>1, <1>2, <3>2 DEF Delivery, Accounted, Carries, Shuffled
      <3>3. ASSUME NEW r \in requeue, b \in Bytes(r)
            PROVE  b \in have \/ \E sl \in log' \cup requeue' : b \in Bytes(sl)
        BY <1>2, <3>3 DEF Delivery, Accounted, Carries, Shuffled
      <3>q. QED  BY <1>2, <3>1, <3>2, <3>3 DEF Delivery, Covered
    <2>q. QED  BY <2>1, <2>2 DEF Delivery, Covered, Bytes
  <1>3. ASSUME EndDelivery PROVE EndDelivery'
    <2>1. EndAccounted'
      <3>1. \A e \in log' : CarriesEnd(e, e.pn)
        BY <1>3 DEF EndDelivery, EndAccounted, Shuffled
      <3>2. \A x \in requeue' : CarriesEnd(x, x.pn1 - 1)
        BY <1>1, <1>3 DEF EndDelivery, EndAccounted, Shuffled, CarriesEnd
      <3>q. QED  BY <3>1, <3>2 DEF EndAccounted, CarriesEnd, Ends
    <2>2. ASSUME ~ streaming, cur = qlen
          PROVE  qlen \in fins \/ \E sl \in log' \cup requeue' : Ends(sl) = qlen
      <3>1. CASE qlen \in fins
        BY <3>1
      <3>2. ASSUME NEW e \in log, Ends(e) = qlen
            PROVE  qlen \in fins \/ \E sl \in log' \cup requeue' : Ends(sl) = qlen
        BY <1>1, <1>3, <2>2, <3>2 DEF EndDelivery, EndAccounted, CarriesEnd, Shuffled
      <3>3. ASSUME NEW r \in requeue, Ends(r) = qlen
            PROVE  qlen \in fins \/ \E sl \in log' \cup requeue' : Ends(sl) = qlen
        BY <1>3, <2>2, <3>3 DEF EndDelivery, EndAccounted, CarriesEnd, Shuffled
      <3>q. QED  BY <1>3, <2>2, <3>1, <3>2, <3>3 DEF EndDelivery, EndCovered
    <2>q. QED  BY <2>1, <2>2 DEF EndDelivery, EndCovered, Ends
  <1>q. QED  BY <1>2, <1>3

\* A part of a slice is carried by whatever carries the slice.
LEMMA PartCarried ==
  ASSUME NEW x, NEW r, Part(x, r)
  PROVE  /\ Carries(r, r.pn1 - 1) => Carries(x, x.pn1 - 1)
         /\ CarriesEnd(r, r.pn1 - 1) => CarriesEnd(x, x.pn1 - 1)
  BY DEF Part, Carries, CarriesEnd

\* No packet has the number before the first: a slice that was never sent is carried by
\* nothing and by everything.
LEMMA NeverSent ==
  ASSUME Typed, NEW x, NEW pn, pn \notin 0 .. txpn - 1
  PROVE  Carries(x, pn) /\ CarriesEnd(x, pn)
  <1>1. \A n \in rcvd : n \in 0 .. txpn - 1
    BY Sizes DEF Typed, CountTyped, NetTyped, Numbered
  <1>2. \A p \in net : p.pn \in 0 .. txpn - 1
    BY Sizes DEF Typed, CountTyped, NetTyped, Numbered, Packet
  <1>q. QED  BY <1>1, <1>2 DEF Carries, CarriesEnd

\* Hence what a take leaves, and the slice it took, are carried as before.
LEMMA TakeCarried ==
  ASSUME Typed, NEW sl \in Takes
  PROVE  /\ Accounted => /\ \A x \in sl.rest : Carries(x, x.pn1 - 1)
                         /\ Carries(sl, sl.pn1 - 1)
         /\ EndAccounted => /\ \A x \in sl.rest : CarriesEnd(x, x.pn1 - 1)
                            /\ CarriesEnd(sl, sl.pn1 - 1)
  <1>1. /\ \A x \in sl.rest : \E r \in requeue : Part(x, r)
        /\ sl.pn1 = 0 \/ \E r \in requeue : Part(sl, r)
    BY TakeParts
  <1>2. sl.pn1 = 0 => Carries(sl, sl.pn1 - 1) /\ CarriesEnd(sl, sl.pn1 - 1)
    <2>1. sl.pn1 = 0 => sl.pn1 - 1 \notin 0 .. txpn - 1
      OBVIOUS
    <2>q. QED  BY <2>1, NeverSent
  <1>q. QED  BY <1>1, <1>2, PartCarried DEF Accounted, EndAccounted

\* The bytes and the end that were covered by the requeue are covered by the slice and
\* the rest.
LEMMA TakeCovers ==
  ASSUME Typed, NEW sl \in Takes
  PROVE  /\ Covered =>
              \A b \in 0 .. sl.cur - 1 :
                \/ b \in have \/ b \in Bytes(sl)
                \/ \E x \in log \cup sl.rest : b \in Bytes(x)
         /\ EndCovered =>
              (~ streaming /\ sl.cur = qlen =>
                \/ qlen \in fins \/ Ends(sl) = qlen
                \/ \E x \in log \cup sl.rest : Ends(x) = qlen)
  <1>1. /\ \A b \in 0 .. sl.cur - 1 : b \in 0 .. cur - 1 \/ b \in Bytes(sl)
        /\ \A r \in requeue : \A b \in Bytes(r) :
             b \in Bytes(sl) \/ \E x \in sl.rest : b \in Bytes(x)
        /\ sl.cur = qlen => cur = qlen \/ Ends(sl) = qlen
        /\ \A r \in requeue : Ends(sl) = Ends(r) \/ \E x \in sl.rest : Ends(x) = Ends(r)
    BY TakeParts
  <1>2. ASSUME Covered, NEW b \in 0 .. sl.cur - 1
        PROVE  \/ b \in have \/ b \in Bytes(sl)
               \/ \E x \in log \cup sl.rest : b \in Bytes(x)
    BY <1>1, <1>2 DEF Covered
  <1>3. ASSUME EndCovered, ~ streaming, sl.cur = qlen
        PROVE  \/ qlen \in fins \/ Ends(sl) = qlen
               \/ \E x \in log \cup sl.rest : Ends(x) = qlen
    BY <1>1, <1>3 DEF EndCovered
  <1>q. QED  BY <1>2, <1>3

\* A packet with a new number changes nothing for the others.
LEMMA NewPacket ==
  ASSUME NEW pkt, net' = net \cup {pkt}, NEW x, NEW pn, pn # pkt.pn,
         UNCHANGED <<rcvd, have, fins, qlen, streaming>>
  PROVE  /\ Carries(x, pn) => Carries(x, pn)'
         /\ CarriesEnd(x, pn) => CarriesEnd(x, pn)'
  BY DEF Carries, CarriesEnd, Bytes, Ends

LEMMA SendDelivers ==
  ASSUME Typed, NEW sl \in Takes, Sent(sl)
  PROVE  (Delivery => Delivery') /\ (EndDelivery => EndDelivery')
  <1>n. PICK n : n = txpn
    OBVIOUS
  <1>e. PICK e : e = [off |-> sl.off, len |-> sl.len, pn |-> n]
    OBVIOUS
  <1>p. PICK pkt : pkt = [off |-> sl.off, len |-> sl.len, pn |-> n,
                          fin |-> srvrun_slice_fin(sl), intact |-> Intact(sl)]
    OBVIOUS
  <1>1. /\ cur' = sl.cur /\ requeue' = sl.rest /\ log' = log \cup {e} /\ net' = net \cup {pkt}
        /\ UNCHANGED <<rcvd, have, fins, qlen, streaming>>
    BY <1>n, <1>e, <1>p DEF Sent, conn, peer
  <1>2. /\ e.pn = n /\ pkt.pn = n /\ Bytes(e) = Bytes(sl) /\ Bytes(pkt) = Bytes(sl)
        /\ Ends(e) = Ends(sl) /\ (~ streaming /\ Ends(sl) = qlen => pkt.fin)
    BY <1>e, <1>p DEF Bytes, Ends, srvrun_slice_fin
  <1>3. /\ \A x \in log : x.pn # n
        /\ \A x \in sl.rest : x.pn1 - 1 # n
        /\ n \in Nat /\ n \notin 0 .. txpn - 1
    <2>1. \A x \in sl.rest : x.pn1 \in Nat /\ x.pn1 <= txpn
      BY TakeTyped, RestWithin, Sizes DEF Resendable
    <2>q. QED  BY <1>n, <2>1, Sizes DEF Typed, SliceTyped, CountTyped, Numbered, LogEntry
  <1>4. Carries(e, n)' /\ CarriesEnd(e, n)'
    <2>1. n \notin rcvd /\ \A p \in net : p.pn # n
      BY <1>n, Sizes DEF Typed, CountTyped, NetTyped, Numbered, Packet
    <2>q. QED  BY <1>1, <1>2, <2>1 DEF Carries, CarriesEnd, Bytes, Ends
  <1>5. ASSUME Delivery PROVE Delivery'
    <2>1. /\ \A x \in log : Carries(x, x.pn)'
          /\ \A x \in sl.rest : Carries(x, x.pn1 - 1)'
      BY <1>1, <1>2, <1>3, <1>5, NewPacket, TakeCarried DEF Delivery, Accounted
    <2>2. Accounted'
      BY <1>1, <1>2, <1>4, <2>1 DEF Accounted
    <2>3. \A b \in 0 .. cur' - 1 :
            b \in have' \/ \E x \in log' \cup requeue' : b \in Bytes(x)
      BY <1>1, <1>2, <1>5, TakeCovers DEF Delivery
    <2>4. Covered'
      BY <2>3 DEF Covered, Bytes
    <2>q. QED  BY <2>2, <2>4 DEF Delivery
  <1>6. ASSUME EndDelivery PROVE EndDelivery'
    <2>1. /\ \A x \in log : CarriesEnd(x, x.pn)'
          /\ \A x \in sl.rest : CarriesEnd(x, x.pn1 - 1)'
      BY <1>1, <1>2, <1>3, <1>6, NewPacket, TakeCarried DEF EndDelivery, EndAccounted
    <2>2. EndAccounted'
      BY <1>1, <1>2, <1>4, <2>1 DEF EndAccounted
    <2>3. EndCovered'
      BY <1>1, <1>2, <1>6, TakeCovers DEF EndDelivery, EndCovered, Ends
    <2>q. QED  BY <2>2, <2>3 DEF EndDelivery
  <1>q. QED  BY <1>5, <1>6

\* wired_sendsess_untake finds room: always, unless the requeue was full and a split,
\* which a smaller chunk brings about, has put a rest back.
LEMMA UntakeFits ==
  ASSUME Typed, NEW sl \in Takes, Base = Chunk \/ Cardinality(requeue) < LogCap
  PROVE  untake(sl) = sl.rest \cup {PutBack(sl)}
  <1>0. /\ requeue \subseteq Resendable /\ IsFiniteSet(requeue) /\ Cardinality(requeue) \in Nat
        /\ Cardinality(requeue) <= LogCap /\ LogCap \in Nat \ {0}
        /\ Cardinality(sl.rest) \in Nat /\ IsFiniteSet(sl.rest)
    BY Sizes, FS_CardinalityType, TakeTyped DEF Typed, SliceTyped
  <1>1. Cardinality(sl.rest) < LogCap
    <2>1. CASE Fresh(sl)
      BY <1>0, <2>1, FS_EmptySet DEF Fresh
    <2>2. ASSUME NEW r \in requeue, Resend(sl, r)
          PROVE  Cardinality(sl.rest) < LogCap
      <3>1. /\ IsFiniteSet(requeue \ {r})
            /\ Cardinality(requeue \ {r}) = Cardinality(requeue) - 1
        BY <1>0, FS_RemoveElement
      <3>2. CASE sl.len = r.len
        <4>1. sl.rest = requeue \ {r}
          BY <2>2, <3>2 DEF Resend
        <4>q. QED  BY <1>0, <3>1, <4>1
      <3>3. CASE sl.len # r.len
        <4>1. sl.rest = (requeue \ {r}) \cup {Leftover(r, sl.len)}
          BY <2>2, <3>3 DEF Resend
        <4>2. Base # Chunk
          <5>1. r.len \in Nat /\ r.len <= Chunk /\ chunk \in {Chunk, Base} /\ Chunk \in Nat
            BY <1>0, Sizes DEF Resendable, Typed, QueueTyped
          <5>2. sl.len = MinOf(r.len, chunk)
            BY <2>2 DEF Resend
          <5>q. QED  BY <3>3, <5>1, <5>2 DEF MinOf
        <4>3. \/ Cardinality(sl.rest) = Cardinality(requeue \ {r})
              \/ Cardinality(sl.rest) = Cardinality(requeue \ {r}) + 1
          BY <3>1, <4>1, FS_AddElement
        <4>q. QED  BY <1>0, <3>1, <4>2, <4>3
      <3>q. QED  BY <3>2, <3>3
    <2>q. QED  BY <2>1, <2>2, TakeShape
  <1>2. Room(sl.rest) > 0
    BY <1>0, <1>1 DEF Room
  <1>q. QED  BY <1>2 DEF untake, PutBack

LEMMA FailDelivers ==
  ASSUME Typed, NEW sl \in Takes, Failed(sl), Base = Chunk \/ Cardinality(requeue) < LogCap
  PROVE  (Delivery => Delivery') /\ (EndDelivery => EndDelivery')
  <1> DEFINE back == PutBack(sl)
  <1>1. /\ cur' = sl.cur /\ requeue' = sl.rest \cup {back} /\ log' = log /\ net' = net
        /\ UNCHANGED <<rcvd, have, fins, qlen, streaming>>
    BY UntakeFits DEF Failed, conn, peer
  <1>2. back.pn1 = sl.pn1 /\ Bytes(back) = Bytes(sl) /\ Ends(back) = Ends(sl)
    BY DEF PutBack, Bytes, Ends
  <1> HIDE DEF back
  <1>3. ASSUME Delivery PROVE Delivery'
    <2>1. \A x \in requeue' : Carries(x, x.pn1 - 1)
      BY <1>1, <1>2, <1>3, TakeCarried DEF Delivery, Carries
    <2>2. Accounted'
      BY <1>1, <1>3, <2>1 DEF Delivery, Accounted, Carries, Bytes
    <2>3. \A b \in 0 .. cur' - 1 :
            b \in have' \/ \E x \in log' \cup requeue' : b \in Bytes(x)
      BY <1>1, <1>2, <1>3, TakeCovers DEF Delivery
    <2>4. Covered'
      BY <2>3 DEF Covered, Bytes
    <2>q. QED  BY <2>2, <2>4 DEF Delivery
  <1>4. ASSUME EndDelivery PROVE EndDelivery'
    <2>1. \A x \in requeue' : CarriesEnd(x, x.pn1 - 1)
      BY <1>1, <1>2, <1>4, TakeCarried DEF EndDelivery, CarriesEnd
    <2>2. EndAccounted'
      BY <1>1, <1>4, <2>1 DEF EndDelivery, EndAccounted, CarriesEnd, Ends
    <2>3. EndCovered'
      BY <1>1, <1>2, <1>4, TakeCovers DEF EndDelivery, EndCovered, Ends
    <2>q. QED  BY <2>2, <2>3 DEF EndDelivery
  <1>q. QED  BY <1>3, <1>4

LEMMA PingDelivers ==
  ASSUME Typed, Ping
  PROVE  (Delivery => Delivery') /\ (EndDelivery => EndDelivery')
  <1>0. UNCHANGED <<log, requeue, cur, rcvd, have, fins, qlen, streaming>>
    BY DEF Ping, queue, conn, peer
  <1>1. CASE net' = net
    <2>1. (Accounted => Accounted') /\ (Covered => Covered')
      BY <1>0, <1>1 DEF Accounted, Covered, Carries, Bytes
    <2>2. (EndAccounted => EndAccounted') /\ (EndCovered => EndCovered')
      BY <1>0, <1>1 DEF EndAccounted, EndCovered, CarriesEnd, Ends
    <2>q. QED  BY <2>1, <2>2 DEF Delivery, EndDelivery
  <1>2. ASSUME NEW pkt, net' = net \cup {pkt}, pkt.pn = txpn
        PROVE  (Delivery => Delivery') /\ (EndDelivery => EndDelivery')
    <2>1. (\A x \in log : x.pn # pkt.pn) /\ \A x \in requeue : x.pn1 - 1 # pkt.pn
      <3>1. \A x \in requeue : x.pn1 \in Nat /\ x.pn1 <= txpn
        BY Sizes DEF Typed, SliceTyped, Numbered, Resendable
      <3>q. QED  BY <1>2, <3>1, Sizes DEF Typed, SliceTyped, CountTyped, Numbered, LogEntry
    <2>2. (Accounted => Accounted') /\ (EndAccounted => EndAccounted')
      BY <1>0, <1>2, <2>1, NewPacket DEF Accounted, EndAccounted
    <2>3. (Covered => Covered') /\ (EndCovered => EndCovered')
      BY <1>0 DEF Covered, EndCovered, Bytes, Ends
    <2>q. QED  BY <2>2, <2>3 DEF Delivery, EndDelivery
  <1>3. \/ net' = net
        \/ \E pkt : net' = net \cup {pkt} /\ pkt.pn = txpn
    <2> DEFINE ping == [off |-> 0, len |-> 0, pn |-> txpn, fin |-> FALSE, intact |-> TRUE]
    <2>1. net' = net \/ net' = net \cup {ping}
      BY DEF Ping, Sealed
    <2>2. ping.pn = txpn
      OBVIOUS
    <2> HIDE DEF ping
    <2>q. QED  BY <2>1, <2>2
  <1>q. QED  BY <1>1, <1>2, <1>3

\* A packet that arrives brings what it carries; one that is lost is not heard of again.
LEMMA NetworkDelivers ==
  ASSUME Typed, FinalSizeStable, NEW p \in net, Deliver(p) \/ Drop(p)
  PROVE  (Delivery => Delivery') /\ (EndDelivery => EndDelivery')
  <1>0. UNCHANGED <<log, requeue, cur, qlen, streaming>> /\ net' = net \ {p}
    BY DEF Deliver, Drop, queue, conn
  <1>1. CASE Drop(p)
    <2>1. UNCHANGED <<rcvd, have, fins>>
      BY <1>1 DEF Drop, peer
    <2>q. QED  BY <1>0, <2>1 DEF Delivery, EndDelivery, Accounted, EndAccounted, Covered,
                                 EndCovered, Carries, CarriesEnd, Bytes, Ends
  <1>2. CASE Deliver(p)
    <2>1. /\ rcvd' = rcvd \cup {p.pn} /\ have' = have \cup Bytes(p) /\ fins \subseteq fins'
          /\ p.fin => p.off + p.len \in fins'
      BY <1>2 DEF Deliver
    <2>2. ASSUME NEW x, NEW pn, Carries(x, pn)
          PROVE  Carries(x, pn)'
      BY <1>0, <2>1, <2>2 DEF Carries, Bytes
    <2>3. ASSUME NEW x, NEW pn, CarriesEnd(x, pn)
          PROVE  CarriesEnd(x, pn)'
      BY <1>0, <2>1, <2>3 DEF CarriesEnd, Ends, FinalSizeStable
    <2>4. (Accounted => Accounted') /\ (EndAccounted => EndAccounted')
      BY <1>0, <2>2, <2>3 DEF Accounted, EndAccounted
    <2>5. (Covered => Covered') /\ (EndCovered => EndCovered')
      BY <1>0, <2>1 DEF Covered, EndCovered, Bytes, Ends
    <2>q. QED  BY <2>4, <2>5 DEF Delivery, EndDelivery
  <1>q. QED  BY <1>1, <1>2

\* A refill puts the end of the stream beyond everything that was sent.
LEMMA ReapDelivers ==
  ASSUME Typed, Reap
  PROVE  (Delivery => Delivery') /\ (~ HandlerDeclines /\ EndDelivery => EndDelivery')
  <1>0. UNCHANGED <<log, requeue, cur, net, rcvd, have, fins>>
    BY DEF Reap, peer
  <1>1. Delivery => Delivery'
    BY <1>0 DEF Delivery, Accounted, Covered, Carries, Bytes
  <1>2. CASE UNCHANGED <<qlen, streaming>>
    BY <1>0, <1>1, <1>2 DEF EndDelivery, EndAccounted, EndCovered, CarriesEnd, Ends
  <1>3. ASSUME NEW n \in Nat, RefillBy(n), HandlerDeclines \/ n > 0, ~ HandlerDeclines
        PROVE  EndDelivery'
    <2>1. qlen' = qlen + n /\ n > 0 /\ cur \in Nat /\ cur <= qlen /\ qlen \in Nat
      BY <1>3, Sizes DEF RefillBy, Typed, QueueTyped
    <2>2. \A x \in log \cup requeue : Ends(x) \in Nat /\ Ends(x) <= cur
      BY Sizes DEF Typed, SliceTyped, Within, Ends, LogEntry, Resendable
    <2>3. (\A x \in log \cup requeue : Ends(x) # qlen') /\ cur # qlen'
      BY <2>1, <2>2
    <2>q. QED  BY <1>0, <2>3 DEF EndDelivery, EndAccounted, EndCovered, CarriesEnd, Ends
  <1>q. QED  BY <1>1, <1>2, <1>3, ReapShape

LEMMA DeliveryNext ==
  ASSUME Typed, FinalSizeStable, [Next]_vars,
         PumpFail => Base = Chunk \/ Cardinality(requeue) < LogCap
  PROVE  (Delivery => Delivery') /\ (~ HandlerDeclines /\ EndDelivery => EndDelivery')
  <1>1. CASE AckStep \/ Timers
    <2>1. Shuffled
      BY <1>1, FeedAcksShape, LossTimerShape, PtoShape DEF AckStep, Timers
    <2>2. UNCHANGED <<cur, qlen, streaming, net, rcvd, have, fins>>
      BY <1>1 DEF AckStep, Timers, FeedAcks, LossTimer, PtoFires, queue, conn, peer
    <2>q. QED  BY <2>1, <2>2, ShuffledDelivers
  <1>2. CASE Reap
    BY <1>2, ReapDelivers
  <1>3. CASE PumpSend
    BY <1>3, PumpShape, SendDelivers
  <1>4. CASE PumpFail
    BY <1>4, PumpShape, FailDelivers
  <1>5. CASE Ping
    BY <1>5, PingDelivers
  <1>6. CASE \E p \in net : Deliver(p) \/ Drop(p)
    BY <1>6, NetworkDelivers
  <1>7. CASE PumpEnds \/ Tick \/ UNCHANGED vars
    <2>1. UNCHANGED <<log, requeue, cur, qlen, streaming, net, rcvd, have, fins>>
      BY <1>7 DEF PumpEnds, Tick, vars, queue, conn, peer
    <2>q. QED  BY <2>1 DEF Delivery, EndDelivery, Accounted, EndAccounted, Covered, EndCovered,
                           Carries, CarriesEnd, Bytes, Ends
  <1>q. QED  BY <1>1, <1>2, <1>3, <1>4, <1>5, <1>6, <1>7 DEF Next, Pump

\* wired_sendsess_untake silently drops a slice that finds the requeue full.  It can only
\* do so when the take before it split a slice of a full requeue, so once a PMTU black hole
\* has made the chunk smaller: no send fails in that state.
FailsWithRoom ==
  [][PumpFail => Base = Chunk \/ Cardinality(requeue) < LogCap]_vars

LEMMA DeliveryInit ==
  ASSUME Init
  PROVE  Delivery /\ EndDelivery
  <1>1. log = {} /\ requeue = {} /\ cur = 0 /\ qlen # 0
    BY Sizes DEF Init
  <1>q. QED  BY <1>1 DEF Delivery, EndDelivery, Accounted, EndAccounted, Covered, EndCovered

\* Unless a send fails with the requeue full of slices to split, every byte that was ever
\* taken from the queue is with the peer, in flight or waiting to be resent, in every
\* interleaving of ACKs (late ones too), losses, probes, splits, failed sends and refills.
THEOREM NothingForgotten == Spec /\ FailsWithRoom => []NoHole
  <1>1. Init => Delivery
    BY DeliveryInit
  <1>2. /\ Typed /\ FinalSizeStable /\ Delivery /\ [Next]_vars
        /\ [PumpFail => Base = Chunk \/ Cardinality(requeue) < LogCap]_vars
        => Delivery'
    <2> SUFFICES ASSUME Typed, FinalSizeStable, Delivery, [Next]_vars,
                        [PumpFail => Base = Chunk \/ Cardinality(requeue) < LogCap]_vars
                 PROVE  Delivery'
      OBVIOUS
    <2>1. CASE UNCHANGED vars
      <3>1. UNCHANGED <<log, requeue, cur, net, rcvd, have>>
        BY <2>1 DEF vars, queue, peer
      <3>q. QED  BY <3>1 DEF Delivery, Accounted, Covered, Carries, Bytes
    <2>2. CASE PumpFail => Base = Chunk \/ Cardinality(requeue) < LogCap
      BY <2>2, DeliveryNext
    <2>q. QED  BY <2>1, <2>2
  <1>3. Delivery => NoHole
    BY DEF Delivery, Covered, NoHole
  <1>q. QED  BY <1>1, <1>2, <1>3, AlwaysTyped, OneFinalSize, PTL DEF Spec, FailsWithRoom

-----------------------------------------------------------------------------
\* The slot is released when the response is delivered.

Released ==
  /\ ~ in_use /\ phase # "dropped" => ~ streaming /\ have = 0 .. qlen - 1 /\ qlen \in fins
  /\ phase = "reap" => in_use

LEMMA ReleasedNext ==
  ASSUME Typed, Typed', Delivery, EndDelivery', Released, [Next]_vars
  PROVE  Released'
  <1>0. in_use \in BOOLEAN /\ in_use' \in BOOLEAN
    BY DEF Typed, QueueTyped
  <1>1. CASE Reap
    <2>1. /\ in_use /\ phase' = "pump" /\ UNCHANGED <<cur, log, requeue, have, fins>>
          /\ ~ in_use' => cur >= qlen' /\ requeue = {} /\ log = {} /\ ~ streaming'
      BY <1>0, <1>1 DEF Reap, Released, peer, sendsess_done
    <2>2. ASSUME ~ in_use' PROVE ~ streaming' /\ have' = 0 .. qlen' - 1 /\ qlen' \in fins'
      <3>1. cur \in Nat /\ qlen' \in Nat /\ cur = qlen'
        BY <2>1, <2>2, Sizes DEF Typed, QueueTyped
      <3>2. have = 0 .. cur - 1
        BY <2>1, <2>2 DEF Typed, NetTyped, Delivery, Covered
      <3>3. qlen' \in fins'
        BY <2>1, <2>2, <3>1 DEF EndDelivery, EndCovered
      <3>q. QED  BY <2>1, <2>2, <3>1, <3>2, <3>3
    <2>q. QED  BY <2>1, <2>2 DEF Released
  <1>2. CASE AckStep
    <2>1. in_use /\ in_use' = in_use
      BY <1>2 DEF AckStep, FeedAcks
    <2>q. QED  BY <2>1 DEF Released
  <1>3. CASE Timers
    <2>1. phase' # "reap" /\ (in_use' \/ phase' = "dropped")
      BY <1>3 DEF Timers, PtoFires, LossTimer, conn
    <2>q. QED  BY <2>1 DEF Released
  <1>4. CASE PumpSend \/ PumpFail
    <2>1. in_use /\ in_use' = in_use
      BY <1>4 DEF PumpSend, PumpFail, GateOpen, conn
    <2>q. QED  BY <2>1 DEF Released
  <1>5. CASE Ping \/ PumpEnds \/ Tick
    <2>1. UNCHANGED <<in_use, streaming, have, qlen, fins>> /\ phase' # "reap" /\ phase # "dropped"
      BY <1>5 DEF Ping, PumpEnds, Tick, queue, conn, peer
    <2>q. QED  BY <2>1 DEF Released
  <1>6. ASSUME NEW p \in net, Deliver(p) \/ Drop(p)
        PROVE  Released'
    <2>1. /\ UNCHANGED <<in_use, streaming, qlen, phase>> /\ have \subseteq have'
          /\ fins \subseteq fins'
      BY <1>6 DEF Deliver, Drop, queue, conn, peer
    <2>2. have' \subseteq 0 .. qlen - 1
      <3>1. have' \subseteq 0 .. cur' - 1 /\ cur' \in 0 .. qlen'
        BY DEF Typed, QueueTyped, NetTyped
      <3>2. qlen \in Nat /\ qlen' = qlen
        BY <2>1, Sizes DEF Typed, QueueTyped
      <3>3. cur' \in Nat /\ cur' <= qlen
        BY <3>1, <3>2
      <3>4. \A c \in Nat : \A b \in 0 .. (c - 1) : c <= qlen => b \in 0 .. (qlen - 1)
        BY <3>2
      <3>q. QED  BY <3>1, <3>3, <3>4
    <2>q. QED  BY <2>1, <2>2 DEF Released
  <1>7. CASE UNCHANGED vars
    BY <1>7 DEF Released, vars, queue, conn, peer
  <1>q. QED  BY <1>1, <1>2, <1>3, <1>4, <1>5, <1>6, <1>7 DEF Next, Pump

\* srvrun_resp_reap releases a slot only when the peer has every byte of the response and
\* its final size, provided the handler ends its response with bytes (a handler that
\* declines mid-stream is the finding of the run send_decline) and no send fails with the
\* requeue full of slices to split.
THEOREM ReleasedIsDelivered ==
  ASSUME ~ HandlerDeclines
  PROVE  Spec /\ FailsWithRoom => []ReleasedMeansDelivered
  <1>1. Init => Delivery /\ EndDelivery /\ Released
    BY DeliveryInit DEF Init, Released
  <1>2. /\ Typed /\ Typed' /\ FinalSizeStable /\ Delivery /\ EndDelivery /\ Released
        /\ [Next]_vars
        /\ [PumpFail => Base = Chunk \/ Cardinality(requeue) < LogCap]_vars
        => Delivery' /\ EndDelivery' /\ Released'
    <2> SUFFICES ASSUME Typed, Typed', FinalSizeStable, Delivery, EndDelivery, Released,
                        [Next]_vars,
                        [PumpFail => Base = Chunk \/ Cardinality(requeue) < LogCap]_vars
                 PROVE  Delivery' /\ EndDelivery' /\ Released'
      OBVIOUS
    <2>1. CASE UNCHANGED vars
      <3>1. UNCHANGED <<log, requeue, cur, qlen, streaming, net, rcvd, have, fins>>
        BY <2>1 DEF vars, queue, conn, peer
      <3>2. Delivery'
        BY <3>1 DEF Delivery, Accounted, Covered, Carries, Bytes
      <3>3. EndDelivery'
        BY <3>1 DEF EndDelivery, EndAccounted, EndCovered, CarriesEnd, Ends
      <3>q. QED  BY <3>2, <3>3, ReleasedNext
    <2>2. CASE PumpFail => Base = Chunk \/ Cardinality(requeue) < LogCap
      BY <2>2, DeliveryNext, ReleasedNext
    <2>q. QED  BY <2>1, <2>2
  <1>3. Released /\ FinalSizeStable => ReleasedMeansDelivered
    BY DEF Released, FinalSizeStable, ReleasedMeansDelivered
  <1>q. QED  BY <1>1, <1>2, <1>3, AlwaysTyped, OneFinalSize, PTL DEF Spec, FailsWithRoom
=============================================================================
