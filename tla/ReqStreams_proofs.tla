-------------------------- MODULE ReqStreams_proofs --------------------------
(***************************************************************************)
(* The request streams, for any number of streams and slots, any requests, *)
(* any datagrams and any network.                                          *)
(*                                                                         *)
(* A datagram is handled by nine loops over lists (FoldLeft).  For each    *)
(* call there is a lemma that says what it changes (XIs), for each loop    *)
(* one that carries a fact from entry to entry (XFold), and the step is    *)
(* walked through from connection to connection:                           *)
(*   Told     what the peer's encoder and the application heard of each    *)
(*            stream; it holds after every call, whatever arrives, and     *)
(*            gives ReqTypeOK and EndToldOnce                              *)
(*   Asked    how far each stream's request and answer are, with Taken and *)
(*            Holding for the slots; it needs the lists of the step to     *)
(*            name slots still in use, which Lists says of the entries to  *)
(*            come and which input that LeavesStaleSlot would break        *)
(*   Balance  the limit, and the credits still to come in the step, against*)
(*            the streams that are over                                    *)
(***************************************************************************)
EXTENDS ReqStreams, ModLemmas

\* The types of a slot and of a connection.
Bodies == {"off", "open", "ended", "rejected", "aborted"}
Slot == [use : BOOLEAN, id : Requests, req : Request, got : SUBSET {"head", "tail"},
         done : BOOLEAN, body : Bodies, settled : BOOLEAN]
Conn ==
  [streamed : BOOLEAN, slot : [ReqSlots -> Slot], closed : SUBSET Requests,
   sendDone : SUBSET Requests, resp : [Requests -> Request], held : [ReqSlots -> Request],
   sess : SUBSET Requests, settings : BOOLEAN, goaway : Nat \cup {Nil}, next : Nat,
   limit : Nat, retries : Nat, done : Seq(ReqSlots), inc : Seq(ReqSlots),
   rs : SUBSET ReqSlots, slotless : Nat, owed : Nat, touched : SUBSET ReqSlots,
   ans : [Requests -> Seq(Request)], began : [Requests -> BOOLEAN], ends : [Requests -> Nat],
   qp : [Requests -> Nat], zero : SUBSET Requests, busy : SUBSET Requests,
   early : SUBSET Requests, unpaid : SUBSET Requests]

\* m is k but for the fields F.
Fields ==
  {"streamed", "slot", "closed", "sendDone", "resp", "held", "sess", "settings", "goaway",
   "next", "limit", "retries", "done", "inc", "rs", "slotless", "owed", "touched", "ans",
   "began", "ends", "qp", "zero", "busy", "early", "unpaid"}
But(k, m, F) == \A f \in Fields \ F : m[f] = k[f]

\* A slot in use has told of its stream exactly what its flags say.
SlotTold(k, i) ==
  LET x == k.slot[i] IN
  /\ x.id \notin k.closed
  /\ k.qp[x.id] = IF x.settled THEN 1 ELSE 0
  /\ x.body # "aborted"
  /\ k.ends[x.id] = IF x.body = "ended" THEN 1 ELSE 0
  /\ x.body = "off" => ~ k.began[x.id]
  /\ x.body = "rejected" => kind[x.id] # "get"
  /\ x.body # "off" => kind[x.id] \in {"get", "long"}
  /\ x.body = "open" => x.req = x.id

\* The slot i is the stream s's.
Owns(k, i, s) == k.slot[i].use /\ k.slot[i].id = s

\* What was told of every stream: by its slot's flags while it has one, nothing
\* before, at most one end after.
Told(k) ==
  /\ \A i, j \in ReqSlots : k.slot[i].use /\ Owns(k, j, k.slot[i].id) => i = j
  /\ \A i \in ReqSlots : IF k.slot[i].use THEN SlotTold(k, i)
                         ELSE k.slot[i].got = {} /\ k.slot[i].body = "off"
  /\ \A s \in Requests \ k.closed : (\A i \in ReqSlots : ~ Owns(k, i, s)) =>
       k.qp[s] = 0 /\ k.ends[s] = 0 /\ ~ k.began[s]
  /\ \A s \in k.closed : /\ k.qp[s] <= 1 /\ k.ends[s] <= 1
                         /\ kind[s] = "get" /\ k.began[s] => k.ends[s] = 1

\* The connections the proofs walk through.
Conns == {k \in Conn : Told(k)}

-----------------------------------------------------------------------------
\* Slots.

\* A slot that wired_srvloop_slot_release left: its decoded request stays behind.
Emptied(x) == [FreeSlot EXCEPT !.req = x.req]

\* An emptied slot is a slot, free and without bytes.
LEMMA EmptiedTyped ==
  ASSUME NEW x \in Slot
  PROVE  /\ Emptied(x) \in Slot /\ ~ Emptied(x).use /\ Emptied(x).got = {}
         /\ Emptied(x).body = "off" /\ Emptied(x).req = x.req /\ Emptied(x).id = 0
  BY ReqAssumption DEF FreeSlot, Slot, Request, Bodies, Emptied

\* The slot of a stream is found when there is one.
LEMMA FindsSlot ==
  ASSUME NEW k \in Conns, NEW s
  PROVE  /\ HasSlot(k, s) <=> \E i \in ReqSlots : Owns(k, i, s)
         /\ \A i \in ReqSlots : Owns(k, i, s) => SlotOf(k, s) = i
         /\ HasSlot(k, s) => SlotOf(k, s) \in ReqSlots /\ Owns(k, SlotOf(k, s), s)
  <1>1. HasSlot(k, s) <=> \E i \in ReqSlots : Owns(k, i, s)
    BY DEF HasSlot, SlotsOf, Owns
  <1>2. HasSlot(k, s) => SlotOf(k, s) \in ReqSlots /\ Owns(k, SlotOf(k, s), s)
    BY DEF HasSlot, SlotsOf, SlotOf, Owns
  <1>3. \A i, j \in ReqSlots : Owns(k, i, s) /\ Owns(k, j, s) => i = j
    BY DEF Conns, Told, Owns
  <1>q. QED  BY <1>1, <1>2, <1>3

\* srvloop_body_abort counts one ending of an open body.
Aborts(k, i, m) ==
  /\ m \in Conn /\ But(k, m, {"slot", "ends"})
  /\ m.slot[i].req = k.slot[i].req
  /\ \A j \in ReqSlots \ {i} : m.slot[j] = k.slot[j]
  /\ \A t \in Requests \ {k.slot[i].id} : m.ends[t] = k.ends[t]
  /\ m.ends[k.slot[i].id] = k.ends[k.slot[i].id]
                            + (IF k.slot[i].body = "open" THEN 1 ELSE 0)

\* srvloop_body_abort is Aborts.
LEMMA AbortIs ==
  ASSUME NEW k \in Conn, NEW i \in ReqSlots
  PROVE  Aborts(k, i, srvloop_body_abort(k, i))
  <1> DEFINE m == srvloop_body_abort(k, i)
  <1>0. /\ k.slot[i] \in Slot /\ k.slot \in [ReqSlots -> Slot] /\ k.ends \in [Requests -> Nat]
        /\ k.slot[i].id \in Requests
    BY DEF Conn, Slot
  <1>1. CASE k.slot[i].body # "open"
    <2>1. m = k
      BY <1>1 DEF srvloop_body_abort
    <2> HIDE DEF m
    <2>q. QED  BY <1>0, <1>1, <2>1 DEF But, Aborts, m
  <1>2. CASE k.slot[i].body = "open"
    <2> DEFINE x == [k.slot[i] EXCEPT !.body = "aborted"]
               a == [k.slot EXCEPT ![i] = x]
               e == [k.ends EXCEPT ![k.slot[i].id] = @ + 1]
    <2>1. m = [k EXCEPT !.slot = a, !.ends = e]
      BY <1>2 DEF srvloop_body_abort, Conn
    <2> HIDE DEF m
    <2>2. x \in Slot /\ x.req = k.slot[i].req
      BY <1>0 DEF Slot, Bodies
    <2>3. a \in [ReqSlots -> Slot] /\ e \in [Requests -> Nat]
      BY <1>0, <2>2
    <2>4. m \in Conn /\ m.slot = a /\ m.ends = e /\ But(k, m, {"slot", "ends"})
      <3> HIDE DEF a, e
      <3>q. QED  BY <2>1, <2>3 DEF Conn, But, Fields
    <2>5. Aborts(k, i, m)
      BY <1>0, <1>2, <2>2, <2>4 DEF Aborts
    <2>q. QED  BY <2>5 DEF m
  <1>q. QED  BY <1>1, <1>2

\* wired_srvloop_slot_release: the stream is closed, its slot emptied and the body
\* that was open has had its ending.
Releases(k, s, m) ==
  /\ m \in Conn /\ But(k, m, {"slot", "ends", "closed"})
  /\ m.closed = k.closed \cup {s}
  /\ \A j \in ReqSlots : m.slot[j] = IF Owns(k, j, s) THEN Emptied(k.slot[j]) ELSE k.slot[j]
  /\ \A t \in Requests \ {s} : m.ends[t] = k.ends[t]
  /\ \A j \in ReqSlots : Owns(k, j, s) =>
       m.ends[s] = k.ends[s] + (IF k.slot[j].body = "open" THEN 1 ELSE 0)
  /\ (\A j \in ReqSlots : ~ Owns(k, j, s)) => m.ends[s] = k.ends[s]

\* wired_srvloop_slot_release empties the stream's slot and closes the stream.
LEMMA ReleaseIs ==
  ASSUME NEW k \in Conns, NEW s \in Requests
  PROVE  Releases(k, s, wired_srvloop_slot_release(k, s))
  <1> DEFINE m == wired_srvloop_slot_release(k, s)
             d == [k EXCEPT !.closed = k.closed \cup {s}]
  <1>1. k \in Conn /\ k.slot \in [ReqSlots -> Slot]
    BY DEF Conns, Conn
  <1>2. d \in Conn /\ d.closed = k.closed \cup {s} /\ But(k, d, {"closed"})
    BY <1>1 DEF Conn, But, Fields
  <1>3. d.slot = k.slot /\ d.ends = k.ends
    BY <1>2 DEF But, Fields
  <1>4. CASE ~ HasSlot(k, s)
    <2>1. m = d
      BY <1>4 DEF wired_srvloop_slot_release
    <2>2. \A j \in ReqSlots : ~ Owns(k, j, s)
      BY <1>4, FindsSlot
    <2> HIDE DEF d, m
    <2>3. Releases(k, s, m)
      BY <1>2, <1>3, <2>1, <2>2 DEF But, Fields, Releases
    <2>q. QED  BY <2>3 DEF m
  <1>5. CASE HasSlot(k, s)
    <2> DEFINE i == SlotOf(k, s)
               b == srvloop_body_abort(d, i)
               a == [b.slot EXCEPT ![i] = Emptied(k.slot[i])]
    <2>1. /\ i \in ReqSlots /\ Owns(k, i, s)
          /\ \A j \in ReqSlots : Owns(k, j, s) => j = i
      BY <1>5, FindsSlot
    <2>2. m = [b EXCEPT !.slot[i] = Emptied(k.slot[i])]
      BY <1>5 DEF wired_srvloop_slot_release, Emptied
    <2> HIDE DEF i, d, m
    <2>3. Aborts(d, i, b)
      BY <1>2, <2>1, AbortIs
    <2> HIDE DEF b
    <2>4. /\ b \in Conn /\ But(d, b, {"slot", "ends"})
          /\ \A j \in ReqSlots \ {i} : b.slot[j] = k.slot[j]
          /\ \A t \in Requests \ {s} : b.ends[t] = k.ends[t]
          /\ b.ends[s] = k.ends[s] + (IF k.slot[i].body = "open" THEN 1 ELSE 0)
      <3>1. d.slot[i].id = s
        BY <1>3, <2>1 DEF Owns
      <3>q. QED  BY <1>3, <2>3, <3>1 DEF Aborts
    <2>5. Emptied(k.slot[i]) \in Slot
      BY <1>1, <2>1, EmptiedTyped
    <2>6. b.slot \in [ReqSlots -> Slot] /\ a \in [ReqSlots -> Slot]
      BY <2>4, <2>5 DEF Conn
    <2>7. m = [b EXCEPT !.slot = a]
      BY <2>2, <2>4 DEF Conn
    <2>8. m \in Conn /\ m.slot = a /\ But(b, m, {"slot"})
      <3> HIDE DEF a
      <3>q. QED  BY <2>4, <2>6, <2>7 DEF Conn, But, Fields
    <2>9. But(k, m, {"slot", "ends", "closed"}) /\ m.closed = k.closed \cup {s} /\ m.ends = b.ends
      BY <1>2, <2>4, <2>8 DEF But, Fields
    <2>10. \A j \in ReqSlots :
             m.slot[j] = IF Owns(k, j, s) THEN Emptied(k.slot[j]) ELSE k.slot[j]
      BY <2>1, <2>4, <2>6, <2>8
    <2>11. Releases(k, s, m)
      BY <2>1, <2>4, <2>8, <2>9, <2>10 DEF Releases
    <2>q. QED  BY <2>11 DEF m
  <1>q. QED  BY <1>4, <1>5

\* Told is about five fields; the rest of a connection may change freely.
LEMMA ToldKept ==
  ASSUME NEW k \in Conns, NEW m \in Conn, m.slot = k.slot, m.closed = k.closed,
         m.qp = k.qp, m.ends = k.ends, m.began = k.began
  PROVE  m \in Conns
  BY DEF Conns, Told, SlotTold, Owns

\* Through a release everybody is told as before, and the open body's end.
LEMMA ReleaseKeeps ==
  ASSUME NEW k \in Conns, NEW s \in Requests
  PROVE  wired_srvloop_slot_release(k, s) \in Conns
  <1> DEFINE m == wired_srvloop_slot_release(k, s)
  <1>0. Releases(k, s, m)
    BY ReleaseIs
  <1> HIDE DEF m
  <1>1. /\ m \in Conn /\ But(k, m, {"slot", "ends", "closed"})
        /\ m.closed = k.closed \cup {s}
        /\ \A j \in ReqSlots :
             m.slot[j] = IF Owns(k, j, s) THEN Emptied(k.slot[j]) ELSE k.slot[j]
        /\ \A t \in Requests \ {s} : m.ends[t] = k.ends[t]
        /\ \A j \in ReqSlots : Owns(k, j, s) =>
             m.ends[s] = k.ends[s] + (IF k.slot[j].body = "open" THEN 1 ELSE 0)
        /\ (\A j \in ReqSlots : ~ Owns(k, j, s)) => m.ends[s] = k.ends[s]
    BY <1>0 DEF Releases
  <1>2. m.qp = k.qp /\ m.began = k.began
    BY <1>1 DEF But, Fields
  <1>3. /\ k \in Conn /\ Told(k) /\ k.closed \subseteq Requests
        /\ \A j \in ReqSlots : k.slot[j] \in Slot /\ k.slot[j].id \in Requests
    BY DEF Conns, Conn, Slot
  <1>4. \A j \in ReqSlots : Owns(k, j, s) =>
          m.slot[j].use = FALSE /\ m.slot[j].got = {} /\ m.slot[j].body = "off"
    BY <1>1, <1>3, EmptiedTyped
  <1>5. \A j \in ReqSlots : m.slot[j].use => m.slot[j] = k.slot[j] /\ k.slot[j].id # s
    BY <1>1, <1>4 DEF Owns
  <1>6. \A i, j \in ReqSlots : m.slot[i].use /\ Owns(m, j, m.slot[i].id) => i = j
    BY <1>3, <1>5 DEF Told, Owns
  <1>7. ASSUME NEW i \in ReqSlots
        PROVE  IF m.slot[i].use THEN SlotTold(m, i)
               ELSE m.slot[i].got = {} /\ m.slot[i].body = "off"
    <2>1. CASE m.slot[i].use
      <3>1. m.slot[i] = k.slot[i] /\ k.slot[i].id # s /\ SlotTold(k, i)
        BY <1>3, <1>5, <2>1 DEF Told
      <3>2. m.ends[k.slot[i].id] = k.ends[k.slot[i].id] /\ k.slot[i].id \notin m.closed
        BY <1>1, <1>3, <3>1 DEF SlotTold
      <3>q. QED  BY <1>2, <2>1, <3>1, <3>2 DEF SlotTold
    <2>2. CASE ~ m.slot[i].use
      <3>1. CASE Owns(k, i, s)
        BY <1>4, <2>2, <3>1
      <3>2. CASE ~ Owns(k, i, s)
        <4>1. m.slot[i] = k.slot[i]
          BY <1>1, <3>2
        <4>q. QED  BY <1>3, <2>2, <4>1 DEF Told
      <3>q. QED  BY <3>1, <3>2
    <2>q. QED  BY <2>1, <2>2
  <1>8. ASSUME NEW t \in Requests \ m.closed, \A i \in ReqSlots : ~ Owns(m, i, t)
        PROVE  m.qp[t] = 0 /\ m.ends[t] = 0 /\ ~ m.began[t]
    <2>1. t # s /\ t \notin k.closed
      BY <1>1
    <2>2. \A i \in ReqSlots : ~ Owns(k, i, t)
      BY <1>1, <1>8, <2>1 DEF Owns
    <2>q. QED  BY <1>1, <1>2, <1>3, <2>1, <2>2 DEF Told
  <1>9. ASSUME NEW t \in m.closed
        PROVE  /\ m.qp[t] <= 1 /\ m.ends[t] <= 1
               /\ kind[t] = "get" /\ m.began[t] => m.ends[t] = 1
    <2>1. CASE t # s
      <3>1. t \in k.closed /\ m.ends[t] = k.ends[t]
        BY <1>1, <1>3, <2>1
      <3>q. QED  BY <1>2, <1>3, <3>1 DEF Told
    <2>2. CASE t = s
      <3>1. CASE \E j \in ReqSlots : Owns(k, j, s)
        <4>1. PICK j \in ReqSlots : Owns(k, j, s)
          BY <3>1
        <4>2. SlotTold(k, j) /\ k.slot[j].id = s /\ k.slot[j].body \in Bodies
          BY <1>3, <4>1 DEF Told, Owns, Slot
        <4>3. m.ends[s] = k.ends[s] + (IF k.slot[j].body = "open" THEN 1 ELSE 0)
          BY <1>1, <4>1
        <4>4. CASE k.slot[j].body = "open"
          BY <1>2, <2>2, <4>2, <4>3, <4>4 DEF SlotTold
        <4>5. CASE k.slot[j].body # "open"
          <5>1. m.ends[s] = IF k.slot[j].body = "ended" THEN 1 ELSE 0
            BY <4>2, <4>3, <4>5 DEF SlotTold
          <5>2. m.qp[s] <= 1
            BY <1>2, <4>2 DEF SlotTold
          <5>3. kind[s] = "get" /\ m.began[s] => k.slot[j].body = "ended"
            BY <1>2, <4>2, <4>5 DEF SlotTold, Bodies
          <5>q. QED  BY <2>2, <5>1, <5>2, <5>3
        <4>q. QED  BY <4>4, <4>5
      <3>2. CASE ~ \E j \in ReqSlots : Owns(k, j, s)
        <4>1. m.ends[s] = k.ends[s]
          BY <1>1, <3>2
        <4>q. QED  BY <1>2, <1>3, <2>2, <3>2, <4>1 DEF Told
      <3>q. QED  BY <3>1, <3>2
    <2>q. QED  BY <2>1, <2>2
  <1>10. Told(m)
    BY <1>6, <1>7, <1>8, <1>9 DEF Told
  <1>q. QED  BY <1>1, <1>10 DEF Conns, m

\* One slot moves on, for the stream it serves.
LEMMA SlotMoves ==
  ASSUME NEW k \in Conns, NEW i \in ReqSlots, k.slot[i].use, NEW m \in Conn,
         m.closed = k.closed, \A j \in ReqSlots \ {i} : m.slot[j] = k.slot[j],
         m.slot[i].use, m.slot[i].id = k.slot[i].id, SlotTold(m, i),
         \A t \in Requests \ {k.slot[i].id} :
           m.qp[t] = k.qp[t] /\ m.ends[t] = k.ends[t] /\ m.began[t] = k.began[t]
  PROVE  m \in Conns
  <1> DEFINE s == k.slot[i].id
  <1>1. /\ Told(k) /\ k.closed \subseteq Requests
        /\ \A j \in ReqSlots : k.slot[j].id \in Requests
    BY DEF Conns, Conn, Slot
  <1>2. \A j \in ReqSlots : \A t : Owns(m, j, t) <=> Owns(k, j, t)
    BY DEF Owns
  <1>3. \A a, b \in ReqSlots : m.slot[a].use /\ Owns(m, b, m.slot[a].id) => a = b
    <2>1. \A a \in ReqSlots : (m.slot[a].use <=> k.slot[a].use) /\ m.slot[a].id = k.slot[a].id
      OBVIOUS
    <2>q. QED  BY <1>1, <1>2, <2>1 DEF Told
  <1>4. ASSUME NEW j \in ReqSlots
        PROVE  IF m.slot[j].use THEN SlotTold(m, j)
               ELSE m.slot[j].got = {} /\ m.slot[j].body = "off"
    <2>1. CASE j # i /\ k.slot[j].use
      <3>1. k.slot[j].id # s
        BY <1>1, <2>1 DEF Told, Owns
      <3>q. QED  BY <1>1, <2>1, <3>1 DEF Told, SlotTold
    <2>2. CASE j # i /\ ~ k.slot[j].use
      BY <1>1, <2>2 DEF Told
    <2>q. QED  BY <2>1, <2>2
  <1>5. \A t \in Requests \ m.closed : (\A j \in ReqSlots : ~ Owns(m, j, t)) =>
          m.qp[t] = 0 /\ m.ends[t] = 0 /\ ~ m.began[t]
    <2>1. ASSUME NEW t \in Requests \ m.closed, \A j \in ReqSlots : ~ Owns(m, j, t)
          PROVE  m.qp[t] = 0 /\ m.ends[t] = 0 /\ ~ m.began[t]
      <3>1. t # s /\ \A j \in ReqSlots : ~ Owns(k, j, t)
        BY <1>2, <2>1 DEF Owns
      <3>q. QED  BY <1>1, <3>1 DEF Told
    <2>q. QED  BY <2>1
  <1>6. \A t \in m.closed : /\ m.qp[t] <= 1 /\ m.ends[t] <= 1
                            /\ kind[t] = "get" /\ m.began[t] => m.ends[t] = 1
    <2>1. s \notin k.closed
      BY DEF SlotTold
    <2>q. QED  BY <1>1, <2>1 DEF Told
  <1>7. Told(m)
    BY <1>3, <1>4, <1>5, <1>6 DEF Told
  <1>q. QED  BY <1>7 DEF Conns

\* qdec_settle on a slot in use, and the two notes built on it.
Settles(k, i, m, F) ==
  /\ m \in Conns /\ But(k, m, {"slot", "qp"} \cup F)
  /\ m.slot = [k.slot EXCEPT ![i] = [k.slot[i] EXCEPT !.settled = TRUE]]

\* qdec_settle sends the one instruction of a slot that has sent none.
LEMMA SettleIs ==
  ASSUME NEW k \in Conns, NEW i \in ReqSlots, k.slot[i].use
  PROVE  Settles(k, i, qdec_settle(k, i), {})
  <1> DEFINE m == qdec_settle(k, i)
             x == [k.slot[i] EXCEPT !.settled = TRUE]
             a == [k.slot EXCEPT ![i] = x]
             q == [k.qp EXCEPT ![k.slot[i].id] = @ + 1]
  <1>0. /\ k \in Conn /\ SlotTold(k, i)
        /\ k.slot[i] \in Slot /\ k.slot \in [ReqSlots -> Slot] /\ k.qp \in [Requests -> Nat]
        /\ k.slot[i].id \in Requests
    BY DEF Conns, Conn, Slot, Told
  <1>1. CASE k.slot[i].settled
    <2>1. m = k
      BY <1>1 DEF qdec_settle
    <2>2. x = k.slot[i]
      BY <1>0, <1>1 DEF Slot
    <2>3. a = k.slot
      BY <1>0, <2>2
    <2> HIDE DEF m
    <2>4. Settles(k, i, m, {})
      BY <2>1, <2>3 DEF But, Settles
    <2>q. QED  BY <2>4 DEF m
  <1>2. CASE ~ k.slot[i].settled
    <2>1. m = [k EXCEPT !.slot = a, !.qp = q]
      BY <1>0, <1>2 DEF qdec_settle, Conn
    <2>2. /\ x \in Slot /\ x.use = k.slot[i].use /\ x.id = k.slot[i].id /\ x.req = k.slot[i].req
          /\ x.body = k.slot[i].body /\ x.settled
      BY <1>0 DEF Slot
    <2>3. a \in [ReqSlots -> Slot] /\ q \in [Requests -> Nat]
      BY <1>0, <2>2
    <2>4. a[i] = x /\ \A j \in ReqSlots \ {i} : a[j] = k.slot[j]
      BY <1>0
    <2>5. q[k.slot[i].id] = 1 /\ \A t \in Requests \ {k.slot[i].id} : q[t] = k.qp[t]
      BY <1>0, <1>2 DEF SlotTold
    <2> HIDE DEF x, a, q, m
    <2>6. m \in Conn /\ m.slot = a /\ m.qp = q /\ But(k, m, {"slot", "qp"})
      BY <1>0, <2>1, <2>3 DEF Conn, But, Fields
    <2>7. m.closed = k.closed /\ m.ends = k.ends /\ m.began = k.began
      BY <2>6 DEF But, Fields
    <2>8. SlotTold(m, i)
      BY <1>0, <2>2, <2>4, <2>5, <2>6, <2>7 DEF SlotTold
    <2>9. m \in Conns
      <3>1. m.slot[i].use /\ m.slot[i].id = k.slot[i].id
        BY <2>2, <2>4, <2>6
      <3>2. \A j \in ReqSlots \ {i} : m.slot[j] = k.slot[j]
        BY <2>4, <2>6
      <3>q. QED  BY <2>5, <2>6, <2>7, <2>8, <3>1, <3>2, SlotMoves
    <2>10. Settles(k, i, m, {})
      BY <2>6, <2>9 DEF a, x, Settles
    <2>q. QED  BY <2>10 DEF m
  <1>q. QED  BY <1>1, <1>2

\* srvloop_route_note_done lists the slot as complete.
LEMMA NoteDoneIs ==
  ASSUME NEW k \in Conns, NEW i \in ReqSlots, k.slot[i].use
  PROVE  LET m == srvloop_route_note_done(k, i) IN
         Settles(k, i, m, {"rs", "done"}) /\ m.rs = k.rs \ {i} /\ m.done = Append(k.done, i)
  <1> DEFINE m == srvloop_route_note_done(k, i)
             n == qdec_settle(k, i)
             r == n.rs \ {i}
             l == Append(n.done, i)
  <1>1. Settles(k, i, n, {}) /\ m = [n EXCEPT !.rs = r, !.done = l]
    BY SettleIs DEF srvloop_route_note_done
  <1> HIDE DEF m, n
  <1>2. n \in Conn /\ n.rs = k.rs /\ n.done = k.done
    BY <1>1 DEF Conns, Settles, But, Fields
  <1>3. r \in SUBSET ReqSlots /\ l \in Seq(ReqSlots)
    BY <1>2 DEF Conn
  <1> HIDE DEF r, l
  <1>4. m \in Conn /\ But(n, m, {"rs", "done"}) /\ m.rs = r /\ m.done = l
    BY <1>1, <1>2, <1>3 DEF Conn, But, Fields
  <1>5. /\ m.slot = n.slot /\ m.closed = n.closed /\ m.qp = n.qp /\ m.ends = n.ends
        /\ m.began = n.began
    BY <1>4 DEF But, Fields
  <1>6. m \in Conns
    BY <1>1, <1>4, <1>5, ToldKept DEF Settles
  <1>7. But(k, m, {"slot", "qp"} \cup {"rs", "done"})
    BY <1>1, <1>4 DEF But, Fields, Settles
  <1>8. Settles(k, i, m, {"rs", "done"})
    BY <1>1, <1>5, <1>6, <1>7 DEF Settles
  <1>q. QED  BY <1>2, <1>4, <1>8 DEF m, r, l

\* route_note_rejected lists the slot as one to abort.
LEMMA NoteRejectedIs ==
  ASSUME NEW k \in Conns, NEW i \in ReqSlots, k.slot[i].use
  PROVE  LET m == route_note_rejected(k, i) IN
         Settles(k, i, m, {"rs", "inc"}) /\ m.rs = k.rs \ {i} /\ m.inc = Append(k.inc, i)
  <1> DEFINE m == route_note_rejected(k, i)
             n == qdec_settle(k, i)
             r == n.rs \ {i}
             l == Append(n.inc, i)
  <1>1. Settles(k, i, n, {}) /\ m = [n EXCEPT !.rs = r, !.inc = l]
    BY SettleIs DEF route_note_rejected
  <1> HIDE DEF m, n
  <1>2. n \in Conn /\ n.rs = k.rs /\ n.inc = k.inc
    BY <1>1 DEF Conns, Settles, But, Fields
  <1>3. r \in SUBSET ReqSlots /\ l \in Seq(ReqSlots)
    BY <1>2 DEF Conn
  <1> HIDE DEF r, l
  <1>4. m \in Conn /\ But(n, m, {"rs", "inc"}) /\ m.rs = r /\ m.inc = l
    BY <1>1, <1>2, <1>3 DEF Conn, But, Fields
  <1>5. /\ m.slot = n.slot /\ m.closed = n.closed /\ m.qp = n.qp /\ m.ends = n.ends
        /\ m.began = n.began
    BY <1>4 DEF But, Fields
  <1>6. m \in Conns
    BY <1>1, <1>4, <1>5, ToldKept DEF Settles
  <1>7. But(k, m, {"slot", "qp"} \cup {"rs", "inc"})
    BY <1>1, <1>4 DEF But, Fields, Settles
  <1>8. Settles(k, i, m, {"rs", "inc"})
    BY <1>1, <1>5, <1>6, <1>7 DEF Settles
  <1>q. QED  BY <1>2, <1>4, <1>8 DEF m, r, l

\* What a slot that completes leaves: a request to answer, one to abort, a refused
\* stream, or nothing yet.
Waits(k, i, m) ==
  /\ m.done = k.done /\ m.inc = k.inc /\ m.rs = k.rs /\ m.closed = k.closed /\ m.owed = k.owed
  /\ m.slot[i].use = k.slot[i].use /\ m.slot[i].id = k.slot[i].id
  /\ m.slot[i].got = k.slot[i].got /\ m.slot[i].done = k.slot[i].done
  /\ m.slot[i].req \in {k.slot[i].req, k.slot[i].id}
  /\ kind[k.slot[i].id] \in {"connect", "wtbad"} /\ "head" \in k.slot[i].got => k.slot[i].done

Ready(k, i, m) ==
  /\ m.done = Append(k.done, i) /\ m.inc = k.inc /\ m.rs = k.rs \ {i}
  /\ m.closed = k.closed /\ m.owed = k.owed
  /\ k.slot[i].use /\ m.slot[i].use /\ m.slot[i].id = k.slot[i].id
  /\ m.slot[i].got = k.slot[i].got /\ m.slot[i].done /\ m.slot[i].req = m.slot[i].id
  /\ kind[k.slot[i].id] \in {"get", "connect", "wtbad"}
  /\ kind[k.slot[i].id] # "get" => "head" \in k.slot[i].got /\ ~ k.slot[i].done

Broken(k, i, m) ==
  /\ m.inc = Append(k.inc, i) /\ m.done = k.done /\ m.rs = k.rs \ {i}
  /\ m.closed = k.closed /\ m.owed = k.owed
  /\ k.slot[i].use /\ m.slot[i].use /\ m.slot[i].id = k.slot[i].id
  /\ m.slot[i].got = k.slot[i].got /\ m.slot[i].done
  /\ kind[k.slot[i].id] \notin {"get", "connect", "wtbad"}

Refused(k, i, m) ==
  /\ m.done = k.done /\ m.inc = k.inc /\ m.rs = k.rs
  /\ k.slot[i].use /\ k.slot[i].id \in k.sendDone
  /\ m.closed = k.closed \cup {k.slot[i].id} /\ m.owed = k.owed + 1
  /\ m.slot[i] = Emptied(k.slot[i])

Completes(k, i, m) ==
  /\ m \in Conns
  /\ But(k, m, {"slot", "qp", "ends", "began", "closed", "owed", "rs", "done", "inc"})
  /\ \A j \in ReqSlots \ {i} : m.slot[j] = k.slot[j]
  /\ Waits(k, i, m) \/ Ready(k, i, m) \/ Broken(k, i, m) \/ Refused(k, i, m)

\* srvloop_route_body_refused is Refused.
LEMMA RefusedIs ==
  ASSUME NEW k \in Conns, NEW i \in ReqSlots, k.slot[i].use, k.slot[i].id \in k.sendDone
  PROVE  Completes(k, i, srvloop_route_body_refused(k, i))
  <1> DEFINE m == srvloop_route_body_refused(k, i)
             n == qdec_settle(k, i)
             s == k.slot[i].id
             r == wired_srvloop_slot_release(n, s)
             o == r.owed + 1
  <1>0. k \in Conn /\ k.slot \in [ReqSlots -> Slot] /\ k.slot[i] \in Slot /\ s \in Requests
    BY DEF Conns, Conn, Slot
  <1>1. Settles(k, i, n, {}) /\ m = [r EXCEPT !.owed = o]
    BY SettleIs DEF srvloop_route_body_refused
  <1> HIDE DEF m, n
  <1>2. n \in Conns
    BY <1>1 DEF Settles
  <1>3. r \in Conns /\ Releases(n, s, r)
    BY <1>0, <1>2, ReleaseKeeps, ReleaseIs
  <1>4. /\ Owns(n, i, s) /\ n.slot[i].req = k.slot[i].req
        /\ \A j \in ReqSlots \ {i} : n.slot[j] = k.slot[j]
    BY <1>0, <1>1 DEF Slot, Owns, Settles
  <1>5. \A j \in ReqSlots : Owns(n, j, s) => j = i
    BY <1>2, <1>4 DEF Conns, Told, Owns
  <1> HIDE DEF r
  <1>6. /\ But(n, r, {"slot", "ends", "closed"}) /\ r.closed = n.closed \cup {s}
        /\ \A j \in ReqSlots : r.slot[j] = IF Owns(n, j, s) THEN Emptied(n.slot[j]) ELSE n.slot[j]
    BY <1>3 DEF Releases
  <1>7. r.slot[i] = Emptied(k.slot[i]) /\ \A j \in ReqSlots \ {i} : r.slot[j] = k.slot[j]
    <2>1. r.slot[i] = Emptied(n.slot[i]) /\ Emptied(n.slot[i]) = Emptied(k.slot[i])
      BY <1>4, <1>6 DEF Emptied
    <2>q. QED  BY <1>4, <1>5, <1>6, <2>1
  <1>8. r \in Conn /\ o \in Nat
    <2>1. r \in Conn
      BY <1>3 DEF Conns
    <2>2. r.owed \in Nat
      BY <2>1 DEF Conn
    <2>q. QED  BY <2>1, <2>2
  <1> HIDE DEF o
  <1>9. m \in Conn /\ m.owed = o /\ But(r, m, {"owed"})
    BY <1>1, <1>8 DEF Conn, But, Fields
  <1>10. /\ m.slot = r.slot /\ m.closed = r.closed /\ m.qp = r.qp /\ m.ends = r.ends
         /\ m.began = r.began
    BY <1>9 DEF But, Fields
  <1>11. m \in Conns
    BY <1>3, <1>9, <1>10, ToldKept
  <1>12. But(k, n, {"slot", "qp"})
    BY <1>1 DEF Settles
  <1>13. But(k, m, {"slot", "qp", "ends", "began", "closed", "owed", "rs", "done", "inc"})
    BY <1>6, <1>9, <1>12 DEF But, Fields
  <1>14. /\ m.done = k.done /\ m.inc = k.inc /\ m.rs = k.rs
         /\ m.closed = k.closed \cup {s} /\ m.owed = k.owed + 1
    <2>1. r.owed = k.owed /\ n.closed = k.closed
      BY <1>6, <1>12 DEF But, Fields
    <2>q. QED  BY <1>6, <1>9, <1>12, <2>1 DEF But, Fields, o
  <1>15. Refused(k, i, m)
    BY <1>7, <1>10, <1>14 DEF Refused
  <1>q. QED  BY <1>7, <1>10, <1>11, <1>13, <1>15 DEF Completes, m

\* A slot that changes for its own stream: what of it and of the stream changes.
SlotSet(k, i, x, e, b) ==
  [k EXCEPT !.slot = [k.slot EXCEPT ![i] = x],
            !.ends = [k.ends EXCEPT ![k.slot[i].id] = e],
            !.began = [k.began EXCEPT ![k.slot[i].id] = b]]

\* A slot whose flags change together with its stream's histories is told soundly.
LEMMA SlotSetIs ==
  ASSUME NEW k \in Conns, NEW i \in ReqSlots, k.slot[i].use,
         NEW x \in Slot, x.use, x.id = k.slot[i].id, x.settled = k.slot[i].settled,
         NEW e \in Nat, NEW b \in BOOLEAN,
         x.body # "aborted", e = IF x.body = "ended" THEN 1 ELSE 0,
         x.body = "off" => ~ b, x.body = "rejected" => kind[x.id] # "get",
         x.body # "off" => kind[x.id] \in {"get", "long"}, x.body = "open" => x.req = x.id
  PROVE  LET m == SlotSet(k, i, x, e, b) IN
         /\ m \in Conns /\ But(k, m, {"slot", "ends", "began"})
         /\ m.slot = [k.slot EXCEPT ![i] = x]
  <1> DEFINE m == SlotSet(k, i, x, e, b)
             s == k.slot[i].id
             a == [k.slot EXCEPT ![i] = x]
             d == [k.ends EXCEPT ![s] = e]
             g == [k.began EXCEPT ![s] = b]
  <1>0. k \in Conn /\ SlotTold(k, i)
    BY DEF Conns, Told
  <1>1. /\ k.slot \in [ReqSlots -> Slot] /\ s \in Requests
        /\ k.ends \in [Requests -> Nat] /\ k.began \in [Requests -> BOOLEAN]
    BY <1>0 DEF Conn, Slot
  <1>2. a \in [ReqSlots -> Slot] /\ d \in [Requests -> Nat] /\ g \in [Requests -> BOOLEAN]
    BY <1>1
  <1>3. /\ a[i] = x /\ d[s] = e /\ g[s] = b
        /\ \A j \in ReqSlots \ {i} : a[j] = k.slot[j]
        /\ \A t \in Requests \ {s} : d[t] = k.ends[t] /\ g[t] = k.began[t]
    BY <1>1
  <1>4. m = [k EXCEPT !.slot = a, !.ends = d, !.began = g]
    BY DEF SlotSet
  <1> HIDE DEF a, d, g, m
  <1>5. /\ m \in Conn /\ But(k, m, {"slot", "ends", "began"})
        /\ m.slot = a /\ m.ends = d /\ m.began = g
    BY <1>0, <1>2, <1>4 DEF Conn, But, Fields
  <1>6. m.closed = k.closed /\ m.qp = k.qp
    BY <1>5 DEF But, Fields
  <1>7. SlotTold(m, i)
    BY <1>0, <1>3, <1>5, <1>6 DEF SlotTold
  <1>8. m \in Conns
    BY <1>3, <1>5, <1>6, <1>7, SlotMoves
  <1>q. QED  BY <1>5, <1>8 DEF a, m

\* route_body_pump on a slot in use: nothing, a request to answer or one to abort.
Pumps(k, i, m) ==
  /\ m \in Conns /\ But(k, m, {"slot", "qp", "ends", "began", "rs", "done", "inc"})
  /\ \A j \in ReqSlots \ {i} : m.slot[j] = k.slot[j]
  /\ m.slot[i].use /\ m.slot[i].id = k.slot[i].id /\ m.slot[i].got = k.slot[i].got
  /\ m.slot[i].req = k.slot[i].req
  /\ \/ m = k
     \/ /\ m.done = Append(k.done, i) /\ m.inc = k.inc /\ m.rs = k.rs \ {i}
        /\ m.slot[i].done /\ kind[k.slot[i].id] = "get" /\ k.slot[i].req = k.slot[i].id
     \/ /\ m.inc = Append(k.inc, i) /\ m.done = k.done /\ m.rs = k.rs \ {i}
        /\ m.slot[i].done /\ kind[k.slot[i].id] = "long"

\* route_body_pump completes the body, rejects it or leaves it open.
LEMMA PumpIs ==
  ASSUME NEW k \in Conns, NEW i \in ReqSlots, k.slot[i].use
  PROVE  Pumps(k, i, route_body_pump(k, i))
  <1> DEFINE m == route_body_pump(k, i)
             s == k.slot[i].id
  <1>0. k \in Conn /\ SlotTold(k, i)
    BY DEF Conns, Told
  <1>1. /\ k.slot \in [ReqSlots -> Slot] /\ k.slot[i] \in Slot /\ s \in Requests
        /\ k.ends \in [Requests -> Nat] /\ k.began \in [Requests -> BOOLEAN]
    BY <1>0 DEF Conn, Slot
  <1>2. CASE k.slot[i].body # "open" \/ "tail" \notin k.slot[i].got
    <2>1. m = k
      BY <1>2 DEF route_body_pump
    <2> HIDE DEF m
    <2>2. Pumps(k, i, m)
      BY <2>1 DEF Pumps, But
    <2>q. QED  BY <2>2 DEF m
  <1>3. CASE k.slot[i].body = "open" /\ "tail" \in k.slot[i].got
    <2>0. /\ kind[s] \in {"get", "long"} /\ k.slot[i].req = s /\ k.ends[s] = 0
          /\ [k.began EXCEPT ![s] = k.began[s]] = k.began
          /\ [k.ends EXCEPT ![s] = k.ends[s]] = k.ends
      <3>1. kind[s] \in {"get", "long"} /\ k.slot[i].req = s /\ k.ends[s] = 0
        BY <1>0, <1>3 DEF SlotTold
      <3>q. QED  BY <1>1, <3>1
    <2>1. CASE kind[s] = "get"
      <3> DEFINE x == [k.slot[i] EXCEPT !.body = "ended", !.done = TRUE]
                 n == SlotSet(k, i, x, 1, k.began[s])
      <3>1. m = srvloop_route_note_done(n, i)
        <4>1. n = [k EXCEPT !.slot[i].body = "ended", !.slot[i].done = TRUE, !.ends[s] = @ + 1]
          <5> DEFINE a == [k.slot EXCEPT ![i] = x]
                     d == [k.ends EXCEPT ![s] = k.ends[s] + 1]
          <5>1. [k EXCEPT !.slot[i].body = "ended", !.slot[i].done = TRUE, !.ends[s] = @ + 1]
                  = [k EXCEPT !.slot = a, !.ends = d]
            BY <1>0, <1>1 DEF Conn
          <5> HIDE DEF a, d
          <5>2. [k EXCEPT !.slot = a, !.ends = d] = [k EXCEPT !.slot = a, !.ends = d, !.began = k.began]
            BY <1>0 DEF Conn
          <5>3. n = [k EXCEPT !.slot = a, !.ends = d, !.began = k.began]
            <6>1. k.ends[s] + 1 = 1
              BY <2>0
            <6>q. QED  BY <2>0, <6>1 DEF SlotSet, a, d
          <5>q. QED  BY <5>1, <5>2, <5>3
        <4>q. QED  BY <1>3, <2>1, <4>1 DEF route_body_pump
      <3>2. /\ x \in Slot /\ x.use /\ x.id = s /\ x.settled = k.slot[i].settled
            /\ x.body = "ended" /\ x.req = s /\ x.got = k.slot[i].got /\ x.done
        BY <1>1, <2>0 DEF Slot, Bodies
      <3> HIDE DEF x, n, m
      <3>3. n \in Conns /\ But(k, n, {"slot", "ends", "began"}) /\ n.slot = [k.slot EXCEPT ![i] = x]
        BY <1>1, <2>1, <3>2, SlotSetIs DEF n
      <3>4. n.slot[i] = x /\ \A j \in ReqSlots \ {i} : n.slot[j] = k.slot[j]
        BY <1>1, <3>3
      <3>5. Settles(n, i, m, {"rs", "done"}) /\ m.rs = n.rs \ {i} /\ m.done = Append(n.done, i)
        BY <3>1, <3>2, <3>3, <3>4, NoteDoneIs
      <3>6. /\ m \in Conns /\ But(n, m, {"slot", "qp", "rs", "done"})
            /\ m.slot[i] = [x EXCEPT !.settled = TRUE]
            /\ \A j \in ReqSlots \ {i} : m.slot[j] = k.slot[j]
        <4>1. m \in Conns /\ But(n, m, {"slot", "qp", "rs", "done"})
              /\ m.slot = [n.slot EXCEPT ![i] = [n.slot[i] EXCEPT !.settled = TRUE]]
          BY <3>5 DEF Settles, But
        <4>2. n.slot \in [ReqSlots -> Slot]
          BY <1>1, <3>2, <3>3
        <4>q. QED  BY <3>4, <4>1, <4>2
      <3>7. But(k, m, {"slot", "qp", "ends", "began", "rs", "done", "inc"})
        BY <3>3, <3>6 DEF But
      <3>8. m.inc = k.inc /\ n.done = k.done /\ n.rs = k.rs
        BY <3>3, <3>6 DEF But, Fields
      <3>9. /\ m.slot[i].use /\ m.slot[i].id = s /\ m.slot[i].got = k.slot[i].got
            /\ m.slot[i].req = k.slot[i].req /\ m.slot[i].done
        BY <2>0, <3>2, <3>6 DEF Slot
      <3>10. Pumps(k, i, m)
        BY <2>0, <2>1, <3>5, <3>6, <3>7, <3>8, <3>9 DEF Pumps
      <3>q. QED  BY <3>10 DEF m
    <2>2. CASE kind[s] = "long"
      <3> DEFINE x == [k.slot[i] EXCEPT !.body = "rejected", !.done = TRUE]
                 n == SlotSet(k, i, x, 0, k.began[s])
      <3>1. m = route_note_rejected(n, i)
        <4>1. n = [k EXCEPT !.slot[i].body = "rejected", !.slot[i].done = TRUE]
          <5> DEFINE a == [k.slot EXCEPT ![i] = x]
          <5>1. [k EXCEPT !.slot[i].body = "rejected", !.slot[i].done = TRUE] = [k EXCEPT !.slot = a]
            BY <1>0, <1>1 DEF Conn
          <5> HIDE DEF a
          <5>2. [k EXCEPT !.slot = a] = [k EXCEPT !.slot = a, !.ends = k.ends, !.began = k.began]
            BY <1>0 DEF Conn
          <5>3. n = [k EXCEPT !.slot = a, !.ends = k.ends, !.began = k.began]
            BY <2>0 DEF SlotSet, a
          <5>q. QED  BY <5>1, <5>2, <5>3
        <4>q. QED  BY <1>3, <2>2, <4>1 DEF route_body_pump
      <3>2. /\ x \in Slot /\ x.use /\ x.id = s /\ x.settled = k.slot[i].settled
            /\ x.body = "rejected" /\ x.req = s /\ x.got = k.slot[i].got /\ x.done
        BY <1>1, <2>0 DEF Slot, Bodies
      <3> HIDE DEF x, n, m
      <3>3. n \in Conns /\ But(k, n, {"slot", "ends", "began"}) /\ n.slot = [k.slot EXCEPT ![i] = x]
        BY <1>1, <2>2, <3>2, SlotSetIs DEF n
      <3>4. n.slot[i] = x /\ \A j \in ReqSlots \ {i} : n.slot[j] = k.slot[j]
        BY <1>1, <3>3
      <3>5. Settles(n, i, m, {"rs", "inc"}) /\ m.rs = n.rs \ {i} /\ m.inc = Append(n.inc, i)
        BY <3>1, <3>2, <3>3, <3>4, NoteRejectedIs
      <3>6. /\ m \in Conns /\ But(n, m, {"slot", "qp", "rs", "inc"})
            /\ m.slot[i] = [x EXCEPT !.settled = TRUE]
            /\ \A j \in ReqSlots \ {i} : m.slot[j] = k.slot[j]
        <4>1. m \in Conns /\ But(n, m, {"slot", "qp", "rs", "inc"})
              /\ m.slot = [n.slot EXCEPT ![i] = [n.slot[i] EXCEPT !.settled = TRUE]]
          BY <3>5 DEF Settles, But
        <4>2. n.slot \in [ReqSlots -> Slot]
          BY <1>1, <3>2, <3>3
        <4>q. QED  BY <3>4, <4>1, <4>2
      <3>7. But(k, m, {"slot", "qp", "ends", "began", "rs", "done", "inc"})
        BY <3>3, <3>6 DEF But
      <3>8. m.done = k.done /\ n.inc = k.inc /\ n.rs = k.rs
        BY <3>3, <3>6 DEF But, Fields
      <3>9. /\ m.slot[i].use /\ m.slot[i].id = s /\ m.slot[i].got = k.slot[i].got
            /\ m.slot[i].req = k.slot[i].req /\ m.slot[i].done
        BY <2>0, <3>2, <3>6 DEF Slot
      <3>10. Pumps(k, i, m)
        BY <2>2, <3>5, <3>6, <3>7, <3>8, <3>9 DEF Pumps
      <3>q. QED  BY <3>10 DEF m
    <2>q. QED  BY <2>0, <2>1, <2>2
  <1>q. QED  BY <1>2, <1>3

\* A slot whose bytes are taken or whose body opens, and then the notes of it.
LEMMA CompleteIs ==
  ASSUME NEW k \in Conns, NEW i \in ReqSlots
  PROVE  Completes(k, i, srvloop_route_complete_slot(k, i))
  <1> DEFINE m      == srvloop_route_complete_slot(k, i)
             sl     == k.slot[i]
             s      == sl.id
             starts == sl.body = "off" /\ "head" \in sl.got /\ ~ sl.done
             opened == [k EXCEPT !.slot[i].body = "open", !.slot[i].req = s, !.began[s] = TRUE]
             taken  == [k EXCEPT !.slot[i].done = TRUE, !.slot[i].req = s]
  <1>0. k \in Conn /\ Told(k)
    BY DEF Conns
  <1>1. /\ k.slot \in [ReqSlots -> Slot] /\ sl \in Slot /\ s \in Requests /\ s \in Request
        /\ k.ends \in [Requests -> Nat] /\ k.began \in [Requests -> BOOLEAN]
        /\ [k.began EXCEPT ![s] = k.began[s]] = k.began
        /\ [k.ends EXCEPT ![s] = k.ends[s]] = k.ends
    <2>1. /\ k.slot \in [ReqSlots -> Slot] /\ sl \in Slot /\ s \in Requests
          /\ k.ends \in [Requests -> Nat] /\ k.began \in [Requests -> BOOLEAN]
      BY <1>0 DEF Conn, Slot
    <2>q. QED  BY <2>1 DEF Request
  <1>2. CASE ~ sl.use
    <2>1. sl.got = {} /\ sl.body = "off"
      BY <1>0, <1>2 DEF Told
    <2>2. m = k
      BY <2>1 DEF srvloop_route_complete_slot, srvloop_request_complete
    <2> HIDE DEF m
    <2>3. Waits(k, i, m)
      BY <2>1, <2>2 DEF Waits
    <2>4. But(k, m, {"slot", "qp", "ends", "began", "closed", "owed", "rs", "done", "inc"})
      BY <2>2 DEF But
    <2>5. Completes(k, i, m)
      BY <2>2, <2>3, <2>4 DEF Completes
    <2>q. QED  BY <2>5 DEF m
  <1>3. CASE sl.use /\ k.streamed /\ starts /\ s \in k.sendDone
    <2>1. m = srvloop_route_body_refused(k, i)
      BY <1>3 DEF srvloop_route_complete_slot
    <2>2. Completes(k, i, srvloop_route_body_refused(k, i))
      BY <1>3, RefusedIs
    <2>q. QED  BY <2>1, <2>2
  <1>4. CASE sl.use /\ k.streamed /\ starts /\ s \notin k.sendDone /\ kind[s] \in {"get", "long"}
    <2> DEFINE x == [sl EXCEPT !.body = "open", !.req = s]
               b == TRUE
               n == SlotSet(k, i, x, k.ends[s], b)
    <2>0. SlotTold(k, i) /\ k.ends[s] = 0
      <3>1. SlotTold(k, i)
        BY <1>0, <1>4 DEF Told
      <3>q. QED  BY <1>4, <3>1 DEF SlotTold
    <2>1. m = route_body_pump(n, i)
      <3>1. n = opened
        <4> DEFINE a == [k.slot EXCEPT ![i] = x]
                   g == [k.began EXCEPT ![s] = TRUE]
        <4>1. opened = [k EXCEPT !.slot = a, !.began = g]
          BY <1>0, <1>1, ZenonT(60) DEF Conn
        <4> HIDE DEF a, g
        <4>2. [k EXCEPT !.slot = a, !.began = g] = [k EXCEPT !.slot = a, !.ends = k.ends, !.began = g]
          BY <1>0 DEF Conn
        <4>3. n = [k EXCEPT !.slot = a, !.ends = k.ends, !.began = g]
          BY <1>1 DEF SlotSet, a, g
        <4>q. QED  BY <4>1, <4>2, <4>3
      <3>2. m = route_body_pump(opened, i)
        BY <1>4 DEF srvloop_route_complete_slot
      <3>q. QED  BY <3>1, <3>2
    <2>2. /\ x \in Slot /\ x.use /\ x.id = s /\ x.settled = sl.settled
          /\ x.body = "open" /\ x.req = s /\ x.got = sl.got /\ x.done = sl.done
      BY <1>1, <1>4 DEF Slot, Bodies
    <2> HIDE DEF x, n, m
    <2>3. n \in Conns /\ But(k, n, {"slot", "ends", "began"}) /\ n.slot = [k.slot EXCEPT ![i] = x]
      <3>1. b \in BOOLEAN /\ k.ends[s] \in Nat /\ k.slot[i].use /\ kind[s] \in {"get", "long"}
        BY <1>1, <1>4
      <3> HIDE DEF b
      <3>q. QED  BY <2>0, <2>2, <3>1, SlotSetIs DEF n
    <2>4. n.slot[i] = x /\ \A j \in ReqSlots \ {i} : n.slot[j] = k.slot[j]
      BY <1>1, <2>3
    <2>5. Pumps(n, i, m)
      BY <2>1, <2>2, <2>3, <2>4, PumpIs
    <2>6. /\ m \in Conns /\ But(n, m, {"slot", "qp", "ends", "began", "rs", "done", "inc"})
          /\ \A j \in ReqSlots \ {i} : m.slot[j] = k.slot[j]
          /\ m.slot[i].use /\ m.slot[i].id = s /\ m.slot[i].got = sl.got /\ m.slot[i].req = s
      BY <2>2, <2>4, <2>5 DEF Pumps
    <2>7. But(k, m, {"slot", "qp", "ends", "began", "closed", "owed", "rs", "done", "inc"})
      BY <2>3, <2>6 DEF But
    <2>8. n.done = k.done /\ n.inc = k.inc /\ n.rs = k.rs /\ m.closed = k.closed /\ m.owed = k.owed
      BY <2>3, <2>6 DEF But, Fields
    <2>9. CASE m = n
      <3>1. Waits(k, i, m)
        BY <1>4, <2>2, <2>4, <2>6, <2>8, <2>9 DEF Waits
      <3>q. QED  BY <2>6, <2>7, <3>1 DEF Completes, m
    <2>10. CASE m # n
      <3>1. Ready(k, i, m) \/ Broken(k, i, m)
        BY <1>4, <2>2, <2>4, <2>5, <2>6, <2>8, <2>10 DEF Pumps, Ready, Broken
      <3>q. QED  BY <2>6, <2>7, <3>1 DEF Completes, m
    <2>q. QED  BY <2>9, <2>10
  <1>5. CASE sl.use /\ sl.body # "off"
    <2>0. kind[s] \in {"get", "long"}
      BY <1>0, <1>5 DEF Told, SlotTold
    <2>1. m = route_body_pump(k, i)
      BY <1>5 DEF srvloop_route_complete_slot
    <2> HIDE DEF m
    <2>2. Pumps(k, i, m)
      BY <1>5, <2>1, PumpIs
    <2>3. But(k, m, {"slot", "qp", "ends", "began", "closed", "owed", "rs", "done", "inc"})
      BY <2>2 DEF But, Pumps
    <2>4. m.closed = k.closed /\ m.owed = k.owed
      BY <2>2 DEF But, Fields, Pumps
    <2>5. Waits(k, i, m) \/ Ready(k, i, m) \/ Broken(k, i, m)
      <3>1. CASE m = k
        BY <2>0, <3>1 DEF Waits
      <3>2. CASE m # k
        BY <1>5, <2>0, <2>2, <2>4, <3>2 DEF Pumps, Ready, Broken
      <3>q. QED  BY <3>1, <3>2
    <2>6. m \in Conns /\ \A j \in ReqSlots \ {i} : m.slot[j] = k.slot[j]
      BY <2>2 DEF Pumps
    <2>7. Completes(k, i, m)
      BY <2>3, <2>5, <2>6 DEF Completes
    <2>q. QED  BY <2>7 DEF m
  <1>6. CASE /\ sl.use /\ sl.body = "off"
             /\ ~ (k.streamed /\ starts /\ s \in k.sendDone)
             /\ ~ (k.streamed /\ starts /\ kind[s] \in {"get", "long"})
    <2>1. CASE ~ srvloop_request_complete(sl)
      <3>1. m = k
        BY <1>6, <2>1 DEF srvloop_route_complete_slot
      <3> HIDE DEF m
      <3>2. Waits(k, i, m)
        BY <1>6, <2>1, <3>1 DEF Waits, srvloop_request_complete
      <3>3. But(k, m, {"slot", "qp", "ends", "began", "closed", "owed", "rs", "done", "inc"})
        BY <3>1 DEF But
      <3>4. Completes(k, i, m)
        BY <3>1, <3>2, <3>3 DEF Completes
      <3>q. QED  BY <3>4 DEF m
    <2>2. CASE srvloop_request_complete(sl)
      <3> DEFINE x == [sl EXCEPT !.done = TRUE, !.req = s]
                 n == SlotSet(k, i, x, k.ends[s], k.began[s])
      <3>0. SlotTold(k, i) /\ k.ends[s] = 0 /\ ~ k.began[s]
        <4>1. SlotTold(k, i)
          BY <1>0, <1>6 DEF Told
        <4>q. QED  BY <1>6, <4>1 DEF SlotTold
      <3>1. n = taken
        <4> DEFINE a == [k.slot EXCEPT ![i] = x]
        <4>1. taken = [k EXCEPT !.slot = a]
          BY <1>0, <1>1, ZenonT(60) DEF Conn
        <4> HIDE DEF a
        <4>2. [k EXCEPT !.slot = a] = [k EXCEPT !.slot = a, !.ends = k.ends, !.began = k.began]
          BY <1>0 DEF Conn
        <4>3. n = [k EXCEPT !.slot = a, !.ends = k.ends, !.began = k.began]
          BY <1>1 DEF SlotSet, a
        <4>q. QED  BY <4>1, <4>2, <4>3
      <3>2. /\ x \in Slot /\ x.use /\ x.id = s /\ x.settled = sl.settled
            /\ x.body = "off" /\ x.req = s /\ x.got = sl.got /\ x.done
        BY <1>1, <1>6 DEF Slot, Bodies
      <3>3. m = IF kind[s] \in {"get", "connect", "wtbad"}
                THEN srvloop_route_note_done(n, i) ELSE route_note_rejected(n, i)
        BY <1>6, <2>2, <3>1 DEF srvloop_route_complete_slot
      <3>4. ~ sl.done /\ "head" \in sl.got
        BY <2>2 DEF srvloop_request_complete
      <3> HIDE DEF x, n, m
      <3>5. n \in Conns /\ But(k, n, {"slot", "ends", "began"}) /\ n.slot = [k.slot EXCEPT ![i] = x]
        <4>1. k.began[s] \in BOOLEAN /\ k.ends[s] \in Nat /\ k.slot[i].use
          BY <1>1, <1>6
        <4>q. QED  BY <3>0, <3>2, <4>1, SlotSetIs DEF n
      <3>6. n.slot[i] = x /\ \A j \in ReqSlots \ {i} : n.slot[j] = k.slot[j]
        BY <1>1, <3>5
      <3>7. \E F \in {{"rs", "done"}, {"rs", "inc"}} : Settles(n, i, m, F)
        BY <3>2, <3>3, <3>5, <3>6, NoteDoneIs, NoteRejectedIs
      <3>8. /\ m \in Conns /\ But(n, m, {"slot", "qp", "rs", "done", "inc"})
            /\ m.slot[i] = [x EXCEPT !.settled = TRUE]
            /\ \A j \in ReqSlots \ {i} : m.slot[j] = k.slot[j]
        <4>1. /\ m \in Conns /\ But(n, m, {"slot", "qp", "rs", "done", "inc"})
              /\ m.slot = [n.slot EXCEPT ![i] = [n.slot[i] EXCEPT !.settled = TRUE]]
          BY <3>7 DEF Settles, But
        <4>2. n.slot \in [ReqSlots -> Slot]
          BY <1>1, <3>2, <3>5
        <4>q. QED  BY <3>6, <4>1, <4>2
      <3>9. But(k, m, {"slot", "qp", "ends", "began", "closed", "owed", "rs", "done", "inc"})
        BY <3>5, <3>8 DEF But
      <3>10. /\ n.done = k.done /\ n.inc = k.inc /\ n.rs = k.rs
             /\ m.closed = k.closed /\ m.owed = k.owed
        BY <3>5, <3>8 DEF But, Fields
      <3>11. /\ m.slot[i].use /\ m.slot[i].id = s /\ m.slot[i].got = sl.got
             /\ m.slot[i].req = s /\ m.slot[i].done
        BY <3>2, <3>8 DEF Slot
      <3>12. CASE kind[s] \in {"get", "connect", "wtbad"}
        <4>1. /\ Settles(n, i, m, {"rs", "done"})
              /\ m.rs = n.rs \ {i} /\ m.done = Append(n.done, i)
          BY <3>2, <3>3, <3>5, <3>6, <3>12, NoteDoneIs
        <4>2. m.inc = n.inc
          BY <4>1 DEF Settles, But, Fields
        <4>3. Ready(k, i, m)
          BY <1>6, <3>4, <3>10, <3>11, <3>12, <4>1, <4>2 DEF Ready
        <4>q. QED  BY <3>8, <3>9, <4>3 DEF Completes, m
      <3>13. CASE kind[s] \notin {"get", "connect", "wtbad"}
        <4>1. /\ Settles(n, i, m, {"rs", "inc"})
              /\ m.rs = n.rs \ {i} /\ m.inc = Append(n.inc, i)
          BY <3>2, <3>3, <3>5, <3>6, <3>13, NoteRejectedIs
        <4>2. m.done = n.done
          BY <4>1 DEF Settles, But, Fields
        <4>3. Broken(k, i, m)
          BY <1>6, <3>4, <3>10, <3>11, <3>13, <4>1, <4>2 DEF Broken
        <4>q. QED  BY <3>8, <3>9, <4>3 DEF Completes, m
      <3>q. QED  BY <3>12, <3>13
    <2>q. QED  BY <2>1, <2>2
  <1>q. QED  BY <1>2, <1>3, <1>4, <1>5, <1>6

\* srvloop_stream_slot_claim: a free slot takes up the stream.
Claims(k, s, i, m) ==
  /\ m \in Conns /\ But(k, m, {"slot", "next"})
  /\ i \in ReqSlots /\ ~ k.slot[i].use
  /\ m.slot[i] = [Emptied(k.slot[i]) EXCEPT !.use = TRUE, !.id = s]
  /\ \A j \in ReqSlots \ {i} : m.slot[j] = k.slot[j]
  /\ k.next <= m.next /\ s < m.next

\* srvloop_stream_slot_claim takes a free slot for a stream that has none.
LEMMA ClaimIs ==
  ASSUME NEW k \in Conns, NEW s \in Requests \ k.closed, ~ HasSlot(k, s),
         ~ \A i \in ReqSlots : k.slot[i].use
  PROVE  \E i : Claims(k, s, i, srvloop_stream_slot_claim(k, s))
  <1> DEFINE m == srvloop_stream_slot_claim(k, s)
             Free == {j \in ReqSlots : ~ k.slot[j].use}
             i == CHOOSE j \in ReqSlots : /\ ~ k.slot[j].use
                                          /\ \A h \in 1 .. j - 1 : k.slot[h].use
             x == [Emptied(k.slot[i]) EXCEPT !.use = TRUE, !.id = s]
             a == [k.slot EXCEPT ![i] = x]
             n == IF s + 1 > k.next THEN s + 1 ELSE k.next
  <1>0. k \in Conn /\ Told(k) /\ s \in Nat
    BY ReqAssumption DEF Conns
  <1>1. k.slot \in [ReqSlots -> Slot] /\ k.next \in Nat
    BY <1>0 DEF Conn
  <1>2. i \in ReqSlots /\ ~ k.slot[i].use
    <2>1. Free # {} /\ Free \subseteq Nat
      BY DEF ReqSlots
    <2> DEFINE j == Min(Free)
    <2>2. j \in Free /\ \A y \in Free : j <= y
      BY <2>1, MinIs
    <2> HIDE DEF j
    <2>3. \A h \in 1 .. j - 1 : k.slot[h].use
      BY <2>2, ReqAssumption DEF ReqSlots
    <2>q. QED  BY <2>2, <2>3
  <1>3. m = [k EXCEPT !.slot = a, !.next = n]
    <2> DEFINE y == [FreeSlot EXCEPT !.use = TRUE, !.id = s, !.req = k.slot[i].req]
    <2>1. m = [k EXCEPT !.slot[i] = y, !.next = IF s + 1 > @ THEN s + 1 ELSE @]
      BY DEF srvloop_stream_slot_claim
    <2> HIDE DEF i
    <2>2. y = x
      BY DEF FreeSlot, Emptied
    <2> HIDE DEF x, y
    <2>q. QED  BY <1>0, <2>1, <2>2 DEF Conn
  <1> HIDE DEF i
  <1>4. /\ x \in Slot /\ x.use /\ x.id = s /\ x.got = {} /\ ~ x.done /\ x.body = "off" /\ ~ x.settled
    BY <1>1, <1>2, ReqAssumption DEF FreeSlot, Slot, Request, Bodies, Emptied
  <1>5. a \in [ReqSlots -> Slot] /\ n \in Nat /\ k.next <= n /\ s < n
    BY <1>0, <1>1, <1>2, <1>4
  <1>6. a[i] = x /\ \A j \in ReqSlots \ {i} : a[j] = k.slot[j]
    BY <1>1, <1>2
  <1> HIDE DEF a, n, m, x
  <1>7. m \in Conn /\ But(k, m, {"slot", "next"}) /\ m.slot = a /\ m.next = n
    BY <1>0, <1>3, <1>5 DEF Conn, But, Fields
  <1>8. m.closed = k.closed /\ m.qp = k.qp /\ m.ends = k.ends /\ m.began = k.began
    BY <1>7 DEF But, Fields
  <1>9. \A j \in ReqSlots : ~ Owns(k, j, s)
    BY FindsSlot
  <1>10. k.qp[s] = 0 /\ k.ends[s] = 0 /\ ~ k.began[s]
    BY <1>0, <1>9 DEF Told
  <1>11. SlotTold(m, i)
    BY <1>4, <1>6, <1>7, <1>8, <1>10 DEF SlotTold
  <1>12. \A j \in ReqSlots \ {i} : m.slot[j] = k.slot[j]
    BY <1>6, <1>7
  <1>13. m.slot[i].use /\ m.slot[i].id = s
    BY <1>4, <1>6, <1>7
  <1>14. \A b, d \in ReqSlots : m.slot[b].use /\ Owns(m, d, m.slot[b].id) => b = d
    <2>1. ASSUME NEW b \in ReqSlots, NEW d \in ReqSlots, m.slot[b].use, Owns(m, d, m.slot[b].id)
          PROVE  b = d
      <3>1. CASE b = i /\ d # i
        BY <1>9, <1>12, <1>13, <2>1, <3>1 DEF Owns
      <3>2. CASE b # i /\ d = i
        BY <1>9, <1>12, <1>13, <2>1, <3>2 DEF Owns
      <3>3. CASE b # i /\ d # i
        BY <1>0, <1>12, <2>1, <3>3 DEF Owns, Told
      <3>q. QED  BY <3>1, <3>2, <3>3
    <2>q. QED  BY <2>1
  <1>15. ASSUME NEW j \in ReqSlots
         PROVE  IF m.slot[j].use THEN SlotTold(m, j)
                ELSE m.slot[j].got = {} /\ m.slot[j].body = "off"
    <2>1. CASE j = i
      BY <1>11, <1>13, <2>1
    <2>2. CASE j # i
      BY <1>0, <1>8, <1>12, <2>2 DEF Told, SlotTold
    <2>q. QED  BY <2>1, <2>2
  <1>16. \A t \in Requests \ m.closed : (\A j \in ReqSlots : ~ Owns(m, j, t)) =>
           m.qp[t] = 0 /\ m.ends[t] = 0 /\ ~ m.began[t]
    <2>1. ASSUME NEW t \in Requests \ m.closed, \A j \in ReqSlots : ~ Owns(m, j, t)
          PROVE  m.qp[t] = 0 /\ m.ends[t] = 0 /\ ~ m.began[t]
      <3>1. \A j \in ReqSlots : ~ Owns(k, j, t)
        BY <1>2, <1>12, <2>1 DEF Owns
      <3>q. QED  BY <1>0, <1>8, <3>1 DEF Told
    <2>q. QED  BY <2>1
  <1>17. Told(m)
    <2>1. \A t \in m.closed : /\ m.qp[t] <= 1 /\ m.ends[t] <= 1
                              /\ kind[t] = "get" /\ m.began[t] => m.ends[t] = 1
      BY <1>0, <1>8 DEF Told
    <2>q. QED  BY <1>14, <1>15, <1>16, <2>1 DEF Told
  <1>18. Claims(k, s, i, m)
    BY <1>2, <1>5, <1>6, <1>7, <1>12, <1>17 DEF Claims, Conns, x
  <1>q. QED  BY <1>18 DEF m

\* The slot j after a frame f landed: as before, with the frame's bytes, or claimed.
LandsIn(k, f, m, j) ==
  \/ m.slot[j] = k.slot[j] /\ (j \in m.touched <=> j \in k.touched)
  \/ /\ j \in m.touched /\ f[2] \in {"head", "tail"} /\ m.slot[j].use /\ m.slot[j].id = f[1]
     /\ m.slot[j].req = k.slot[j].req
     /\ \/ Owns(k, j, f[1]) /\ m.slot[j] = [k.slot[j] EXCEPT !.got = @ \cup {f[2]}]
        \/ /\ ~ k.slot[j].use /\ m.slot[j].got = {f[2]} /\ ~ m.slot[j].done
           /\ f[1] < m.next

Lands(k, f, m) ==
  /\ m \in Conns /\ But(k, m, {"slot", "next", "touched"}) /\ k.next <= m.next
  /\ \A j \in ReqSlots : LandsIn(k, f, m, j)

\* The bytes of a frame are added to the slot its stream has.
Got(k, i, t) == [k EXCEPT !.slot[i].got = @ \cup {t}, !.touched = @ \cup {i}]

\* What Got changes.
Gets(k, i, t, m) ==
  /\ m \in Conns /\ But(k, m, {"slot", "touched"}) /\ m.touched = k.touched \cup {i}
  /\ m.slot[i] = [k.slot[i] EXCEPT !.got = @ \cup {t}]
  /\ \A j \in ReqSlots \ {i} : m.slot[j] = k.slot[j]

\* Got is Gets, among the sound connections.
LEMMA GotIs ==
  ASSUME NEW k \in Conns, NEW i \in ReqSlots, k.slot[i].use, NEW t \in {"head", "tail"}
  PROVE  Gets(k, i, t, Got(k, i, t))
  <1> DEFINE m == Got(k, i, t)
             x == [k.slot[i] EXCEPT !.got = @ \cup {t}]
             a == [k.slot EXCEPT ![i] = x]
             b == k.touched \cup {i}
  <1>0. k \in Conn /\ SlotTold(k, i)
    BY DEF Conns, Told
  <1>1. k.slot \in [ReqSlots -> Slot] /\ k.slot[i] \in Slot /\ k.touched \in SUBSET ReqSlots
    BY <1>0 DEF Conn
  <1>2. m = [k EXCEPT !.slot = a, !.touched = b]
    BY <1>0, <1>1 DEF Conn, Got
  <1>3. /\ x \in Slot /\ x.use = k.slot[i].use /\ x.id = k.slot[i].id /\ x.req = k.slot[i].req
        /\ x.body = k.slot[i].body /\ x.settled = k.slot[i].settled
    BY <1>1 DEF Slot
  <1>4. a \in [ReqSlots -> Slot] /\ b \in SUBSET ReqSlots
    BY <1>1, <1>3
  <1>5. a[i] = x /\ \A j \in ReqSlots \ {i} : a[j] = k.slot[j]
    BY <1>1
  <1> HIDE DEF a, b, m, x
  <1>6. m \in Conn /\ But(k, m, {"slot", "touched"}) /\ m.slot = a /\ m.touched = b
    BY <1>0, <1>2, <1>4 DEF Conn, But, Fields
  <1>7. m.closed = k.closed /\ m.qp = k.qp /\ m.ends = k.ends /\ m.began = k.began
    BY <1>6 DEF But, Fields
  <1>8. SlotTold(m, i)
    BY <1>0, <1>3, <1>5, <1>6, <1>7 DEF SlotTold
  <1>9. m \in Conns
    BY <1>3, <1>5, <1>6, <1>7, <1>8, SlotMoves
  <1>10. Gets(k, i, t, m)
    BY <1>5, <1>6, <1>9 DEF Gets, b, x
  <1>q. QED  BY <1>10 DEF m

\* wired_srvloop_slot_for: the slot the stream has, a slot it claims, or none.
LEMMA SlotForIs ==
  ASSUME NEW k \in Conns, NEW s \in Requests
  PROVE  LET m == wired_srvloop_slot_for(k, s) IN
         /\ m \in Conns /\ But(k, m, {"slot", "next"}) /\ k.next <= m.next
         /\ \/ m.slot = k.slot
            \/ /\ ~ HasSlot(k, s)
               /\ \E i : /\ i \in ReqSlots /\ ~ k.slot[i].use /\ s < m.next
                         /\ m.slot[i] = [Emptied(k.slot[i]) EXCEPT !.use = TRUE, !.id = s]
                         /\ \A j \in ReqSlots \ {i} : m.slot[j] = k.slot[j]
  <1> DEFINE m == wired_srvloop_slot_for(k, s)
  <1>0. k \in Conn /\ k.next \in Nat
    <2>1. k \in Conn
      BY DEF Conns
    <2>q. QED  BY <2>1 DEF Conn
  <1>1. CASE m = k
    BY <1>0, <1>1 DEF But
  <1>2. CASE /\ m = srvloop_stream_slot_claim(k, s) /\ ~ HasSlot(k, s) /\ s \notin k.closed
             /\ ~ \A i \in ReqSlots : k.slot[i].use
    <2>1. PICK i : Claims(k, s, i, m)
      BY <1>2, ClaimIs
    <2> HIDE DEF m
    <2>2. /\ m \in Conns /\ But(k, m, {"slot", "next"})
          /\ k.next <= m.next
          /\ i \in ReqSlots /\ ~ k.slot[i].use /\ s < m.next
          /\ m.slot[i] = [Emptied(k.slot[i]) EXCEPT !.use = TRUE, !.id = s]
          /\ \A j \in ReqSlots \ {i} : m.slot[j] = k.slot[j]
      BY <2>1 DEF Claims, But
    <2>q. QED  BY <1>2, <2>2 DEF m
  <1>q. QED  BY <1>1, <1>2 DEF wired_srvloop_slot_for

\* route_land is Lands.
LEMMA LandIs ==
  ASSUME NEW k \in Conns, NEW f \in Frames
  PROVE  Lands(k, f, route_land(k, f))
  <1> DEFINE s == f[1]
             n == wired_srvloop_slot_for(k, s)
             i == SlotOf(n, s)
             m == route_land(k, f)
  <1>0. /\ s \in Requests /\ k \in Conn
    BY DEF Frames, Conns
  <1>1. /\ k.next \in Nat /\ k.slot \in [ReqSlots -> Slot] /\ k.touched \in SUBSET ReqSlots
    BY <1>0 DEF Conn
  <1>2. CASE f[2] \notin {"head", "tail"}
    <2>1. m = k
      BY <1>2 DEF route_land
    <2> HIDE DEF m
    <2>2. Lands(k, f, m)
      BY <1>1, <2>1 DEF Lands, LandsIn, But
    <2>q. QED  BY <2>2 DEF m
  <1>3. CASE f[2] \in {"head", "tail"}
    <2>1. m = IF ~ HasSlot(n, s) THEN n ELSE Got(n, i, f[2])
      BY <1>3 DEF route_land, Got
    <2>2. /\ n \in Conns /\ But(k, n, {"slot", "next"}) /\ k.next <= n.next
          /\ \/ n.slot = k.slot
             \/ /\ ~ HasSlot(k, s)
                /\ \E h : /\ h \in ReqSlots /\ ~ k.slot[h].use /\ s < n.next
                          /\ n.slot[h] = [Emptied(k.slot[h]) EXCEPT !.use = TRUE, !.id = s]
                          /\ \A j \in ReqSlots \ {h} : n.slot[j] = k.slot[j]
      BY <1>0, SlotForIs
    <2> HIDE DEF n, m
    <2>3. n.touched = k.touched
      BY <2>2 DEF But, Fields
    <2>4. CASE ~ HasSlot(n, s)
      <3>1. \A j \in ReqSlots : ~ Owns(n, j, s)
        BY <2>2, <2>4, FindsSlot
      <3>2. n.slot = k.slot
        <4>1. \A x \in Slot : [Emptied(x) EXCEPT !.use = TRUE, !.id = s].use
                /\ [Emptied(x) EXCEPT !.use = TRUE, !.id = s].id = s
          BY DEF Emptied, FreeSlot
        <4>q. QED  BY <1>1, <2>2, <3>1, <4>1 DEF Owns
      <3>3. Lands(k, f, n)
        BY <2>2, <2>3, <3>2 DEF Lands, LandsIn, But
      <3>q. QED  BY <2>1, <2>4, <3>3 DEF m
    <2>5. CASE HasSlot(n, s)
      <3>1. i \in ReqSlots /\ Owns(n, i, s) /\ \A j \in ReqSlots : Owns(n, j, s) => i = j
        BY <2>2, <2>5, FindsSlot
      <3> HIDE DEF i
      <3>2. /\ m \in Conns /\ But(n, m, {"slot", "touched"}) /\ m.touched = n.touched \cup {i}
            /\ m.slot[i] = [n.slot[i] EXCEPT !.got = @ \cup {f[2]}]
            /\ \A j \in ReqSlots \ {i} : m.slot[j] = n.slot[j]
        <4> DEFINE t == f[2]
        <4>1. m = Got(n, i, t) /\ t \in {"head", "tail"} /\ n.slot[i].use
          BY <1>3, <2>1, <2>5, <3>1 DEF Owns
        <4> HIDE DEF t
        <4>2. Gets(n, i, t, m)
          <5>1. n \in Conns /\ i \in ReqSlots
            BY <2>2, <3>1
          <5>q. QED  BY <4>1, <5>1, GotIs
        <4>q. QED  BY <4>2 DEF Gets, t
      <3>3. But(k, m, {"slot", "next", "touched"}) /\ m.next = n.next
        BY <2>2, <3>2 DEF But, Fields
      <3>4. n.slot \in [ReqSlots -> Slot] /\ n.slot[i] \in Slot
        <4>1. n \in Conn
          BY <2>2 DEF Conns
        <4>q. QED  BY <3>1, <4>1 DEF Conn
      <3>5. m.slot[i].use /\ m.slot[i].id = s /\ m.slot[i].req = n.slot[i].req
            /\ m.slot[i].done = n.slot[i].done /\ m.slot[i].got = n.slot[i].got \cup {f[2]}
        BY <3>1, <3>2, <3>4 DEF Slot, Owns
      <3>6. CASE n.slot = k.slot
        <4>1. ASSUME NEW j \in ReqSlots PROVE LandsIn(k, f, m, j)
          <5>1. CASE j = i
            BY <1>3, <3>1, <3>2, <3>5, <3>6, <5>1 DEF LandsIn, Owns
          <5>2. CASE j # i
            BY <2>3, <3>2, <3>6, <5>2 DEF LandsIn
          <5>q. QED  BY <5>1, <5>2
        <4>q. QED  BY <2>2, <3>2, <3>3, <4>1 DEF Lands, m
      <3>7. CASE n.slot # k.slot
        <4>1. PICK h \in ReqSlots :
                     /\ ~ k.slot[h].use /\ s < n.next
                     /\ n.slot[h] = [Emptied(k.slot[h]) EXCEPT !.use = TRUE, !.id = s]
                     /\ \A j \in ReqSlots \ {h} : n.slot[j] = k.slot[j]
          BY <2>2, <3>7
        <4>2. /\ n.slot[h].use /\ n.slot[h].id = s /\ n.slot[h].got = {} /\ ~ n.slot[h].done
              /\ n.slot[h].req = k.slot[h].req
          BY <4>1 DEF Emptied, FreeSlot
        <4>3. h = i
          BY <3>1, <4>2 DEF Owns
        <4>4. ASSUME NEW j \in ReqSlots PROVE LandsIn(k, f, m, j)
          <5>1. CASE j = i
            <6>1. m.slot[i].got = {f[2]}
              BY <3>5, <4>2, <4>3
            <6>q. QED  BY <1>3, <3>2, <3>3, <3>5, <4>1, <4>2, <4>3, <5>1, <6>1 DEF LandsIn
          <5>2. CASE j # i
            BY <2>3, <3>2, <4>1, <4>3, <5>2 DEF LandsIn
          <5>q. QED  BY <5>1, <5>2
        <4>q. QED  BY <2>2, <3>2, <3>3, <4>4 DEF Lands, m
      <3>q. QED  BY <3>6, <3>7
    <2>q. QED  BY <2>4, <2>5
  <1>q. QED  BY <1>2, <1>3

\* The slot j serves the same request in k and in m, with the same bytes.
SameSlot(k, m, j) ==
  /\ m.slot[j].use = k.slot[j].use /\ m.slot[j].id = k.slot[j].id
  /\ m.slot[j].req = k.slot[j].req /\ m.slot[j].got = k.slot[j].got
  /\ m.slot[j].done = k.slot[j].done

\* reset_request_stream: a late reset, one that a slot is noted for, or one that
\* closes a stream without a slot.
Resets(k, s, m) ==
  /\ m \in Conns /\ But(k, m, {"slot", "qp", "ends", "closed", "rs", "slotless"})
  /\ \A j \in ReqSlots : SameSlot(k, m, j)
  /\ \/ m.closed = k.closed /\ m.slotless = k.slotless /\ m.rs = k.rs
     \/ /\ m.closed = k.closed /\ m.slotless = k.slotless
        /\ \E i \in ReqSlots : Owns(k, i, s) /\ ~ k.slot[i].done /\ m.rs = k.rs \cup {i}
     \/ /\ (\A j \in ReqSlots : ~ Owns(k, j, s)) /\ s \notin k.closed
        /\ m.closed = k.closed \cup {s} /\ m.slotless = k.slotless + 1 /\ m.rs = k.rs

\* reset_request_stream notes the slot, or closes the stream that has none.
LEMMA ResetIs ==
  ASSUME NEW k \in Conns, NEW s \in Requests
  PROVE  Resets(k, s, reset_request_stream(k, s))
  <1> DEFINE m == reset_request_stream(k, s)
  <1>0. k \in Conn /\ Told(k)
    BY DEF Conns
  <1>1. k.slot \in [ReqSlots -> Slot] /\ k.rs \in SUBSET ReqSlots
    BY <1>0 DEF Conn
  <1>2. CASE s \in k.closed
    <2>1. m = k
      BY <1>2 DEF reset_request_stream
    <2> HIDE DEF m
    <2>2. Resets(k, s, m)
      BY <2>1 DEF Resets, SameSlot, But
    <2>q. QED  BY <2>2 DEF m
  <1>3. CASE s \notin k.closed /\ HasSlot(k, s)
    <2> DEFINE i == SlotOf(k, s)
               n == qdec_settle(k, i)
               r == IF k.slot[i].done THEN n.rs ELSE n.rs \cup {i}
    <2>1. i \in ReqSlots /\ Owns(k, i, s)
      BY <1>3, FindsSlot
    <2>2. m = [n EXCEPT !.rs = r]
      BY <1>3 DEF reset_request_stream
    <2> HIDE DEF i, m
    <2>3. Settles(k, i, n, {})
      BY <2>1, SettleIs DEF Owns
    <2> HIDE DEF n
    <2>4. /\ n \in Conns /\ But(k, n, {"slot", "qp"})
          /\ n.slot = [k.slot EXCEPT ![i] = [k.slot[i] EXCEPT !.settled = TRUE]]
      BY <2>3 DEF Settles
    <2>5. n \in Conn /\ r \in SUBSET ReqSlots /\ n.rs = k.rs
      <3>1. n \in Conn
        BY <2>4 DEF Conns
      <3>2. n.rs = k.rs
        BY <2>4 DEF But, Fields
      <3>q. QED  BY <1>1, <2>1, <3>1, <3>2
    <2> HIDE DEF r
    <2>6. m \in Conn /\ But(n, m, {"rs"}) /\ m.rs = r
      BY <2>2, <2>5 DEF Conn, But, Fields
    <2>7. /\ m.slot = n.slot /\ m.closed = n.closed /\ m.qp = n.qp /\ m.ends = n.ends
          /\ m.began = n.began
      BY <2>6 DEF But, Fields
    <2>8. m \in Conns
      BY <2>4, <2>6, <2>7, ToldKept
    <2>9. But(k, m, {"slot", "qp", "ends", "closed", "rs", "slotless"})
      BY <2>4, <2>6 DEF But
    <2>10. m.closed = k.closed /\ m.slotless = k.slotless
      BY <2>4, <2>6 DEF But, Fields
    <2>11. ASSUME NEW j \in ReqSlots PROVE SameSlot(k, m, j)
      <3>1. m.slot[j] = k.slot[j] \/ m.slot[j] = [k.slot[j] EXCEPT !.settled = TRUE]
        BY <1>1, <2>1, <2>4, <2>7
      <3>2. k.slot[j] \in Slot
        BY <1>1
      <3>q. QED  BY <3>1, <3>2 DEF SameSlot, Slot
    <2>12. Resets(k, s, m)
      <3>1. k.slot[i].done \/ ~ k.slot[i].done
        OBVIOUS
      <3>2. k.slot[i].done => m.rs = k.rs
        BY <2>5, <2>6 DEF r
      <3>3. ~ k.slot[i].done => m.rs = k.rs \cup {i}
        BY <2>5, <2>6 DEF r
      <3>q. QED  BY <2>1, <2>8, <2>9, <2>10, <2>11, <3>1, <3>2, <3>3 DEF Resets
    <2>q. QED  BY <2>12 DEF m
  <1>4. CASE s \notin k.closed /\ ~ HasSlot(k, s)
    <2> DEFINE n == wired_srvloop_slot_release(k, s)
               l == n.slotless + 1
               q == [n.qp EXCEPT ![s] = @ + 1]
    <2>1. m = [n EXCEPT !.slotless = l, !.qp[s] = @ + 1]
      BY <1>4 DEF reset_request_stream
    <2>2. Releases(k, s, n) /\ n \in Conns
      BY ReleaseIs, ReleaseKeeps
    <2> HIDE DEF m, n
    <2>3. \A j \in ReqSlots : ~ Owns(k, j, s)
      BY <1>4, FindsSlot
    <2>4. /\ But(k, n, {"slot", "ends", "closed"}) /\ n.closed = k.closed \cup {s}
          /\ \A j \in ReqSlots : n.slot[j] = k.slot[j]
      BY <2>2, <2>3 DEF Releases
    <2>5. n \in Conn /\ n.slotless = k.slotless /\ n.qp = k.qp /\ n.rs = k.rs
      BY <2>2, <2>4 DEF Conns, But, Fields
    <2>6. l \in Nat /\ q \in [Requests -> Nat] /\ n.qp \in [Requests -> Nat]
      <3>1. n.slotless \in Nat /\ n.qp \in [Requests -> Nat]
        BY <2>5 DEF Conn
      <3>q. QED  BY <3>1
    <2>7. m = [n EXCEPT !.slotless = l, !.qp = q]
      <3> HIDE DEF l
      <3>q. QED  BY <2>1, <2>5 DEF Conn
    <2>8. q[s] = 1 /\ \A t \in Requests \ {s} : q[t] = n.qp[t]
      <3>1. k.qp[s] = 0
        BY <1>0, <1>4, <2>3 DEF Told
      <3>q. QED  BY <2>5, <2>6, <3>1
    <2> HIDE DEF l, q
    <2>9. m \in Conn /\ But(n, m, {"slotless", "qp"}) /\ m.slotless = l /\ m.qp = q
      BY <2>5, <2>6, <2>7 DEF Conn, But, Fields
    <2>10. m.slot = n.slot /\ m.closed = n.closed /\ m.ends = n.ends /\ m.began = n.began
      BY <2>9 DEF But, Fields
    <2>11. Told(m)
      <3>0. Told(n) /\ \A j \in ReqSlots : n.slot[j].id \in Requests
        <4>1. Told(n) /\ n \in Conn
          BY <2>2 DEF Conns
        <4>q. QED  BY <4>1 DEF Conn, Slot
      <3>1. \A i, j \in ReqSlots : m.slot[i].use /\ Owns(m, j, m.slot[i].id) => i = j
        BY <2>10, <3>0 DEF Told, Owns
      <3>2. ASSUME NEW j \in ReqSlots
            PROVE  IF m.slot[j].use THEN SlotTold(m, j)
                   ELSE m.slot[j].got = {} /\ m.slot[j].body = "off"
        <4>1. CASE n.slot[j].use
          <5>1. SlotTold(n, j) /\ n.slot[j].id # s
            BY <2>4, <3>0, <4>1 DEF Told, SlotTold
          <5>q. QED  BY <2>8, <2>9, <2>10, <3>0, <4>1, <5>1 DEF SlotTold
        <4>2. CASE ~ n.slot[j].use
          BY <2>10, <3>0, <4>2 DEF Told
        <4>q. QED  BY <4>1, <4>2
      <3>3. \A t \in Requests \ m.closed : (\A j \in ReqSlots : ~ Owns(m, j, t)) =>
              m.qp[t] = 0 /\ m.ends[t] = 0 /\ ~ m.began[t]
        <4>1. ASSUME NEW t \in Requests \ m.closed, \A j \in ReqSlots : ~ Owns(m, j, t)
              PROVE  m.qp[t] = 0 /\ m.ends[t] = 0 /\ ~ m.began[t]
          <5>1. t # s
            BY <2>4, <2>10, <4>1
          <5>2. \A j \in ReqSlots : ~ Owns(n, j, t)
            BY <2>10, <4>1 DEF Owns
          <5>3. n.qp[t] = 0 /\ n.ends[t] = 0 /\ ~ n.began[t]
            BY <2>10, <3>0, <4>1, <5>2 DEF Told
          <5>q. QED  BY <2>8, <2>9, <2>10, <5>1, <5>3
        <4>q. QED  BY <4>1
      <3>4. ASSUME NEW t \in m.closed
            PROVE  /\ m.qp[t] <= 1 /\ m.ends[t] <= 1
                   /\ kind[t] = "get" /\ m.began[t] => m.ends[t] = 1
        <4>1. t \in Requests /\ t \in n.closed
          BY <2>9, <2>10 DEF Conn
        <4>2. m.qp[t] <= 1
          BY <2>8, <2>9, <3>0, <4>1 DEF Told
        <4>q. QED  BY <2>10, <3>0, <4>1, <4>2 DEF Told
      <3>q. QED  BY <3>1, <3>2, <3>3, <3>4 DEF Told
    <2>12. m \in Conns
      BY <2>9, <2>11 DEF Conns
    <2>13. But(k, m, {"slot", "qp", "ends", "closed", "rs", "slotless"}) /\ m.rs = k.rs
      BY <2>4, <2>5, <2>9 DEF But, Fields
    <2>14. \A j \in ReqSlots : SameSlot(k, m, j)
      BY <2>4, <2>10 DEF SameSlot
    <2>15. m.closed = k.closed \cup {s} /\ m.slotless = k.slotless + 1
      BY <2>4, <2>5, <2>9, <2>10 DEF l
    <2>16. Resets(k, s, m)
      BY <1>4, <2>3, <2>12, <2>13, <2>14, <2>15 DEF Resets
    <2>q. QED  BY <2>16 DEF m
  <1>q. QED  BY <1>2, <1>3, <1>4

\* srvloop_rearm: the slots of the lists may start over.
Rearms(k, m) ==
  /\ m \in Conns /\ But(k, m, {"slot"})
  /\ \A j \in ReqSlots :
       /\ m.slot[j].use = k.slot[j].use /\ m.slot[j].id = k.slot[j].id
       /\ m.slot[j].req = k.slot[j].req
       /\ \/ m.slot[j].got = k.slot[j].got /\ m.slot[j].done = k.slot[j].done
          \/ m.slot[j].got = {} /\ ~ m.slot[j].done

\* srvloop_rearm changes the bytes and the completion of slots only.
LEMMA RearmIs ==
  ASSUME NEW k \in Conns
  PROVE  Rearms(k, srvloop_rearm(k))
  <1> DEFINE m == srvloop_rearm(k)
             Over(i) == \/ i \in Range(k.done) /\ "tail" \in k.slot[i].got
                        \/ i \in Range(k.inc)
             a == [i \in ReqSlots |->
                    IF Over(i) THEN [k.slot[i] EXCEPT !.got = {}, !.done = FALSE] ELSE k.slot[i]]
  <1>0. k \in Conn /\ Told(k)
    BY DEF Conns
  <1>1. \A i \in ReqSlots : k.slot[i] \in Slot
    BY <1>0 DEF Conn
  <1>2. m = [k EXCEPT !.slot = a]
    BY DEF srvloop_rearm
  <1>3. ASSUME NEW i \in ReqSlots
        PROVE  /\ a[i] \in Slot
               /\ a[i].use = k.slot[i].use /\ a[i].id = k.slot[i].id /\ a[i].req = k.slot[i].req
               /\ a[i].body = k.slot[i].body /\ a[i].settled = k.slot[i].settled
               /\ \/ a[i].got = k.slot[i].got /\ a[i].done = k.slot[i].done
                  \/ a[i].got = {} /\ ~ a[i].done
    <2> HIDE DEF Over
    <2>1. CASE Over(i)
      <3>1. a[i] = [k.slot[i] EXCEPT !.got = {}, !.done = FALSE]
        BY <2>1
      <3> HIDE DEF a
      <3>q. QED  BY <1>1, <3>1 DEF Slot
    <2>2. CASE ~ Over(i)
      BY <1>1, <2>2
    <2>q. QED  BY <2>1, <2>2
  <1>4. a \in [ReqSlots -> Slot]
    <2>1. a = [i \in ReqSlots |-> a[i]]
      OBVIOUS
    <2> HIDE DEF a
    <2>q. QED  BY <1>3, <2>1
  <1> HIDE DEF a, m, Over
  <1>5. m \in Conn /\ But(k, m, {"slot"}) /\ m.slot = a
    BY <1>0, <1>2, <1>4 DEF Conn, But, Fields
  <1>6. m.closed = k.closed /\ m.qp = k.qp /\ m.ends = k.ends /\ m.began = k.began
    BY <1>5 DEF But, Fields
  <1>7. Told(m)
    <2>0. \A j \in ReqSlots : \A t : Owns(m, j, t) <=> Owns(k, j, t)
      BY <1>3, <1>5 DEF Owns
    <2>1. \A i, j \in ReqSlots : m.slot[i].use /\ Owns(m, j, m.slot[i].id) => i = j
      BY <1>0, <1>3, <1>5, <2>0 DEF Told
    <2>2. ASSUME NEW j \in ReqSlots
          PROVE  IF m.slot[j].use THEN SlotTold(m, j)
                 ELSE m.slot[j].got = {} /\ m.slot[j].body = "off"
      <3>1. IF k.slot[j].use THEN SlotTold(k, j) ELSE k.slot[j].got = {} /\ k.slot[j].body = "off"
        BY <1>0 DEF Told
      <3>q. QED  BY <1>3, <1>5, <1>6, <3>1 DEF SlotTold
    <2>3. \A t \in Requests \ m.closed : (\A j \in ReqSlots : ~ Owns(m, j, t)) =>
            m.qp[t] = 0 /\ m.ends[t] = 0 /\ ~ m.began[t]
      BY <1>0, <1>6, <2>0 DEF Told
    <2>4. \A t \in m.closed : /\ m.qp[t] <= 1 /\ m.ends[t] <= 1
                              /\ kind[t] = "get" /\ m.began[t] => m.ends[t] = 1
      BY <1>0, <1>6 DEF Told
    <2>q. QED  BY <2>1, <2>2, <2>3, <2>4 DEF Told
  <1>8. Rearms(k, m)
    BY <1>3, <1>5, <1>7 DEF Rearms, Conns
  <1>q. QED  BY <1>8 DEF m

\* srvloop_step_reset: the lists are empty.
Clears(k, m) ==
  /\ m \in Conns /\ But(k, m, {"done", "inc", "rs", "slotless", "owed", "touched"})
  /\ m.done = <<>> /\ m.inc = <<>> /\ m.rs = {} /\ m.slotless = 0 /\ m.owed = 0 /\ m.touched = {}

\* srvloop_step_reset clears the lists only.
LEMMA StepResetIs ==
  ASSUME NEW k \in Conns
  PROVE  Clears(k, srvloop_step_reset(k))
  <1> DEFINE m == srvloop_step_reset(k)
             e == <<>>
             z == 0
             o == {}
  <1>0. k \in Conn /\ e \in Seq(ReqSlots) /\ z \in Nat /\ o \in SUBSET ReqSlots
    BY DEF Conns
  <1>1. m = [k EXCEPT !.done = e, !.inc = e, !.rs = o, !.slotless = z, !.owed = z, !.touched = o]
    BY DEF srvloop_step_reset
  <1> HIDE DEF m, e, z, o
  <1>2. /\ m \in Conn /\ But(k, m, {"done", "inc", "rs", "slotless", "owed", "touched"})
        /\ m.done = e /\ m.inc = e /\ m.rs = o /\ m.slotless = z /\ m.owed = z /\ m.touched = o
    BY <1>0, <1>1 DEF Conn, But, Fields
  <1>3. /\ m.slot = k.slot /\ m.closed = k.closed /\ m.qp = k.qp /\ m.ends = k.ends
        /\ m.began = k.began
    BY <1>2 DEF But, Fields
  <1>4. m \in Conns
    BY <1>2, <1>3, ToldKept
  <1>5. Clears(k, m)
    BY <1>2, <1>4 DEF Clears, e, z, o
  <1>q. QED  BY <1>5 DEF m


-----------------------------------------------------------------------------
\* srvrun: what one call changes.

\* The fields F may change, the slots do not; or the stream s ends as well.
Kept(k, m, F) == m \in Conns /\ But(k, m, F)
Freed(k, s, m) ==
  /\ m.closed = k.closed \cup {s}
  /\ \A j \in ReqSlots : m.slot[j] = IF Owns(k, j, s) THEN Emptied(k.slot[j]) ELSE k.slot[j]
Moved(k, s, m, F) ==
  m \in Conns /\ But(k, m, F \cup {"slot", "ends", "closed"}) /\ Freed(k, s, m)

\* wired_srvloop_slot_release ends its stream and changes nothing else of srvrun's.
LEMMA ReleaseMoves ==
  ASSUME NEW k \in Conns, NEW s \in Requests
  PROVE  Moved(k, s, wired_srvloop_slot_release(k, s), {})
  <1> DEFINE m == wired_srvloop_slot_release(k, s)
  <1>1. m \in Conns /\ Releases(k, s, m)
    BY ReleaseKeeps, ReleaseIs
  <1> HIDE DEF m
  <1>2. Moved(k, s, m, {})
    BY <1>1 DEF Releases, Moved, Freed, But
  <1>q. QED  BY <1>2 DEF m

\* A change of fields and the end of a stream, one after the other.
LEMMA KeptThenMoved ==
  ASSUME NEW k, NEW n, NEW m, NEW s, NEW F, NEW G, "slot" \notin F, "closed" \notin F,
         Kept(k, n, F), Moved(n, s, m, G)
  PROVE  Moved(k, s, m, F \cup G)
  <1>1. n.slot = k.slot /\ n.closed = k.closed
    BY DEF Kept, But, Fields
  <1>2. But(k, m, (F \cup G) \cup {"slot", "ends", "closed"})
    BY DEF Kept, Moved, But
  <1>q. QED  BY <1>1, <1>2 DEF Moved, Freed, Owns

\* The end of a stream and then a change of fields.
LEMMA MovedThenKept ==
  ASSUME NEW k, NEW n, NEW m, NEW s, NEW F, NEW G, "slot" \notin G, "closed" \notin G,
         Moved(k, s, n, F), Kept(n, m, G)
  PROVE  Moved(k, s, m, F \cup G)
  <1>1. m.slot = n.slot /\ m.closed = n.closed
    BY DEF Kept, But, Fields
  <1>2. But(k, m, (F \cup G) \cup {"slot", "ends", "closed"})
    BY DEF Kept, Moved, But
  <1>3. m \in Conns
    BY DEF Kept
  <1>q. QED  BY <1>1, <1>2, <1>3 DEF Moved, Freed

\* Two changes of fields.
LEMMA KeptThenKept ==
  ASSUME NEW k, NEW n, NEW m, NEW F, NEW G, Kept(k, n, F), Kept(n, m, G)
  PROVE  Kept(k, m, F \cup G)
  BY DEF Kept, But

\* One field at a time: each of these changes gives a sound connection and leaves the
\* other fields alone.
SetSendDone(k, a) == [k EXCEPT !.sendDone = a]
LEMMA SetSendDoneIs ==
  ASSUME NEW k \in Conns, NEW a \in SUBSET Requests
  PROVE  /\ Kept(k, SetSendDone(k, a), {"sendDone"})
         /\ SetSendDone(k, a).sendDone = a
  <1> DEFINE m == SetSendDone(k, a)
  <1>0. k \in Conn
    BY DEF Conns
  <1>1. m = [k EXCEPT !.sendDone = a]
    BY DEF SetSendDone
  <1> HIDE DEF m
  <1>2. m \in Conn /\ But(k, m, {"sendDone"}) /\ m.sendDone = a
    BY <1>0, <1>1 DEF Conn, But, Fields
  <1>3. /\ m.slot = k.slot /\ m.closed = k.closed /\ m.qp = k.qp /\ m.ends = k.ends
        /\ m.began = k.began
    BY <1>2 DEF But, Fields
  <1>4. m \in Conns
    BY <1>2, <1>3, ToldKept
  <1>q. QED  BY <1>2, <1>4 DEF Kept, m

SetSilent(k, a, b) == [k EXCEPT !.sendDone = a, !.zero = b]
LEMMA SetSilentIs ==
  ASSUME NEW k \in Conns, NEW a \in SUBSET Requests, NEW b \in SUBSET Requests
  PROVE  /\ Kept(k, SetSilent(k, a, b), {"sendDone", "zero"})
         /\ SetSilent(k, a, b).sendDone = a /\ SetSilent(k, a, b).zero = b
  <1> DEFINE m == SetSilent(k, a, b)
  <1>0. k \in Conn
    BY DEF Conns
  <1>1. m = [k EXCEPT !.sendDone = a, !.zero = b]
    BY DEF SetSilent
  <1> HIDE DEF m
  <1>2. m \in Conn /\ But(k, m, {"sendDone", "zero"}) /\ m.sendDone = a /\ m.zero = b
    BY <1>0, <1>1 DEF Conn, But, Fields
  <1>3. /\ m.slot = k.slot /\ m.closed = k.closed /\ m.qp = k.qp /\ m.ends = k.ends
        /\ m.began = k.began
    BY <1>2 DEF But, Fields
  <1>4. m \in Conns
    BY <1>2, <1>3, ToldKept
  <1>q. QED  BY <1>2, <1>4 DEF Kept, m

SetSess(k, a) == [k EXCEPT !.sess = a]
LEMMA SetSessIs ==
  ASSUME NEW k \in Conns, NEW a \in SUBSET Requests
  PROVE  /\ Kept(k, SetSess(k, a), {"sess"})
         /\ SetSess(k, a).sess = a
  <1> DEFINE m == SetSess(k, a)
  <1>0. k \in Conn
    BY DEF Conns
  <1>1. m = [k EXCEPT !.sess = a]
    BY DEF SetSess
  <1> HIDE DEF m
  <1>2. m \in Conn /\ But(k, m, {"sess"}) /\ m.sess = a
    BY <1>0, <1>1 DEF Conn, But, Fields
  <1>3. /\ m.slot = k.slot /\ m.closed = k.closed /\ m.qp = k.qp /\ m.ends = k.ends
        /\ m.began = k.began
    BY <1>2 DEF But, Fields
  <1>4. m \in Conns
    BY <1>2, <1>3, ToldKept
  <1>q. QED  BY <1>2, <1>4 DEF Kept, m

SetResp(k, a) == [k EXCEPT !.resp = a]
LEMMA SetRespIs ==
  ASSUME NEW k \in Conns, NEW a \in [Requests -> Request]
  PROVE  /\ Kept(k, SetResp(k, a), {"resp"})
         /\ SetResp(k, a).resp = a
  <1> DEFINE m == SetResp(k, a)
  <1>0. k \in Conn
    BY DEF Conns
  <1>1. m = [k EXCEPT !.resp = a]
    BY DEF SetResp
  <1> HIDE DEF m
  <1>2. m \in Conn /\ But(k, m, {"resp"}) /\ m.resp = a
    BY <1>0, <1>1 DEF Conn, But, Fields
  <1>3. /\ m.slot = k.slot /\ m.closed = k.closed /\ m.qp = k.qp /\ m.ends = k.ends
        /\ m.began = k.began
    BY <1>2 DEF But, Fields
  <1>4. m \in Conns
    BY <1>2, <1>3, ToldKept
  <1>q. QED  BY <1>2, <1>4 DEF Kept, m

SetAcked(k, a, b) == [k EXCEPT !.resp = a, !.early = b]
LEMMA SetAckedIs ==
  ASSUME NEW k \in Conns, NEW a \in [Requests -> Request], NEW b \in SUBSET Requests
  PROVE  /\ Kept(k, SetAcked(k, a, b), {"resp", "early"})
         /\ SetAcked(k, a, b).resp = a /\ SetAcked(k, a, b).early = b
  <1> DEFINE m == SetAcked(k, a, b)
  <1>0. k \in Conn
    BY DEF Conns
  <1>1. m = [k EXCEPT !.resp = a, !.early = b]
    BY DEF SetAcked
  <1> HIDE DEF m
  <1>2. m \in Conn /\ But(k, m, {"resp", "early"}) /\ m.resp = a /\ m.early = b
    BY <1>0, <1>1 DEF Conn, But, Fields
  <1>3. /\ m.slot = k.slot /\ m.closed = k.closed /\ m.qp = k.qp /\ m.ends = k.ends
        /\ m.began = k.began
    BY <1>2 DEF But, Fields
  <1>4. m \in Conns
    BY <1>2, <1>3, ToldKept
  <1>q. QED  BY <1>2, <1>4 DEF Kept, m

SetAnswer(k, a, b) == [k EXCEPT !.resp = a, !.ans = b]
LEMMA SetAnswerIs ==
  ASSUME NEW k \in Conns, NEW a \in [Requests -> Request], NEW b \in [Requests -> Seq(Request)]
  PROVE  /\ Kept(k, SetAnswer(k, a, b), {"resp", "ans"})
         /\ SetAnswer(k, a, b).resp = a /\ SetAnswer(k, a, b).ans = b
  <1> DEFINE m == SetAnswer(k, a, b)
  <1>0. k \in Conn
    BY DEF Conns
  <1>1. m = [k EXCEPT !.resp = a, !.ans = b]
    BY DEF SetAnswer
  <1> HIDE DEF m
  <1>2. m \in Conn /\ But(k, m, {"resp", "ans"}) /\ m.resp = a /\ m.ans = b
    BY <1>0, <1>1 DEF Conn, But, Fields
  <1>3. /\ m.slot = k.slot /\ m.closed = k.closed /\ m.qp = k.qp /\ m.ends = k.ends
        /\ m.began = k.began
    BY <1>2 DEF But, Fields
  <1>4. m \in Conns
    BY <1>2, <1>3, ToldKept
  <1>q. QED  BY <1>2, <1>4 DEF Kept, m

SetHeld(k, a) == [k EXCEPT !.held = a]
LEMMA SetHeldIs ==
  ASSUME NEW k \in Conns, NEW a \in [ReqSlots -> Request]
  PROVE  /\ Kept(k, SetHeld(k, a), {"held"})
         /\ SetHeld(k, a).held = a
  <1> DEFINE m == SetHeld(k, a)
  <1>0. k \in Conn
    BY DEF Conns
  <1>1. m = [k EXCEPT !.held = a]
    BY DEF SetHeld
  <1> HIDE DEF m
  <1>2. m \in Conn /\ But(k, m, {"held"}) /\ m.held = a
    BY <1>0, <1>1 DEF Conn, But, Fields
  <1>3. /\ m.slot = k.slot /\ m.closed = k.closed /\ m.qp = k.qp /\ m.ends = k.ends
        /\ m.began = k.began
    BY <1>2 DEF But, Fields
  <1>4. m \in Conns
    BY <1>2, <1>3, ToldKept
  <1>q. QED  BY <1>2, <1>4 DEF Kept, m

SetUnpaid(k, a) == [k EXCEPT !.unpaid = a]
LEMMA SetUnpaidIs ==
  ASSUME NEW k \in Conns, NEW a \in SUBSET Requests
  PROVE  /\ Kept(k, SetUnpaid(k, a), {"unpaid"})
         /\ SetUnpaid(k, a).unpaid = a
  <1> DEFINE m == SetUnpaid(k, a)
  <1>0. k \in Conn
    BY DEF Conns
  <1>1. m = [k EXCEPT !.unpaid = a]
    BY DEF SetUnpaid
  <1> HIDE DEF m
  <1>2. m \in Conn /\ But(k, m, {"unpaid"}) /\ m.unpaid = a
    BY <1>0, <1>1 DEF Conn, But, Fields
  <1>3. /\ m.slot = k.slot /\ m.closed = k.closed /\ m.qp = k.qp /\ m.ends = k.ends
        /\ m.began = k.began
    BY <1>2 DEF But, Fields
  <1>4. m \in Conns
    BY <1>2, <1>3, ToldKept
  <1>q. QED  BY <1>2, <1>4 DEF Kept, m

SetBusy(k, a) == [k EXCEPT !.busy = a]
LEMMA SetBusyIs ==
  ASSUME NEW k \in Conns, NEW a \in SUBSET Requests
  PROVE  /\ Kept(k, SetBusy(k, a), {"busy"})
         /\ SetBusy(k, a).busy = a
  <1> DEFINE m == SetBusy(k, a)
  <1>0. k \in Conn
    BY DEF Conns
  <1>1. m = [k EXCEPT !.busy = a]
    BY DEF SetBusy
  <1> HIDE DEF m
  <1>2. m \in Conn /\ But(k, m, {"busy"}) /\ m.busy = a
    BY <1>0, <1>1 DEF Conn, But, Fields
  <1>3. /\ m.slot = k.slot /\ m.closed = k.closed /\ m.qp = k.qp /\ m.ends = k.ends
        /\ m.began = k.began
    BY <1>2 DEF But, Fields
  <1>4. m \in Conns
    BY <1>2, <1>3, ToldKept
  <1>q. QED  BY <1>2, <1>4 DEF Kept, m

SetLimit(k, a, b) == [k EXCEPT !.limit = a, !.retries = b]
LEMMA SetLimitIs ==
  ASSUME NEW k \in Conns, NEW a \in Nat, NEW b \in Nat
  PROVE  /\ Kept(k, SetLimit(k, a, b), {"limit", "retries"})
         /\ SetLimit(k, a, b).limit = a /\ SetLimit(k, a, b).retries = b
  <1> DEFINE m == SetLimit(k, a, b)
  <1>0. k \in Conn
    BY DEF Conns
  <1>1. m = [k EXCEPT !.limit = a, !.retries = b]
    BY DEF SetLimit
  <1> HIDE DEF m
  <1>2. m \in Conn /\ But(k, m, {"limit", "retries"}) /\ m.limit = a /\ m.retries = b
    BY <1>0, <1>1 DEF Conn, But, Fields
  <1>3. /\ m.slot = k.slot /\ m.closed = k.closed /\ m.qp = k.qp /\ m.ends = k.ends
        /\ m.began = k.began
    BY <1>2 DEF But, Fields
  <1>4. m \in Conns
    BY <1>2, <1>3, ToldKept
  <1>q. QED  BY <1>2, <1>4 DEF Kept, m

SetSettings(k, a) == [k EXCEPT !.settings = a]
LEMMA SetSettingsIs ==
  ASSUME NEW k \in Conns, NEW a \in BOOLEAN
  PROVE  /\ Kept(k, SetSettings(k, a), {"settings"})
         /\ SetSettings(k, a).settings = a
  <1> DEFINE m == SetSettings(k, a)
  <1>0. k \in Conn
    BY DEF Conns
  <1>1. m = [k EXCEPT !.settings = a]
    BY DEF SetSettings
  <1> HIDE DEF m
  <1>2. m \in Conn /\ But(k, m, {"settings"}) /\ m.settings = a
    BY <1>0, <1>1 DEF Conn, But, Fields
  <1>3. /\ m.slot = k.slot /\ m.closed = k.closed /\ m.qp = k.qp /\ m.ends = k.ends
        /\ m.began = k.began
    BY <1>2 DEF But, Fields
  <1>4. m \in Conns
    BY <1>2, <1>3, ToldKept
  <1>q. QED  BY <1>2, <1>4 DEF Kept, m

SetGoaway(k, a) == [k EXCEPT !.goaway = a]
LEMMA SetGoawayIs ==
  ASSUME NEW k \in Conns, NEW a \in Nat \cup {Nil}
  PROVE  /\ Kept(k, SetGoaway(k, a), {"goaway"})
         /\ SetGoaway(k, a).goaway = a
  <1> DEFINE m == SetGoaway(k, a)
  <1>0. k \in Conn
    BY DEF Conns
  <1>1. m = [k EXCEPT !.goaway = a]
    BY DEF SetGoaway
  <1> HIDE DEF m
  <1>2. m \in Conn /\ But(k, m, {"goaway"}) /\ m.goaway = a
    BY <1>0, <1>1 DEF Conn, But, Fields
  <1>3. /\ m.slot = k.slot /\ m.closed = k.closed /\ m.qp = k.qp /\ m.ends = k.ends
        /\ m.began = k.began
    BY <1>2 DEF But, Fields
  <1>4. m \in Conns
    BY <1>2, <1>3, ToldKept
  <1>q. QED  BY <1>2, <1>4 DEF Kept, m

SetRetries(k, a) == [k EXCEPT !.retries = a]
LEMMA SetRetriesIs ==
  ASSUME NEW k \in Conns, NEW a \in Nat
  PROVE  /\ Kept(k, SetRetries(k, a), {"retries"})
         /\ SetRetries(k, a).retries = a
  <1> DEFINE m == SetRetries(k, a)
  <1>0. k \in Conn
    BY DEF Conns
  <1>1. m = [k EXCEPT !.retries = a]
    BY DEF SetRetries
  <1> HIDE DEF m
  <1>2. m \in Conn /\ But(k, m, {"retries"}) /\ m.retries = a
    BY <1>0, <1>1 DEF Conn, But, Fields
  <1>3. /\ m.slot = k.slot /\ m.closed = k.closed /\ m.qp = k.qp /\ m.ends = k.ends
        /\ m.began = k.began
    BY <1>2 DEF But, Fields
  <1>4. m \in Conns
    BY <1>2, <1>3, ToldKept
  <1>q. QED  BY <1>2, <1>4 DEF Kept, m

\* The types of a connection's fields.
LEMMA ConnTyped ==
  ASSUME NEW k \in Conns
  PROVE  /\ k.sendDone \in SUBSET Requests /\ k.zero \in SUBSET Requests
         /\ k.sess \in SUBSET Requests /\ k.unpaid \in SUBSET Requests
         /\ k.busy \in SUBSET Requests /\ k.early \in SUBSET Requests
         /\ k.closed \in SUBSET Requests /\ k.rs \in SUBSET ReqSlots
         /\ k.limit \in Nat /\ k.slotless \in Nat /\ k.owed \in Nat /\ k.next \in Nat
         /\ k.resp \in [Requests -> Request] /\ k.held \in [ReqSlots -> Request]
         /\ k.ans \in [Requests -> Seq(Request)]
         /\ k.done \in Seq(ReqSlots) /\ k.inc \in Seq(ReqSlots)
         /\ k.slot \in [ReqSlots -> Slot] /\ k.settings \in BOOLEAN
         /\ k.goaway \in Nat \cup {Nil} /\ k.retries \in Nat
         /\ \A i \in ReqSlots : k.slot[i].id \in Requests /\ k.slot[i].req \in Request
  <1>1. k \in Conn
    BY DEF Conns
  <1>2. k.slot \in [ReqSlots -> Slot]
    BY <1>1 DEF Conn
  <1>3. \A i \in ReqSlots : k.slot[i].id \in Requests /\ k.slot[i].req \in Request
    BY <1>2 DEF Slot
  <1>q. QED  BY <1>1, <1>3 DEF Conn

\* srvrun_grant_streams.
Grants(k, n, m) == Kept(k, m, {"limit", "retries"}) /\ m.limit = k.limit + n

\* srvrun_grant_streams raises the limit by n.
LEMMA GrantIs ==
  ASSUME NEW k \in Conns, NEW n \in Nat
  PROVE  Grants(k, n, srvrun_grant_streams(k, n))
  <1> DEFINE m == srvrun_grant_streams(k, n)
             l == k.limit + n
  <1>0. k.limit \in Nat /\ l \in Nat /\ Retries \in Nat
    BY ConnTyped, ReqAssumption
  <1>1. CASE n = 0
    <2>1. m = k
      BY <1>1 DEF srvrun_grant_streams
    <2> HIDE DEF m
    <2>2. Grants(k, n, m)
      BY <1>0, <1>1, <2>1 DEF Grants, Kept, But
    <2>q. QED  BY <2>2 DEF m
  <1>2. CASE n # 0
    <2>1. m = SetLimit(k, l, Retries)
      BY <1>2 DEF srvrun_grant_streams, SetLimit
    <2> HIDE DEF m, l
    <2>2. Kept(k, m, {"limit", "retries"}) /\ m.limit = l
      BY <1>0, <2>1, SetLimitIs
    <2>q. QED  BY <2>2 DEF Grants, m, l
  <1>q. QED  BY <1>1, <1>2

\* send_wt_busy_reset.
Mutes(k, s, m) ==
  /\ m.sendDone = k.sendDone \cup {s}
  /\ m.zero = IF s \in k.sendDone THEN k.zero ELSE k.zero \cup {s}
\* A stream's send side ends, by a reset of final size 0 if it was open.
Silences(k, s, m) == Kept(k, m, {"sendDone", "zero"}) /\ Mutes(k, s, m)

\* send_wt_busy_reset is Silences.
LEMMA SilenceIs ==
  ASSUME NEW k \in Conns, NEW s \in Requests
  PROVE  Silences(k, s, send_wt_busy_reset(k, s))
  <1> DEFINE m == send_wt_busy_reset(k, s)
             a == k.sendDone \cup {s}
             b == IF s \in k.sendDone THEN k.zero ELSE k.zero \cup {s}
  <1>1. a \in SUBSET Requests /\ b \in SUBSET Requests
    BY ConnTyped
  <1>2. m = SetSilent(k, a, b)
    BY DEF send_wt_busy_reset, SetSilent
  <1> HIDE DEF m, a, b
  <1>3. Kept(k, m, {"sendDone", "zero"}) /\ m.sendDone = a /\ m.zero = b
    BY <1>1, <1>2, SetSilentIs
  <1>q. QED  BY <1>3 DEF Silences, Mutes, m, a, b

\* The stream s ends: F may change, p credits are given.
Ends(k, s, m, F, p) ==
  Moved(k, s, m, F \cup {"limit", "retries"}) /\ m.limit = k.limit + p

\* A stream that is released and paid for.
LEMMA PaidIs ==
  ASSUME NEW k \in Conns, NEW s \in Requests
  PROVE  Ends(k, s, srvrun_grant_streams(wired_srvloop_slot_release(k, s), 1), {}, 1)
  <1> DEFINE n == wired_srvloop_slot_release(k, s)
             m == srvrun_grant_streams(n, 1)
  <1>1. Moved(k, s, n, {})
    BY ReleaseMoves
  <1> HIDE DEF n
  <1>2. n \in Conns /\ n.limit = k.limit
    BY <1>1 DEF Moved, But, Fields
  <1>3. Grants(n, 1, m)
    BY <1>2, GrantIs
  <1> HIDE DEF m
  <1>4. Kept(n, m, {"limit", "retries"}) /\ m.limit = k.limit + 1
    BY <1>2, <1>3 DEF Grants
  <1>5. Moved(k, s, m, {} \cup {"limit", "retries"})
    BY <1>1, <1>4, MovedThenKept
  <1>6. Ends(k, s, m, {}, 1)
    BY <1>4, <1>5 DEF Ends
  <1>q. QED  BY <1>6 DEF m, n

\* close_wt_session_slot.
Closes(k, s, m) ==
  /\ Moved(k, s, m, {"sess", "sendDone"}) /\ m.sess = k.sess \ {s}
  /\ m.sendDone \in {k.sendDone, k.sendDone \cup {s}}

\* close_wt_session_slot ends the session and its CONNECT's stream.
LEMMA CloseIs ==
  ASSUME NEW k \in Conns, NEW s \in Requests
  PROVE  Closes(k, s, close_wt_session_slot(k, s))
  <1> DEFINE n == wired_srvloop_slot_release(k, s)
             a == n.sess \ {s}
             m == close_wt_session_slot(k, s)
  <1>1. Moved(k, s, n, {}) /\ m = SetSess(n, a)
    BY ReleaseMoves DEF close_wt_session_slot, SetSess
  <1> HIDE DEF n, m
  <1>2. n \in Conns /\ n.sess = k.sess /\ n.sendDone = k.sendDone
    BY <1>1 DEF Moved, But, Fields
  <1>3. a \in SUBSET Requests
    BY <1>2, ConnTyped
  <1> HIDE DEF a
  <1>4. Kept(n, m, {"sess"}) /\ m.sess = a
    BY <1>1, <1>2, <1>3, SetSessIs
  <1>5. Moved(k, s, m, {} \cup {"sess"})
    BY <1>1, <1>4, MovedThenKept
  <1>6. m.sendDone = k.sendDone
    BY <1>5 DEF Moved, But, Fields
  <1>7. Moved(k, s, m, {"sess", "sendDone"})
    BY <1>5 DEF Moved, But
  <1>8. Closes(k, s, m)
    BY <1>2, <1>4, <1>6, <1>7 DEF Closes, a
  <1>q. QED  BY <1>8 DEF m

\* answer_stream_stop for a session (srvrun_connect_stop).
LEMMA StopSessionIs ==
  ASSUME NEW k \in Conns, NEW s \in Requests
  PROVE  Closes(k, s, close_wt_session_slot([k EXCEPT !.sendDone = @ \cup {s}], s))
  <1> DEFINE a == k.sendDone \cup {s}
             n == SetSendDone(k, a)
             m == close_wt_session_slot(n, s)
  <1>1. m = close_wt_session_slot([k EXCEPT !.sendDone = @ \cup {s}], s)
    BY DEF SetSendDone
  <1>2. a \in SUBSET Requests
    BY ConnTyped
  <1> HIDE DEF a, n
  <1>3. Kept(k, n, {"sendDone"}) /\ n.sendDone = a
    BY <1>2, SetSendDoneIs DEF n
  <1>4. n \in Conns /\ n.sess = k.sess
    BY <1>3 DEF Kept, But, Fields
  <1>5. Closes(n, s, m)
    BY <1>4, CloseIs
  <1> HIDE DEF m
  <1>6. Moved(n, s, m, {"sess", "sendDone"}) /\ m.sess = k.sess \ {s} /\ m.sendDone = a
    BY <1>3, <1>4, <1>5 DEF Closes, a
  <1>7. Moved(k, s, m, {"sendDone"} \cup {"sess", "sendDone"})
    BY <1>3, <1>6, KeptThenMoved
  <1>8. Moved(k, s, m, {"sess", "sendDone"})
    BY <1>7 DEF Moved, But
  <1>9. Closes(k, s, m)
    BY <1>6, <1>8 DEF Closes, a
  <1>q. QED  BY <1>1, <1>9

\* srvrun_resp_release_stream for a response whose stream is no session.
LEMMA ReleaseStreamIs ==
  ASSUME NEW k \in Conns, NEW s \in Requests, s \notin k.sess
  PROVE  LET m == srvrun_resp_release_stream(k, s) IN
         Moved(k, s, m, {"sendDone"}) /\ m.sendDone = k.sendDone \cup {s}
  <1> DEFINE n == wired_srvloop_slot_release(k, s)
             a == n.sendDone \cup {s}
             m == srvrun_resp_release_stream(k, s)
  <1>1. Moved(k, s, n, {}) /\ m = SetSendDone(n, a)
    BY ReleaseMoves DEF srvrun_resp_release_stream, SetSendDone
  <1> HIDE DEF n, m
  <1>2. n \in Conns /\ n.sendDone = k.sendDone
    BY <1>1 DEF Moved, But, Fields
  <1>3. a \in SUBSET Requests
    BY <1>2, ConnTyped
  <1> HIDE DEF a
  <1>4. Kept(n, m, {"sendDone"}) /\ m.sendDone = a
    BY <1>1, <1>2, <1>3, SetSendDoneIs
  <1>5. Moved(k, s, m, {} \cup {"sendDone"})
    BY <1>1, <1>4, MovedThenKept
  <1>6. Moved(k, s, m, {"sendDone"})
    BY <1>5 DEF Moved, But
  <1>q. QED  BY <1>2, <1>4, <1>6 DEF m, a

\* A response that is over, with its stream.
Finishes(k, s, m) ==
  /\ Ends(k, s, m, {"resp", "sendDone", "early"}, 1) /\ m.early = k.early
  /\ m.resp = [k.resp EXCEPT ![s] = Nil] /\ m.sendDone = k.sendDone \cup {s}

\* answer_stream_stop for a response in flight (srvrun_resp_stop).
LEMMA StopResponseIs ==
  ASSUME NEW k \in Conns, NEW s \in Requests, s \notin k.sess
  PROVE  Finishes(k, s, srvrun_grant_streams(
                          srvrun_resp_release_stream([k EXCEPT !.resp[s] = Nil], s), 1))
  <1> DEFINE a == [k.resp EXCEPT ![s] = Nil]
             n == SetResp(k, a)
             r == srvrun_resp_release_stream(n, s)
             m == srvrun_grant_streams(r, 1)
  <1>0. k \in Conn /\ a \in [Requests -> Request]
    BY ConnTyped DEF Request, Conns
  <1>1. n = [k EXCEPT !.resp[s] = Nil]
    BY <1>0 DEF SetResp, Conn
  <1> HIDE DEF a, n
  <1>2. Kept(k, n, {"resp"}) /\ n.resp = a
    BY <1>0, SetRespIs DEF n
  <1>3. n \in Conns /\ n.sess = k.sess /\ n.sendDone = k.sendDone
    BY <1>2 DEF Kept, But, Fields
  <1>4. Moved(n, s, r, {"sendDone"}) /\ r.sendDone = k.sendDone \cup {s}
    BY <1>3, ReleaseStreamIs
  <1> HIDE DEF r
  <1>5. Moved(k, s, r, {"resp"} \cup {"sendDone"})
    BY <1>2, <1>4, KeptThenMoved
  <1>6. r \in Conns /\ r.limit = k.limit
    BY <1>5 DEF Moved, But, Fields
  <1>7. Grants(r, 1, m)
    BY <1>6, GrantIs
  <1> HIDE DEF m
  <1>8. Kept(r, m, {"limit", "retries"}) /\ m.limit = k.limit + 1
    BY <1>6, <1>7 DEF Grants
  <1>9. Moved(k, s, m, ({"resp"} \cup {"sendDone"}) \cup {"limit", "retries"})
    BY <1>5, <1>8, MovedThenKept
  <1>10. Moved(k, s, m, {"resp", "sendDone", "early"} \cup {"limit", "retries"})
    BY <1>9 DEF Moved, But
  <1>11. m.early = k.early
    BY <1>9 DEF Moved, But, Fields
  <1>12. m.resp = a
    <2>1. r.resp = n.resp
      BY <1>4 DEF Moved, But, Fields
    <2>2. m.resp = r.resp
      BY <1>8 DEF Kept, But, Fields
    <2>q. QED  BY <1>2, <2>1, <2>2
  <1>13. m.sendDone = r.sendDone
    BY <1>8 DEF Kept, But, Fields
  <1>14. Finishes(k, s, m)
    BY <1>4, <1>8, <1>10, <1>11, <1>12, <1>13 DEF Finishes, Ends, a
  <1>q. QED  BY <1>1, <1>14 DEF m, r

\* The 200 of a session is acknowledged, and its credit comes.
Acks(k, s, m) ==
  /\ Kept(k, m, {"resp", "early", "limit", "retries"}) /\ m.limit = k.limit + 1
  /\ m.resp = [k.resp EXCEPT ![s] = Nil] /\ m.early = k.early \cup {s}

\* srvrun_resp_reap ends the answer, and the stream unless a session keeps it.
LEMMA ReapIs ==
  ASSUME NEW k \in Conns, NEW s \in Requests
  PROVE  IF s \in k.sess THEN Acks(k, s, srvrun_resp_reap(k, s))
         ELSE Finishes(k, s, srvrun_resp_reap(k, s))
  <1> DEFINE r == srvrun_resp_release_stream(k, s)
             a == [r.resp EXCEPT ![s] = Nil]
             e == IF s \in k.sess THEN r.early \cup {s} ELSE r.early
             n == SetAcked(r, a, e)
             m == srvrun_grant_streams(n, 1)
  <1>1. CASE s \in k.sess
    <2>1. r = k
      BY <1>1 DEF srvrun_resp_release_stream
    <2>2. k \in Conn /\ a \in [Requests -> Request] /\ e \in SUBSET Requests
      BY <2>1, ConnTyped DEF Request, Conns
    <2>3. srvrun_resp_reap(k, s) = m
      <3> HIDE DEF r
      <3>1. [r EXCEPT !.resp[s] = Nil, !.early = IF s \in k.sess THEN @ \cup {s} ELSE @] = n
        BY <2>1, <2>2 DEF SetAcked, Conn
      <3>q. QED  BY <3>1 DEF srvrun_resp_reap, r
    <2> HIDE DEF r, a, e, n
    <2>4. Kept(k, n, {"resp", "early"}) /\ n.resp = a /\ n.early = e
      BY <2>1, <2>2, SetAckedIs DEF n
    <2>5. n \in Conns /\ n.limit = k.limit
      BY <2>4 DEF Kept, But, Fields
    <2>6. Grants(n, 1, m)
      BY <2>5, GrantIs
    <2> HIDE DEF m
    <2>7. Kept(n, m, {"limit", "retries"}) /\ m.limit = k.limit + 1
      BY <2>5, <2>6 DEF Grants
    <2>8. m.resp = a /\ m.early = e
      BY <2>4, <2>7 DEF Kept, But, Fields
    <2>9. Kept(k, m, {"resp", "early"} \cup {"limit", "retries"})
      BY <2>4, <2>7, KeptThenKept
    <2>10. Kept(k, m, {"resp", "early", "limit", "retries"})
      BY <2>9 DEF Kept, But
    <2>11. Acks(k, s, m)
      BY <1>1, <2>1, <2>7, <2>8, <2>10 DEF Acks, a, e
    <2>q. QED  BY <1>1, <2>3, <2>11
  <1>2. CASE s \notin k.sess
    <2>1. Moved(k, s, r, {"sendDone"}) /\ r.sendDone = k.sendDone \cup {s}
      BY <1>2, ReleaseStreamIs
    <2>2. r \in Conns /\ r.resp = k.resp /\ r.early = k.early /\ r.limit = k.limit
      <3> HIDE DEF r
      <3>q. QED  BY <2>1 DEF Moved, But, Fields
    <2>3. r \in Conn /\ a \in [Requests -> Request] /\ e \in SUBSET Requests
      <3> HIDE DEF r
      <3>q. QED  BY <2>2, ConnTyped DEF Request, Conns
    <2>4. srvrun_resp_reap(k, s) = m
      <3> HIDE DEF r
      <3>1. [r EXCEPT !.resp[s] = Nil, !.early = IF s \in k.sess THEN @ \cup {s} ELSE @] = n
        BY <2>3 DEF SetAcked, Conn
      <3>q. QED  BY <3>1 DEF srvrun_resp_reap, r
    <2> HIDE DEF r, a, e, n
    <2>5. Kept(r, n, {"resp", "early"}) /\ n.resp = a /\ n.early = e
      BY <2>2, <2>3, SetAckedIs DEF n
    <2>6. n \in Conns /\ n.limit = k.limit /\ n.sendDone = r.sendDone
      BY <2>2, <2>5 DEF Kept, But, Fields
    <2>7. Grants(n, 1, m)
      BY <2>6, GrantIs
    <2> HIDE DEF m
    <2>8. Kept(n, m, {"limit", "retries"}) /\ m.limit = k.limit + 1
      BY <2>6, <2>7 DEF Grants
    <2>9. m.resp = a /\ m.early = e /\ m.sendDone = n.sendDone
      BY <2>5, <2>8 DEF Kept, But, Fields
    <2>10. Moved(k, s, n, {"sendDone"} \cup {"resp", "early"})
      BY <2>1, <2>5, MovedThenKept
    <2>11. Moved(k, s, m, ({"sendDone"} \cup {"resp", "early"}) \cup {"limit", "retries"})
      BY <2>8, <2>10, MovedThenKept
    <2>12. Moved(k, s, m, {"resp", "sendDone", "early"} \cup {"limit", "retries"})
      BY <2>11 DEF Moved, But
    <2>13. Finishes(k, s, m)
      BY <1>2, <2>1, <2>2, <2>6, <2>8, <2>9, <2>12 DEF Finishes, Ends, a, e
    <2>q. QED  BY <1>2, <2>4, <2>13
  <1>q. QED  BY <1>1, <1>2

\* A request that ends without a response: its send side is reset.
Cancels(k, s, m) == Ends(k, s, m, {"sendDone", "zero"}, 1) /\ Mutes(k, s, m)

\* answer_stream_stop for a request not answered yet (srvrun_req_stop).
LEMMA CancelIs ==
  ASSUME NEW k \in Conns, NEW s \in Requests
  PROVE  Cancels(k, s, srvrun_grant_streams(
                         wired_srvloop_slot_release(send_wt_busy_reset(k, s), s), 1))
  <1> DEFINE n == send_wt_busy_reset(k, s)
             m == srvrun_grant_streams(wired_srvloop_slot_release(n, s), 1)
  <1>1. Silences(k, s, n)
    BY SilenceIs
  <1> HIDE DEF n
  <1>2. Kept(k, n, {"sendDone", "zero"}) /\ n \in Conns
    BY <1>1 DEF Silences, Kept
  <1>3. Ends(n, s, m, {}, 1)
    BY <1>2, PaidIs
  <1> HIDE DEF m
  <1>4. Moved(n, s, m, {} \cup {"limit", "retries"}) /\ m.limit = n.limit + 1
    BY <1>3 DEF Ends
  <1>5. Moved(k, s, m, {"sendDone", "zero"} \cup ({} \cup {"limit", "retries"}))
    BY <1>2, <1>4, KeptThenMoved
  <1>6. Moved(k, s, m, {"sendDone", "zero"} \cup {"limit", "retries"})
    BY <1>5 DEF Moved, But
  <1>7. n.limit = k.limit
    BY <1>2 DEF Kept, But, Fields
  <1>8. m.sendDone = n.sendDone /\ m.zero = n.zero
    BY <1>4 DEF Moved, But, Fields
  <1>9. Cancels(k, s, m)
    BY <1>1, <1>4, <1>6, <1>7, <1>8 DEF Cancels, Ends, Silences, Mutes
  <1>q. QED  BY <1>9 DEF m, n

\* A request that is refused: the send side is reset, and no credit comes.
Refuses(k, s, m) ==
  /\ Moved(k, s, m, {"sendDone", "zero", "unpaid"}) /\ Mutes(k, s, m)
  /\ m.unpaid = k.unpaid \cup {s}

\* A stream refused without a credit: past the GOAWAY, or a malformed CONNECT.
LEMMA RefuseIs ==
  ASSUME NEW k \in Conns, NEW s \in Requests
  PROVE  Refuses(k, s, [wired_srvloop_slot_release(send_wt_busy_reset(k, s), s) EXCEPT
                          !.unpaid = @ \cup {s}])
  <1> DEFINE n == send_wt_busy_reset(k, s)
             r == wired_srvloop_slot_release(n, s)
             a == r.unpaid \cup {s}
             m == SetUnpaid(r, a)
  <1>1. Silences(k, s, n)
    BY SilenceIs
  <1> HIDE DEF n
  <1>2. Kept(k, n, {"sendDone", "zero"}) /\ n \in Conns
    BY <1>1 DEF Silences, Kept
  <1>3. Moved(n, s, r, {})
    BY <1>2, ReleaseMoves
  <1> HIDE DEF r
  <1>4. r \in Conns /\ r.sendDone = n.sendDone /\ r.zero = n.zero /\ r.unpaid = k.unpaid
    BY <1>2, <1>3 DEF Moved, Kept, But, Fields
  <1>5. a \in SUBSET Requests
    BY <1>4, ConnTyped
  <1> HIDE DEF a, m
  <1>6. Kept(r, m, {"unpaid"}) /\ m.unpaid = a
    BY <1>4, <1>5, SetUnpaidIs DEF m
  <1>7. Moved(k, s, r, {"sendDone", "zero"} \cup {})
    BY <1>2, <1>3, KeptThenMoved
  <1>8. Moved(k, s, m, ({"sendDone", "zero"} \cup {}) \cup {"unpaid"})
    BY <1>6, <1>7, MovedThenKept
  <1>9. Moved(k, s, m, {"sendDone", "zero", "unpaid"})
    BY <1>8 DEF Moved, But
  <1>10. m.sendDone = n.sendDone /\ m.zero = n.zero
    BY <1>4, <1>6 DEF Kept, But, Fields
  <1>11. Refuses(k, s, m)
    BY <1>1, <1>4, <1>6, <1>9, <1>10 DEF Refuses, Silences, Mutes, a
  <1>q. QED  BY <1>11 DEF m, SetUnpaid, r, n, a

\* answer_stream_stop.
Stops(k, s, m) ==
  \/ m = k
  \/ s \in k.sess /\ Closes(k, s, m)
  \/ s \notin k.sess /\ k.resp[s] # Nil /\ Finishes(k, s, m)
  \/ s \notin k.sess /\ k.resp[s] = Nil /\ HasSlot(k, s) /\ Cancels(k, s, m)
  \/ s \notin k.sess /\ k.resp[s] = Nil /\ ~ HasSlot(k, s) /\ s \notin k.sendDone /\ Silences(k, s, m)

\* answer_stream_stop is one of its four cases.
LEMMA StopIs ==
  ASSUME NEW k \in Conns, NEW s \in Requests
  PROVE  Stops(k, s, answer_stream_stop(k, s)) /\ answer_stream_stop(k, s) \in Conns
  <1> DEFINE m == answer_stream_stop(k, s)
  <1>1. CASE s \in k.sess
    <2>1. m = close_wt_session_slot([k EXCEPT !.sendDone = @ \cup {s}], s)
      BY <1>1 DEF answer_stream_stop
    <2> HIDE DEF m
    <2>2. Closes(k, s, m)
      BY <2>1, StopSessionIs
    <2>q. QED  BY <1>1, <2>2 DEF Stops, Closes, Moved, m
  <1>2. CASE s \notin k.sess /\ k.resp[s] # Nil
    <2>1. m = srvrun_grant_streams(srvrun_resp_release_stream([k EXCEPT !.resp[s] = Nil], s), 1)
      BY <1>2 DEF answer_stream_stop
    <2> HIDE DEF m
    <2>2. Finishes(k, s, m)
      BY <1>2, <2>1, StopResponseIs
    <2>q. QED  BY <1>2, <2>2 DEF Stops, Finishes, Ends, Moved, m
  <1>3. CASE s \notin k.sess /\ k.resp[s] = Nil /\ HasSlot(k, s)
    <2>1. m = srvrun_grant_streams(wired_srvloop_slot_release(send_wt_busy_reset(k, s), s), 1)
      BY <1>3 DEF answer_stream_stop
    <2> HIDE DEF m
    <2>2. Cancels(k, s, m)
      BY <2>1, CancelIs
    <2>q. QED  BY <1>3, <2>2 DEF Stops, Cancels, Ends, Moved, m
  <1>4. CASE s \notin k.sess /\ k.resp[s] = Nil /\ ~ HasSlot(k, s) /\ s \in k.sendDone
    BY <1>4 DEF Stops, answer_stream_stop
  <1>5. CASE s \notin k.sess /\ k.resp[s] = Nil /\ ~ HasSlot(k, s) /\ s \notin k.sendDone
    <2>1. m = send_wt_busy_reset(k, s)
      BY <1>5 DEF answer_stream_stop
    <2> HIDE DEF m
    <2>2. Silences(k, s, m)
      BY <2>1, SilenceIs
    <2>q. QED  BY <1>5, <2>2 DEF Stops, Silences, Kept, m
  <1>q. QED  BY <1>1, <1>2, <1>3, <1>4, <1>5

\* srvrun_drop_held.
Drops(k, s, m) ==
  \/ m = k /\ \A i \in ReqSlots : ~ (k.held[i] # Nil /\ k.slot[i].id = s)
  \/ /\ Ends(k, s, m, {"held"}, 1)
     /\ \E i \in ReqSlots : /\ k.held[i] # Nil /\ k.slot[i].id = s
                            /\ m.held = [k.held EXCEPT ![i] = Nil]

\* srvrun_drop_held lets go of a held CONNECT that was reset, or does nothing.
LEMMA DropIs ==
  ASSUME NEW k \in Conns, NEW f \in Frames
  PROVE  /\ IF f[2] = "reset" THEN Drops(k, f[1], srvrun_drop_held(k, f))
            ELSE srvrun_drop_held(k, f) = k
         /\ srvrun_drop_held(k, f) \in Conns
  <1> DEFINE s == f[1]
             at == {i \in ReqSlots : k.held[i] # Nil /\ k.slot[i].id = s}
             i == CHOOSE i \in at : TRUE
             a == [k.held EXCEPT ![i] = Nil]
             n == SetHeld(k, a)
             m == srvrun_drop_held(k, f)
  <1>0. s \in Requests
    BY DEF Frames
  <1>3. CASE f[2] # "reset"
    BY <1>3 DEF srvrun_drop_held
  <1>1. CASE f[2] = "reset" /\ at = {}
    <2>1. m = k
      BY <1>1 DEF srvrun_drop_held
    <2>q. QED  BY <1>1, <2>1 DEF Drops
  <1>2. CASE f[2] = "reset" /\ at # {}
    <2>1. i \in ReqSlots /\ k.held[i] # Nil /\ k.slot[i].id = s
      BY <1>2
    <2>2. m = srvrun_grant_streams(wired_srvloop_slot_release([k EXCEPT !.held[i] = Nil], s), 1)
      BY <1>2 DEF srvrun_drop_held
    <2> HIDE DEF i, m
    <2>3. k \in Conn /\ a \in [ReqSlots -> Request]
      BY ConnTyped DEF Request, Conns
    <2>4. n = [k EXCEPT !.held[i] = Nil]
      BY <2>3 DEF SetHeld, Conn
    <2> HIDE DEF a, n
    <2>5. Kept(k, n, {"held"}) /\ n.held = a
      BY <2>3, SetHeldIs DEF n
    <2>6. n \in Conns /\ n.limit = k.limit
      BY <2>5 DEF Kept, But, Fields
    <2>7. Ends(n, s, m, {}, 1)
      BY <1>0, <2>2, <2>4, <2>6, PaidIs
    <2>8. Moved(n, s, m, {} \cup {"limit", "retries"}) /\ m.limit = k.limit + 1
      BY <2>6, <2>7 DEF Ends
    <2>9. Moved(k, s, m, {"held"} \cup ({} \cup {"limit", "retries"}))
      BY <2>5, <2>8, KeptThenMoved
    <2>10. Moved(k, s, m, {"held"} \cup {"limit", "retries"}) /\ m \in Conns
      BY <2>9 DEF Moved, But
    <2>11. m.held = a
      BY <2>5, <2>8 DEF Moved, But, Fields
    <2>q. QED  BY <1>2, <2>1, <2>8, <2>10, <2>11 DEF Drops, Ends, a, m
  <1>q. QED  BY <1>3, <1>1, <1>2

\* srvrun_reset_free.
FreesReset(k, i, m) ==
  \/ m = k /\ (i \in k.rs /\ k.slot[i].use => k.resp[k.slot[i].id] # Nil)
  \/ /\ i \in k.rs /\ k.slot[i].use /\ k.resp[k.slot[i].id] = Nil
     /\ Ends(k, k.slot[i].id, m, {}, 1)

\* srvrun_reset_free ends a noted stream that no response owns, or does nothing.
LEMMA ResetFreeIs ==
  ASSUME NEW k \in Conns, NEW i \in ReqSlots
  PROVE  FreesReset(k, i, srvrun_reset_free(k, i)) /\ srvrun_reset_free(k, i) \in Conns
  <1> DEFINE s == k.slot[i].id
             m == srvrun_reset_free(k, i)
  <1>0. s \in Requests
    BY ConnTyped
  <1>1. CASE i \notin k.rs \/ ~ k.slot[i].use \/ k.resp[s] # Nil
    <2>1. m = k
      BY <1>1 DEF srvrun_reset_free
    <2>q. QED  BY <1>1, <2>1 DEF FreesReset
  <1>2. CASE i \in k.rs /\ k.slot[i].use /\ k.resp[s] = Nil
    <2>1. m = srvrun_grant_streams(wired_srvloop_slot_release(k, s), 1)
      BY <1>2 DEF srvrun_reset_free
    <2> HIDE DEF m
    <2>2. Ends(k, s, m, {}, 1)
      BY <1>0, <2>1, PaidIs
    <2>q. QED  BY <1>2, <2>2 DEF FreesReset, Ends, Moved, m
  <1>q. QED  BY <1>1, <1>2

\* srvrun_abort_req.
Rejects(k, i, m) ==
  IF k.slot[i].use THEN Cancels(k, k.slot[i].id, m) ELSE Silences(k, k.slot[i].id, m)

\* srvrun_abort_req silences and ends the stream of a listed slot in use.
LEMMA AbortReqIs ==
  ASSUME NEW k \in Conns, NEW i \in ReqSlots
  PROVE  Rejects(k, i, srvrun_abort_req(k, i)) /\ srvrun_abort_req(k, i) \in Conns
  <1> DEFINE s == k.slot[i].id
             n == send_wt_busy_reset(k, s)
             m == srvrun_abort_req(k, i)
  <1>0. s \in Requests
    BY ConnTyped
  <1>1. Silences(k, s, n)
    BY <1>0, SilenceIs
  <1>2. n.slot = k.slot /\ n \in Conns
    <2> HIDE DEF n
    <2>q. QED  BY <1>1 DEF Silences, Kept, But, Fields
  <1>3. CASE ~ k.slot[i].use
    <2>1. m = n
      BY <1>3 DEF srvrun_abort_req
    <2>q. QED  BY <1>1, <1>2, <1>3, <2>1 DEF Rejects
  <1>4. CASE k.slot[i].use
    <2>1. m = srvrun_grant_streams(wired_srvloop_slot_release(n, n.slot[i].id), 1)
      BY <1>4 DEF srvrun_abort_req
    <2>2. m = srvrun_grant_streams(wired_srvloop_slot_release(send_wt_busy_reset(k, s), s), 1)
      <3>1. n.slot[i].id = s
        <4> HIDE DEF n
        <4>q. QED  BY <1>2
      <3>q. QED  BY <2>1, <3>1
    <2> HIDE DEF m
    <2>3. Cancels(k, s, m)
      BY <1>0, <2>2, CancelIs
    <2>q. QED  BY <1>4, <2>3 DEF Rejects, Cancels, Ends, Moved, m
  <1>q. QED  BY <1>3, <1>4

\* srvrun_start_resp: the answers, and what comes before them.
Answered(k, s, q, m) ==
  m.resp = [k.resp EXCEPT ![s] = q] /\ m.ans = [k.ans EXCEPT ![s] = Append(k.ans[s], q)]
\* The ways srvrun_dispatch_wt_gated answers: a 429 and a reset, a session and its
\* 200, an answer alone, or the CONNECT held.
Busies(k, s, q, m) ==
  /\ Kept(k, m, {"resp", "ans", "sendDone", "zero", "busy"})
  /\ Answered(k, s, q, m) /\ Mutes(k, s, m) /\ m.busy = k.busy \cup {s}
Opens(k, s, q, m) ==
  Kept(k, m, {"resp", "ans", "sess"}) /\ Answered(k, s, q, m) /\ m.sess = k.sess \cup {s}
Answers(k, s, q, m) == Kept(k, m, {"resp", "ans"}) /\ Answered(k, s, q, m)
Holds(k, s, m) ==
  Kept(k, m, {"held"}) /\ m.held = [k.held EXCEPT ![SlotOf(k, s)] = s]

\* An answer started is Answers.
LEMMA AnswerIs ==
  ASSUME NEW k \in Conns, NEW s \in Requests, NEW q \in Request
  PROVE  Answers(k, s, q, [k EXCEPT !.resp[s] = q, !.ans[s] = Append(@, q)])
  <1> DEFINE a == [k.resp EXCEPT ![s] = q]
             b == [k.ans EXCEPT ![s] = Append(k.ans[s], q)]
             m == SetAnswer(k, a, b)
  <1>0. k \in Conn /\ a \in [Requests -> Request] /\ b \in [Requests -> Seq(Request)]
    BY ConnTyped DEF Conns
  <1>1. m = [k EXCEPT !.resp[s] = q, !.ans[s] = Append(@, q)]
    BY <1>0 DEF SetAnswer, Conn
  <1> HIDE DEF a, b, m
  <1>2. Kept(k, m, {"resp", "ans"}) /\ m.resp = a /\ m.ans = b
    BY <1>0, SetAnswerIs DEF m
  <1>q. QED  BY <1>1, <1>2 DEF Answers, Answered, a, b

\* A CONNECT held until SETTINGS is Holds.
LEMMA HoldIs ==
  ASSUME NEW k \in Conns, NEW s \in Requests, HasSlot(k, s)
  PROVE  Holds(k, s, [k EXCEPT !.held[SlotOf(k, s)] = s])
  <1> DEFINE i == SlotOf(k, s)
             a == [k.held EXCEPT ![i] = s]
             m == SetHeld(k, a)
  <1>0. i \in ReqSlots
    BY FindsSlot
  <1> HIDE DEF i
  <1>1. k \in Conn /\ a \in [ReqSlots -> Request]
    BY <1>0, ConnTyped DEF Conns, Request
  <1>2. m = [k EXCEPT !.held[i] = s]
    BY <1>1 DEF SetHeld, Conn
  <1> HIDE DEF a, m
  <1>3. Kept(k, m, {"held"}) /\ m.held = a
    BY <1>1, SetHeldIs DEF m
  <1>q. QED  BY <1>2, <1>3 DEF Holds, a, i

\* srvrun_dispatch_wt_gated, case by case.
Gated(k, s, q, m) ==
  \/ m = k /\ ~ k.settings
  \/ ~ k.settings /\ HasSlot(k, s) /\ Holds(k, s, m)
  \/ k.settings /\ kind[q] = "wtbad" /\ Refuses(k, s, m)
  \/ k.settings /\ kind[q] # "wtbad" /\ Busies(k, s, q, m)
  \/ k.settings /\ kind[q] # "wtbad" /\ Opens(k, s, q, m)

\* srvrun_dispatch_wt_gated is Gated.
LEMMA GatedIs ==
  ASSUME NEW k \in Conns, NEW s \in Requests, NEW q \in Request
  PROVE  Gated(k, s, q, srvrun_dispatch_wt_gated(k, s, q)) /\ srvrun_dispatch_wt_gated(k, s, q) \in Conns
  <1> DEFINE m == srvrun_dispatch_wt_gated(k, s, q)
             n == [k EXCEPT !.resp[s] = q, !.ans[s] = Append(@, q)]
  <1>0. Answers(k, s, q, n)
    BY AnswerIs
  <1>1. CASE ~ k.settings /\ ~ HasSlot(k, s)
    <2>1. m = k
      BY <1>1 DEF srvrun_dispatch_wt_gated
    <2>q. QED  BY <1>1, <2>1 DEF Gated
  <1>2. CASE ~ k.settings /\ HasSlot(k, s)
    <2>1. m = [k EXCEPT !.held[SlotOf(k, s)] = s]
      BY <1>2 DEF srvrun_dispatch_wt_gated
    <2>2. Holds(k, s, m)
      BY <1>2, <2>1, HoldIs
    <2> HIDE DEF m
    <2>q. QED  BY <1>2, <2>2 DEF Gated, Holds, Kept, m
  <1>3. CASE k.settings /\ kind[q] = "wtbad"
    <2>1. m = [wired_srvloop_slot_release(send_wt_busy_reset(k, s), s) EXCEPT
                 !.unpaid = @ \cup {s}]
      BY <1>3 DEF srvrun_dispatch_wt_gated
    <2>2. Refuses(k, s, m)
      BY <2>1, RefuseIs
    <2> HIDE DEF m
    <2>q. QED  BY <1>3, <2>2 DEF Gated, Refuses, Moved, m
  <1>4. CASE k.settings /\ kind[q] # "wtbad" /\ Cardinality(k.sess) >= MaxSess
    <2> DEFINE b == send_wt_busy_reset(n, s)
               a == b.busy \cup {s}
    <2>1. m = SetBusy(b, a)
      BY <1>4 DEF srvrun_dispatch_wt_gated, SetBusy
    <2> HIDE DEF m, n
    <2>2. n \in Conns /\ n.sendDone = k.sendDone /\ n.zero = k.zero /\ n.busy = k.busy
          /\ Kept(k, n, {"resp", "ans"})
      BY <1>0 DEF Answers, Kept, But, Fields
    <2>3. Silences(n, s, b)
      BY <2>2, SilenceIs
    <2> HIDE DEF b
    <2>4. Kept(n, b, {"sendDone", "zero"}) /\ b \in Conns /\ b.busy = k.busy
          /\ b.resp = n.resp /\ b.ans = n.ans
      BY <2>2, <2>3 DEF Silences, Kept, But, Fields
    <2>5. a \in SUBSET Requests
      BY <2>4, ConnTyped
    <2> HIDE DEF a
    <2>6. Kept(b, m, {"busy"}) /\ m.busy = a
      BY <2>1, <2>4, <2>5, SetBusyIs
    <2>7. m.resp = n.resp /\ m.ans = n.ans /\ m.sendDone = b.sendDone /\ m.zero = b.zero
      BY <2>4, <2>6 DEF Kept, But, Fields
    <2>8. Kept(k, m, {"resp", "ans", "sendDone", "zero", "busy"})
      BY <2>2, <2>4, <2>6 DEF Kept, But
    <2>9. Busies(k, s, q, m)
      BY <1>0, <2>2, <2>3, <2>4, <2>6, <2>7, <2>8 DEF Busies, Answers, Answered, Silences, Mutes, a
    <2>q. QED  BY <1>4, <2>9 DEF Gated, Busies, Kept, m
  <1>5. CASE k.settings /\ kind[q] # "wtbad" /\ ~ (Cardinality(k.sess) >= MaxSess)
    <2> DEFINE a == n.sess \cup {s}
    <2>1. m = SetSess(n, a)
      BY <1>5 DEF srvrun_dispatch_wt_gated, SetSess
    <2> HIDE DEF m, n
    <2>2. n \in Conns /\ n.sess = k.sess /\ Kept(k, n, {"resp", "ans"})
      BY <1>0 DEF Answers, Kept, But, Fields
    <2>3. a \in SUBSET Requests
      BY <2>2, ConnTyped
    <2> HIDE DEF a
    <2>4. Kept(n, m, {"sess"}) /\ m.sess = a
      BY <2>1, <2>2, <2>3, SetSessIs
    <2>5. m.resp = n.resp /\ m.ans = n.ans
      BY <2>4 DEF Kept, But, Fields
    <2>6. Kept(k, m, {"resp", "ans", "sess"})
      BY <2>2, <2>4 DEF Kept, But
    <2>7. Opens(k, s, q, m)
      BY <1>0, <2>2, <2>4, <2>5, <2>6 DEF Opens, Answers, Answered, a
    <2>q. QED  BY <1>5, <2>7 DEF Gated, Opens, Kept, m
  <1>q. QED  BY <1>1, <1>2, <1>3, <1>4, <1>5

Past(k, s)    == k.goaway # Nil /\ s >= k.goaway
\* srvrun_start_resp, case by case; Claimed streams get to their answer.
Claimed(k, s) == ~ Past(k, s) /\ s \notin k.sendDone /\ k.resp[s] = Nil /\ s \notin k.sess

Starts(k, s, q, m) ==
  \/ m = k /\ ~ Past(k, s) /\ s \notin k.sendDone
  \/ Past(k, s) /\ Refuses(k, s, m)
  \/ ~ Past(k, s) /\ s \in k.sendDone /\ Ends(k, s, m, {}, 1)
  \/ Claimed(k, s) /\ kind[q] \in {"connect", "wtbad"} /\ Gated(k, s, q, m)
  \/ Claimed(k, s) /\ kind[q] \notin {"connect", "wtbad"} /\ Answers(k, s, q, m)

\* srvrun_start_resp is Starts.
LEMMA StartIs ==
  ASSUME NEW k \in Conns, NEW s \in Requests, NEW q \in Request
  PROVE  Starts(k, s, q, srvrun_start_resp(k, s, q)) /\ srvrun_start_resp(k, s, q) \in Conns
  <1> DEFINE m == srvrun_start_resp(k, s, q)
  <1>1. CASE Past(k, s)
    <2>1. m = [wired_srvloop_slot_release(send_wt_busy_reset(k, s), s) EXCEPT
                 !.unpaid = @ \cup {s}]
      BY <1>1 DEF srvrun_start_resp, Past
    <2>2. Refuses(k, s, m)
      BY <2>1, RefuseIs
    <2> HIDE DEF m
    <2>q. QED  BY <1>1, <2>2 DEF Starts, Refuses, Moved, m
  <1>2. CASE ~ Past(k, s) /\ s \in k.sendDone
    <2>1. m = srvrun_grant_streams(wired_srvloop_slot_release(k, s), 1)
      BY <1>2 DEF srvrun_start_resp, Past
    <2>2. Ends(k, s, m, {}, 1)
      BY <2>1, PaidIs
    <2> HIDE DEF m
    <2>q. QED  BY <1>2, <2>2 DEF Starts, Ends, Moved, m
  <1>3. CASE ~ Past(k, s) /\ s \notin k.sendDone /\ ~ srvrun_start_resp_claim(k, s)
    <2>1. m = k
      BY <1>3 DEF srvrun_start_resp, Past
    <2>q. QED  BY <1>3, <2>1 DEF Starts
  <1>4. CASE /\ ~ Past(k, s) /\ s \notin k.sendDone /\ srvrun_start_resp_claim(k, s)
             /\ kind[q] \in {"connect", "wtbad"}
    <2>1. m = srvrun_dispatch_wt_gated(k, s, q)
      BY <1>4 DEF srvrun_start_resp, Past
    <2>2. Gated(k, s, q, m) /\ m \in Conns
      BY <2>1, GatedIs
    <2>3. Claimed(k, s)
      BY <1>4 DEF srvrun_start_resp_claim, Claimed
    <2> HIDE DEF m
    <2>q. QED  BY <1>4, <2>2, <2>3 DEF Starts, m
  <1>5. CASE /\ ~ Past(k, s) /\ s \notin k.sendDone /\ srvrun_start_resp_claim(k, s)
             /\ kind[q] \notin {"connect", "wtbad"}
    <2> DEFINE n == [k EXCEPT !.resp[s] = q, !.ans[s] = Append(@, q)]
    <2>0. Answers(k, s, q, n)
      BY AnswerIs
    <2>1. m = n
      BY <1>5 DEF srvrun_start_resp, Past
    <2>2. Answers(k, s, q, m)
      BY <2>0, <2>1
    <2>3. Claimed(k, s)
      BY <1>5 DEF srvrun_start_resp_claim, Claimed
    <2> HIDE DEF m
    <2>q. QED  BY <1>5, <2>2, <2>3 DEF Starts, Answers, Kept, m
  <1>q. QED  BY <1>1, <1>2, <1>3, <1>4, <1>5

\* srvrun_start_done_resp is Starts for the slot's stream and request.
LEMMA StartDoneIs ==
  ASSUME NEW k \in Conns, NEW i \in ReqSlots
  PROVE  /\ Starts(k, k.slot[i].id, k.slot[i].req, srvrun_start_done_resp(k, i))
         /\ srvrun_start_done_resp(k, i) \in Conns
  BY ConnTyped, StartIs DEF srvrun_start_done_resp

\* srvrun_start_held_resp.
Wakes(k, i, m) ==
  \/ m = k /\ k.held[i] = Nil
  \/ /\ k.held[i] # Nil
     /\ \E n \in Conns :
          /\ Kept(k, n, {"held"}) /\ n.held = [k.held EXCEPT ![i] = Nil]
          /\ IF Owns(k, i, k.held[i]) THEN Starts(n, n.slot[i].id, n.slot[i].req, m) ELSE m = n

\* srvrun_start_held_resp clears the entry and starts it if the slot is still its
\* own.
LEMMA StartHeldIs ==
  ASSUME NEW k \in Conns, NEW i \in ReqSlots
  PROVE  Wakes(k, i, srvrun_start_held_resp(k, i)) /\ srvrun_start_held_resp(k, i) \in Conns
  <1> DEFINE a == [k.held EXCEPT ![i] = Nil]
             n == SetHeld(k, a)
             m == srvrun_start_held_resp(k, i)
  <1>1. CASE k.held[i] = Nil
    <2>1. m = k
      BY <1>1 DEF srvrun_start_held_resp
    <2>q. QED  BY <1>1, <2>1 DEF Wakes
  <1>2. CASE k.held[i] # Nil
    <2>1. k \in Conn /\ a \in [ReqSlots -> Request]
      BY ConnTyped DEF Request, Conns
    <2>2. n = [k EXCEPT !.held[i] = Nil]
      BY <2>1 DEF SetHeld, Conn
    <2> HIDE DEF n
    <2>3. m = IF Owns(k, i, k.held[i]) THEN srvrun_start_done_resp(n, i) ELSE n
      BY <1>2, <2>2 DEF srvrun_start_held_resp, Owns
    <2> HIDE DEF a, m
    <2>4. Kept(k, n, {"held"}) /\ n.held = a /\ n \in Conns
      BY <2>1, SetHeldIs DEF n, Kept
    <2>5. Starts(n, n.slot[i].id, n.slot[i].req, srvrun_start_done_resp(n, i))
          /\ srvrun_start_done_resp(n, i) \in Conns
      BY <2>4, StartDoneIs
    <2>6. m \in Conns /\ IF Owns(k, i, k.held[i]) THEN Starts(n, n.slot[i].id, n.slot[i].req, m)
                         ELSE m = n
      BY <2>3, <2>4, <2>5
    <2>q. QED  BY <1>2, <2>4, <2>6 DEF Wakes, a, m
  <1>q. QED  BY <1>1, <1>2

-----------------------------------------------------------------------------
\* The loops: a list walked from connection to connection stays in U, where U[j]
\* holds after j entries.

\* The loop over the frames that land: what each step carries on, the loop does.  One
\* such lemma for each loop of the step, because a fold's operator cannot be a
\* parameter of a lemma here.
LEMMA LandFold ==
  ASSUME NEW k \in Conns, NEW q \in Seq(Frames), NEW U, k \in U[0],
         \A j \in 1 .. Len(q) : \A x \in Conns : x \in U[j - 1] => route_land(x, q[j]) \in U[j]
  PROVE  FoldLeft(route_land, k, q) \in Conns /\ FoldLeft(route_land, k, q) \in U[Len(q)]
  <1> DEFINE E == Frames
             F == [p \in E \X Conns |-> route_land(p[2], p[1])]
             h == CHOOSE h : h = [s \in SUBSET (DOMAIN q) |->
                    IF s = {} THEN k ELSE route_land(h[s \ {Max(s)}], q[Max(s)])]
  <1>1. FoldLeft(route_land, k, q) = h[DOMAIN q]
    BY DEF FoldLeft, MapThenFoldSet
  <1>2. \A x \in Conns, e \in E : route_land(x, e) \in Conns
    BY LandIs DEF Lands
  <1>3. F \in [E \X Conns -> Conns] /\ \A x \in Conns, e \in E : F[<<e, x>>] = route_land(x, e)
    BY <1>2
  <1> HIDE DEF F
  <1>4. PICK g \in [SUBSET (DOMAIN q) -> Conns] : \A s \in SUBSET (DOMAIN q) :
          g[s] = IF s = {} THEN k ELSE F[<<q[Max(s)], g[s \ {Max(s)}]>>]
    <2>1. Unfolds(Conns, F, k, q)
      BY <1>3, RunExists
    <2>q. QED  BY <2>1 DEF Unfolds
  <1>5. ASSUME NEW s \in SUBSET (DOMAIN q), s # {}
        PROVE  Max(s) \in DOMAIN q /\ q[Max(s)] \in E
    BY <1>5, RunMax
  <1>6. g = [s \in SUBSET (DOMAIN q) |->
               IF s = {} THEN k ELSE route_land(g[s \ {Max(s)}], q[Max(s)])]
    BY <1>3, <1>4, <1>5
  <1>7. h = [s \in SUBSET (DOMAIN q) |->
               IF s = {} THEN k ELSE route_land(h[s \ {Max(s)}], q[Max(s)])]
    BY <1>6
  <1> HIDE DEF h
  <1>8. h[{}] = k /\ \A s \in SUBSET (DOMAIN q) : s # {} /\ h[s \ {Max(s)}] \in Conns =>
                       h[s] = F[<<q[Max(s)], h[s \ {Max(s)}]>>]
    BY <1>3, <1>5, <1>7
  <1>9. IsRun(Conns, F, k, q, h[DOMAIN q])
    BY <1>3, <1>8, RunIs
  <1>10. \A j \in 1 .. Len(q) : \A x \in Conns : x \in U[j - 1] => F[<<q[j], x>>] \in U[j]
    BY <1>3
  <1>11. Len(q) \in Nat
    OBVIOUS
  <1>12. h[DOMAIN q] \in U[Len(q)]
    BY <1>9, <1>10, <1>11, RunKeeps
  <1>13. h[DOMAIN q] \in Conns
    BY <1>9, <1>11, RunTyped
  <1>q. QED  BY <1>1, <1>12, <1>13

\* The same of the loop over the slots with new bytes.
LEMMA CompleteFold ==
  ASSUME NEW k \in Conns, NEW q \in Seq(ReqSlots), NEW U, k \in U[0],
         \A j \in 1 .. Len(q) : \A x \in Conns : x \in U[j - 1] => route_complete_touched(x, q[j]) \in U[j]
  PROVE  FoldLeft(route_complete_touched, k, q) \in Conns /\ FoldLeft(route_complete_touched, k, q) \in U[Len(q)]
  <1> DEFINE E == ReqSlots
             F == [p \in E \X Conns |-> route_complete_touched(p[2], p[1])]
             h == CHOOSE h : h = [s \in SUBSET (DOMAIN q) |->
                    IF s = {} THEN k ELSE route_complete_touched(h[s \ {Max(s)}], q[Max(s)])]
  <1>1. FoldLeft(route_complete_touched, k, q) = h[DOMAIN q]
    BY DEF FoldLeft, MapThenFoldSet
  <1>2. \A x \in Conns, e \in E : route_complete_touched(x, e) \in Conns
    <2>1. \A x \in Conns, e \in E : srvloop_route_complete_slot(x, e) \in Conns
      BY CompleteIs DEF Completes
    <2>q. QED  BY <2>1 DEF route_complete_touched
  <1>3. F \in [E \X Conns -> Conns] /\ \A x \in Conns, e \in E : F[<<e, x>>] = route_complete_touched(x, e)
    BY <1>2
  <1> HIDE DEF F
  <1>4. PICK g \in [SUBSET (DOMAIN q) -> Conns] : \A s \in SUBSET (DOMAIN q) :
          g[s] = IF s = {} THEN k ELSE F[<<q[Max(s)], g[s \ {Max(s)}]>>]
    <2>1. Unfolds(Conns, F, k, q)
      BY <1>3, RunExists
    <2>q. QED  BY <2>1 DEF Unfolds
  <1>5. ASSUME NEW s \in SUBSET (DOMAIN q), s # {}
        PROVE  Max(s) \in DOMAIN q /\ q[Max(s)] \in E
    BY <1>5, RunMax
  <1>6. g = [s \in SUBSET (DOMAIN q) |->
               IF s = {} THEN k ELSE route_complete_touched(g[s \ {Max(s)}], q[Max(s)])]
    BY <1>3, <1>4, <1>5
  <1>7. h = [s \in SUBSET (DOMAIN q) |->
               IF s = {} THEN k ELSE route_complete_touched(h[s \ {Max(s)}], q[Max(s)])]
    BY <1>6
  <1> HIDE DEF h
  <1>8. h[{}] = k /\ \A s \in SUBSET (DOMAIN q) : s # {} /\ h[s \ {Max(s)}] \in Conns =>
                       h[s] = F[<<q[Max(s)], h[s \ {Max(s)}]>>]
    BY <1>3, <1>5, <1>7
  <1>9. IsRun(Conns, F, k, q, h[DOMAIN q])
    BY <1>3, <1>8, RunIs
  <1>10. \A j \in 1 .. Len(q) : \A x \in Conns : x \in U[j - 1] => F[<<q[j], x>>] \in U[j]
    BY <1>3
  <1>11. Len(q) \in Nat
    OBVIOUS
  <1>12. h[DOMAIN q] \in U[Len(q)]
    BY <1>9, <1>10, <1>11, RunKeeps
  <1>13. h[DOMAIN q] \in Conns
    BY <1>9, <1>11, RunTyped
  <1>q. QED  BY <1>1, <1>12, <1>13

\* The same of the loop over the resets.
LEMMA ResetFold ==
  ASSUME NEW k \in Conns, NEW q \in Seq(Frames), NEW U, k \in U[0],
         \A j \in 1 .. Len(q) : \A x \in Conns : x \in U[j - 1] => reset_frame(x, q[j]) \in U[j]
  PROVE  FoldLeft(reset_frame, k, q) \in Conns /\ FoldLeft(reset_frame, k, q) \in U[Len(q)]
  <1> DEFINE E == Frames
             F == [p \in E \X Conns |-> reset_frame(p[2], p[1])]
             h == CHOOSE h : h = [s \in SUBSET (DOMAIN q) |->
                    IF s = {} THEN k ELSE reset_frame(h[s \ {Max(s)}], q[Max(s)])]
  <1>1. FoldLeft(reset_frame, k, q) = h[DOMAIN q]
    BY DEF FoldLeft, MapThenFoldSet
  <1>2. \A x \in Conns, e \in E : reset_frame(x, e) \in Conns
    <2>1. \A x \in Conns, r \in Requests : reset_request_stream(x, r) \in Conns
      BY ResetIs DEF Resets
    <2>2. \A e \in E : e[1] \in Requests
      BY DEF Frames
    <2>q. QED  BY <2>1, <2>2 DEF reset_frame
  <1>3. F \in [E \X Conns -> Conns] /\ \A x \in Conns, e \in E : F[<<e, x>>] = reset_frame(x, e)
    BY <1>2
  <1> HIDE DEF F
  <1>4. PICK g \in [SUBSET (DOMAIN q) -> Conns] : \A s \in SUBSET (DOMAIN q) :
          g[s] = IF s = {} THEN k ELSE F[<<q[Max(s)], g[s \ {Max(s)}]>>]
    <2>1. Unfolds(Conns, F, k, q)
      BY <1>3, RunExists
    <2>q. QED  BY <2>1 DEF Unfolds
  <1>5. ASSUME NEW s \in SUBSET (DOMAIN q), s # {}
        PROVE  Max(s) \in DOMAIN q /\ q[Max(s)] \in E
    BY <1>5, RunMax
  <1>6. g = [s \in SUBSET (DOMAIN q) |->
               IF s = {} THEN k ELSE reset_frame(g[s \ {Max(s)}], q[Max(s)])]
    BY <1>3, <1>4, <1>5
  <1>7. h = [s \in SUBSET (DOMAIN q) |->
               IF s = {} THEN k ELSE reset_frame(h[s \ {Max(s)}], q[Max(s)])]
    BY <1>6
  <1> HIDE DEF h
  <1>8. h[{}] = k /\ \A s \in SUBSET (DOMAIN q) : s # {} /\ h[s \ {Max(s)}] \in Conns =>
                       h[s] = F[<<q[Max(s)], h[s \ {Max(s)}]>>]
    BY <1>3, <1>5, <1>7
  <1>9. IsRun(Conns, F, k, q, h[DOMAIN q])
    BY <1>3, <1>8, RunIs
  <1>10. \A j \in 1 .. Len(q) : \A x \in Conns : x \in U[j - 1] => F[<<q[j], x>>] \in U[j]
    BY <1>3
  <1>11. Len(q) \in Nat
    OBVIOUS
  <1>12. h[DOMAIN q] \in U[Len(q)]
    BY <1>9, <1>10, <1>11, RunKeeps
  <1>13. h[DOMAIN q] \in Conns
    BY <1>9, <1>11, RunTyped
  <1>q. QED  BY <1>1, <1>12, <1>13

\* The same of the loop over the STOP_SENDINGs.
LEMMA StopFold ==
  ASSUME NEW k \in Conns, NEW q \in Seq(Frames), NEW U, k \in U[0],
         \A j \in 1 .. Len(q) : \A x \in Conns : x \in U[j - 1] => srvrun_answer_peer_stop(x, q[j]) \in U[j]
  PROVE  FoldLeft(srvrun_answer_peer_stop, k, q) \in Conns /\ FoldLeft(srvrun_answer_peer_stop, k, q) \in U[Len(q)]
  <1> DEFINE E == Frames
             F == [p \in E \X Conns |-> srvrun_answer_peer_stop(p[2], p[1])]
             h == CHOOSE h : h = [s \in SUBSET (DOMAIN q) |->
                    IF s = {} THEN k ELSE srvrun_answer_peer_stop(h[s \ {Max(s)}], q[Max(s)])]
  <1>1. FoldLeft(srvrun_answer_peer_stop, k, q) = h[DOMAIN q]
    BY DEF FoldLeft, MapThenFoldSet
  <1>2. \A x \in Conns, e \in E : srvrun_answer_peer_stop(x, e) \in Conns
    <2>1. \A x \in Conns, r \in Requests : answer_stream_stop(x, r) \in Conns
      BY StopIs
    <2>2. \A e \in E : e[1] \in Requests
      BY DEF Frames
    <2>q. QED  BY <2>1, <2>2 DEF srvrun_answer_peer_stop
  <1>3. F \in [E \X Conns -> Conns] /\ \A x \in Conns, e \in E : F[<<e, x>>] = srvrun_answer_peer_stop(x, e)
    BY <1>2
  <1> HIDE DEF F
  <1>4. PICK g \in [SUBSET (DOMAIN q) -> Conns] : \A s \in SUBSET (DOMAIN q) :
          g[s] = IF s = {} THEN k ELSE F[<<q[Max(s)], g[s \ {Max(s)}]>>]
    <2>1. Unfolds(Conns, F, k, q)
      BY <1>3, RunExists
    <2>q. QED  BY <2>1 DEF Unfolds
  <1>5. ASSUME NEW s \in SUBSET (DOMAIN q), s # {}
        PROVE  Max(s) \in DOMAIN q /\ q[Max(s)] \in E
    BY <1>5, RunMax
  <1>6. g = [s \in SUBSET (DOMAIN q) |->
               IF s = {} THEN k ELSE srvrun_answer_peer_stop(g[s \ {Max(s)}], q[Max(s)])]
    BY <1>3, <1>4, <1>5
  <1>7. h = [s \in SUBSET (DOMAIN q) |->
               IF s = {} THEN k ELSE srvrun_answer_peer_stop(h[s \ {Max(s)}], q[Max(s)])]
    BY <1>6
  <1> HIDE DEF h
  <1>8. h[{}] = k /\ \A s \in SUBSET (DOMAIN q) : s # {} /\ h[s \ {Max(s)}] \in Conns =>
                       h[s] = F[<<q[Max(s)], h[s \ {Max(s)}]>>]
    BY <1>3, <1>5, <1>7
  <1>9. IsRun(Conns, F, k, q, h[DOMAIN q])
    BY <1>3, <1>8, RunIs
  <1>10. \A j \in 1 .. Len(q) : \A x \in Conns : x \in U[j - 1] => F[<<q[j], x>>] \in U[j]
    BY <1>3
  <1>11. Len(q) \in Nat
    OBVIOUS
  <1>12. h[DOMAIN q] \in U[Len(q)]
    BY <1>9, <1>10, <1>11, RunKeeps
  <1>13. h[DOMAIN q] \in Conns
    BY <1>9, <1>11, RunTyped
  <1>q. QED  BY <1>1, <1>12, <1>13

\* The same of the loop over held CONNECTs that are reset.
LEMMA DropFold ==
  ASSUME NEW k \in Conns, NEW q \in Seq(Frames), NEW U, k \in U[0],
         \A j \in 1 .. Len(q) : \A x \in Conns : x \in U[j - 1] => srvrun_drop_held(x, q[j]) \in U[j]
  PROVE  FoldLeft(srvrun_drop_held, k, q) \in Conns /\ FoldLeft(srvrun_drop_held, k, q) \in U[Len(q)]
  <1> DEFINE E == Frames
             F == [p \in E \X Conns |-> srvrun_drop_held(p[2], p[1])]
             h == CHOOSE h : h = [s \in SUBSET (DOMAIN q) |->
                    IF s = {} THEN k ELSE srvrun_drop_held(h[s \ {Max(s)}], q[Max(s)])]
  <1>1. FoldLeft(srvrun_drop_held, k, q) = h[DOMAIN q]
    BY DEF FoldLeft, MapThenFoldSet
  <1>2. \A x \in Conns, e \in E : srvrun_drop_held(x, e) \in Conns
    BY DropIs
  <1>3. F \in [E \X Conns -> Conns] /\ \A x \in Conns, e \in E : F[<<e, x>>] = srvrun_drop_held(x, e)
    BY <1>2
  <1> HIDE DEF F
  <1>4. PICK g \in [SUBSET (DOMAIN q) -> Conns] : \A s \in SUBSET (DOMAIN q) :
          g[s] = IF s = {} THEN k ELSE F[<<q[Max(s)], g[s \ {Max(s)}]>>]
    <2>1. Unfolds(Conns, F, k, q)
      BY <1>3, RunExists
    <2>q. QED  BY <2>1 DEF Unfolds
  <1>5. ASSUME NEW s \in SUBSET (DOMAIN q), s # {}
        PROVE  Max(s) \in DOMAIN q /\ q[Max(s)] \in E
    BY <1>5, RunMax
  <1>6. g = [s \in SUBSET (DOMAIN q) |->
               IF s = {} THEN k ELSE srvrun_drop_held(g[s \ {Max(s)}], q[Max(s)])]
    BY <1>3, <1>4, <1>5
  <1>7. h = [s \in SUBSET (DOMAIN q) |->
               IF s = {} THEN k ELSE srvrun_drop_held(h[s \ {Max(s)}], q[Max(s)])]
    BY <1>6
  <1> HIDE DEF h
  <1>8. h[{}] = k /\ \A s \in SUBSET (DOMAIN q) : s # {} /\ h[s \ {Max(s)}] \in Conns =>
                       h[s] = F[<<q[Max(s)], h[s \ {Max(s)}]>>]
    BY <1>3, <1>5, <1>7
  <1>9. IsRun(Conns, F, k, q, h[DOMAIN q])
    BY <1>3, <1>8, RunIs
  <1>10. \A j \in 1 .. Len(q) : \A x \in Conns : x \in U[j - 1] => F[<<q[j], x>>] \in U[j]
    BY <1>3
  <1>11. Len(q) \in Nat
    OBVIOUS
  <1>12. h[DOMAIN q] \in U[Len(q)]
    BY <1>9, <1>10, <1>11, RunKeeps
  <1>13. h[DOMAIN q] \in Conns
    BY <1>9, <1>11, RunTyped
  <1>q. QED  BY <1>1, <1>12, <1>13

\* The same of the loop over the slots noted as reset.
LEMMA FreeFold ==
  ASSUME NEW k \in Conns, NEW q \in Seq(ReqSlots), NEW U, k \in U[0],
         \A j \in 1 .. Len(q) : \A x \in Conns : x \in U[j - 1] => srvrun_reset_free(x, q[j]) \in U[j]
  PROVE  FoldLeft(srvrun_reset_free, k, q) \in Conns /\ FoldLeft(srvrun_reset_free, k, q) \in U[Len(q)]
  <1> DEFINE E == ReqSlots
             F == [p \in E \X Conns |-> srvrun_reset_free(p[2], p[1])]
             h == CHOOSE h : h = [s \in SUBSET (DOMAIN q) |->
                    IF s = {} THEN k ELSE srvrun_reset_free(h[s \ {Max(s)}], q[Max(s)])]
  <1>1. FoldLeft(srvrun_reset_free, k, q) = h[DOMAIN q]
    BY DEF FoldLeft, MapThenFoldSet
  <1>2. \A x \in Conns, e \in E : srvrun_reset_free(x, e) \in Conns
    BY ResetFreeIs
  <1>3. F \in [E \X Conns -> Conns] /\ \A x \in Conns, e \in E : F[<<e, x>>] = srvrun_reset_free(x, e)
    BY <1>2
  <1> HIDE DEF F
  <1>4. PICK g \in [SUBSET (DOMAIN q) -> Conns] : \A s \in SUBSET (DOMAIN q) :
          g[s] = IF s = {} THEN k ELSE F[<<q[Max(s)], g[s \ {Max(s)}]>>]
    <2>1. Unfolds(Conns, F, k, q)
      BY <1>3, RunExists
    <2>q. QED  BY <2>1 DEF Unfolds
  <1>5. ASSUME NEW s \in SUBSET (DOMAIN q), s # {}
        PROVE  Max(s) \in DOMAIN q /\ q[Max(s)] \in E
    BY <1>5, RunMax
  <1>6. g = [s \in SUBSET (DOMAIN q) |->
               IF s = {} THEN k ELSE srvrun_reset_free(g[s \ {Max(s)}], q[Max(s)])]
    BY <1>3, <1>4, <1>5
  <1>7. h = [s \in SUBSET (DOMAIN q) |->
               IF s = {} THEN k ELSE srvrun_reset_free(h[s \ {Max(s)}], q[Max(s)])]
    BY <1>6
  <1> HIDE DEF h
  <1>8. h[{}] = k /\ \A s \in SUBSET (DOMAIN q) : s # {} /\ h[s \ {Max(s)}] \in Conns =>
                       h[s] = F[<<q[Max(s)], h[s \ {Max(s)}]>>]
    BY <1>3, <1>5, <1>7
  <1>9. IsRun(Conns, F, k, q, h[DOMAIN q])
    BY <1>3, <1>8, RunIs
  <1>10. \A j \in 1 .. Len(q) : \A x \in Conns : x \in U[j - 1] => F[<<q[j], x>>] \in U[j]
    BY <1>3
  <1>11. Len(q) \in Nat
    OBVIOUS
  <1>12. h[DOMAIN q] \in U[Len(q)]
    BY <1>9, <1>10, <1>11, RunKeeps
  <1>13. h[DOMAIN q] \in Conns
    BY <1>9, <1>11, RunTyped
  <1>q. QED  BY <1>1, <1>12, <1>13

\* The same of the loop over the rejected requests.
LEMMA AbortFold ==
  ASSUME NEW k \in Conns, NEW q \in Seq(ReqSlots), NEW U, k \in U[0],
         \A j \in 1 .. Len(q) : \A x \in Conns : x \in U[j - 1] => srvrun_abort_req(x, q[j]) \in U[j]
  PROVE  FoldLeft(srvrun_abort_req, k, q) \in Conns /\ FoldLeft(srvrun_abort_req, k, q) \in U[Len(q)]
  <1> DEFINE E == ReqSlots
             F == [p \in E \X Conns |-> srvrun_abort_req(p[2], p[1])]
             h == CHOOSE h : h = [s \in SUBSET (DOMAIN q) |->
                    IF s = {} THEN k ELSE srvrun_abort_req(h[s \ {Max(s)}], q[Max(s)])]
  <1>1. FoldLeft(srvrun_abort_req, k, q) = h[DOMAIN q]
    BY DEF FoldLeft, MapThenFoldSet
  <1>2. \A x \in Conns, e \in E : srvrun_abort_req(x, e) \in Conns
    BY AbortReqIs
  <1>3. F \in [E \X Conns -> Conns] /\ \A x \in Conns, e \in E : F[<<e, x>>] = srvrun_abort_req(x, e)
    BY <1>2
  <1> HIDE DEF F
  <1>4. PICK g \in [SUBSET (DOMAIN q) -> Conns] : \A s \in SUBSET (DOMAIN q) :
          g[s] = IF s = {} THEN k ELSE F[<<q[Max(s)], g[s \ {Max(s)}]>>]
    <2>1. Unfolds(Conns, F, k, q)
      BY <1>3, RunExists
    <2>q. QED  BY <2>1 DEF Unfolds
  <1>5. ASSUME NEW s \in SUBSET (DOMAIN q), s # {}
        PROVE  Max(s) \in DOMAIN q /\ q[Max(s)] \in E
    BY <1>5, RunMax
  <1>6. g = [s \in SUBSET (DOMAIN q) |->
               IF s = {} THEN k ELSE srvrun_abort_req(g[s \ {Max(s)}], q[Max(s)])]
    BY <1>3, <1>4, <1>5
  <1>7. h = [s \in SUBSET (DOMAIN q) |->
               IF s = {} THEN k ELSE srvrun_abort_req(h[s \ {Max(s)}], q[Max(s)])]
    BY <1>6
  <1> HIDE DEF h
  <1>8. h[{}] = k /\ \A s \in SUBSET (DOMAIN q) : s # {} /\ h[s \ {Max(s)}] \in Conns =>
                       h[s] = F[<<q[Max(s)], h[s \ {Max(s)}]>>]
    BY <1>3, <1>5, <1>7
  <1>9. IsRun(Conns, F, k, q, h[DOMAIN q])
    BY <1>3, <1>8, RunIs
  <1>10. \A j \in 1 .. Len(q) : \A x \in Conns : x \in U[j - 1] => F[<<q[j], x>>] \in U[j]
    BY <1>3
  <1>11. Len(q) \in Nat
    OBVIOUS
  <1>12. h[DOMAIN q] \in U[Len(q)]
    BY <1>9, <1>10, <1>11, RunKeeps
  <1>13. h[DOMAIN q] \in Conns
    BY <1>9, <1>11, RunTyped
  <1>q. QED  BY <1>1, <1>12, <1>13

\* The same of the loop over the held CONNECTs that start.
LEMMA WakeFold ==
  ASSUME NEW k \in Conns, NEW q \in Seq(ReqSlots), NEW U, k \in U[0],
         \A j \in 1 .. Len(q) : \A x \in Conns : x \in U[j - 1] => srvrun_start_held_resp(x, q[j]) \in U[j]
  PROVE  FoldLeft(srvrun_start_held_resp, k, q) \in Conns /\ FoldLeft(srvrun_start_held_resp, k, q) \in U[Len(q)]
  <1> DEFINE E == ReqSlots
             F == [p \in E \X Conns |-> srvrun_start_held_resp(p[2], p[1])]
             h == CHOOSE h : h = [s \in SUBSET (DOMAIN q) |->
                    IF s = {} THEN k ELSE srvrun_start_held_resp(h[s \ {Max(s)}], q[Max(s)])]
  <1>1. FoldLeft(srvrun_start_held_resp, k, q) = h[DOMAIN q]
    BY DEF FoldLeft, MapThenFoldSet
  <1>2. \A x \in Conns, e \in E : srvrun_start_held_resp(x, e) \in Conns
    BY StartHeldIs
  <1>3. F \in [E \X Conns -> Conns] /\ \A x \in Conns, e \in E : F[<<e, x>>] = srvrun_start_held_resp(x, e)
    BY <1>2
  <1> HIDE DEF F
  <1>4. PICK g \in [SUBSET (DOMAIN q) -> Conns] : \A s \in SUBSET (DOMAIN q) :
          g[s] = IF s = {} THEN k ELSE F[<<q[Max(s)], g[s \ {Max(s)}]>>]
    <2>1. Unfolds(Conns, F, k, q)
      BY <1>3, RunExists
    <2>q. QED  BY <2>1 DEF Unfolds
  <1>5. ASSUME NEW s \in SUBSET (DOMAIN q), s # {}
        PROVE  Max(s) \in DOMAIN q /\ q[Max(s)] \in E
    BY <1>5, RunMax
  <1>6. g = [s \in SUBSET (DOMAIN q) |->
               IF s = {} THEN k ELSE srvrun_start_held_resp(g[s \ {Max(s)}], q[Max(s)])]
    BY <1>3, <1>4, <1>5
  <1>7. h = [s \in SUBSET (DOMAIN q) |->
               IF s = {} THEN k ELSE srvrun_start_held_resp(h[s \ {Max(s)}], q[Max(s)])]
    BY <1>6
  <1> HIDE DEF h
  <1>8. h[{}] = k /\ \A s \in SUBSET (DOMAIN q) : s # {} /\ h[s \ {Max(s)}] \in Conns =>
                       h[s] = F[<<q[Max(s)], h[s \ {Max(s)}]>>]
    BY <1>3, <1>5, <1>7
  <1>9. IsRun(Conns, F, k, q, h[DOMAIN q])
    BY <1>3, <1>8, RunIs
  <1>10. \A j \in 1 .. Len(q) : \A x \in Conns : x \in U[j - 1] => F[<<q[j], x>>] \in U[j]
    BY <1>3
  <1>11. Len(q) \in Nat
    OBVIOUS
  <1>12. h[DOMAIN q] \in U[Len(q)]
    BY <1>9, <1>10, <1>11, RunKeeps
  <1>13. h[DOMAIN q] \in Conns
    BY <1>9, <1>11, RunTyped
  <1>q. QED  BY <1>1, <1>12, <1>13

\* The same of the loop over the completed requests.
LEMMA StartFold ==
  ASSUME NEW k \in Conns, NEW q \in Seq(ReqSlots), NEW U, k \in U[0],
         \A j \in 1 .. Len(q) : \A x \in Conns : x \in U[j - 1] => srvrun_start_done_resp(x, q[j]) \in U[j]
  PROVE  FoldLeft(srvrun_start_done_resp, k, q) \in Conns /\ FoldLeft(srvrun_start_done_resp, k, q) \in U[Len(q)]
  <1> DEFINE E == ReqSlots
             F == [p \in E \X Conns |-> srvrun_start_done_resp(p[2], p[1])]
             h == CHOOSE h : h = [s \in SUBSET (DOMAIN q) |->
                    IF s = {} THEN k ELSE srvrun_start_done_resp(h[s \ {Max(s)}], q[Max(s)])]
  <1>1. FoldLeft(srvrun_start_done_resp, k, q) = h[DOMAIN q]
    BY DEF FoldLeft, MapThenFoldSet
  <1>2. \A x \in Conns, e \in E : srvrun_start_done_resp(x, e) \in Conns
    BY StartDoneIs
  <1>3. F \in [E \X Conns -> Conns] /\ \A x \in Conns, e \in E : F[<<e, x>>] = srvrun_start_done_resp(x, e)
    BY <1>2
  <1> HIDE DEF F
  <1>4. PICK g \in [SUBSET (DOMAIN q) -> Conns] : \A s \in SUBSET (DOMAIN q) :
          g[s] = IF s = {} THEN k ELSE F[<<q[Max(s)], g[s \ {Max(s)}]>>]
    <2>1. Unfolds(Conns, F, k, q)
      BY <1>3, RunExists
    <2>q. QED  BY <2>1 DEF Unfolds
  <1>5. ASSUME NEW s \in SUBSET (DOMAIN q), s # {}
        PROVE  Max(s) \in DOMAIN q /\ q[Max(s)] \in E
    BY <1>5, RunMax
  <1>6. g = [s \in SUBSET (DOMAIN q) |->
               IF s = {} THEN k ELSE srvrun_start_done_resp(g[s \ {Max(s)}], q[Max(s)])]
    BY <1>3, <1>4, <1>5
  <1>7. h = [s \in SUBSET (DOMAIN q) |->
               IF s = {} THEN k ELSE srvrun_start_done_resp(h[s \ {Max(s)}], q[Max(s)])]
    BY <1>6
  <1> HIDE DEF h
  <1>8. h[{}] = k /\ \A s \in SUBSET (DOMAIN q) : s # {} /\ h[s \ {Max(s)}] \in Conns =>
                       h[s] = F[<<q[Max(s)], h[s \ {Max(s)}]>>]
    BY <1>3, <1>5, <1>7
  <1>9. IsRun(Conns, F, k, q, h[DOMAIN q])
    BY <1>3, <1>8, RunIs
  <1>10. \A j \in 1 .. Len(q) : \A x \in Conns : x \in U[j - 1] => F[<<q[j], x>>] \in U[j]
    BY <1>3
  <1>11. Len(q) \in Nat
    OBVIOUS
  <1>12. h[DOMAIN q] \in U[Len(q)]
    BY <1>9, <1>10, <1>11, RunKeeps
  <1>13. h[DOMAIN q] \in Conns
    BY <1>9, <1>11, RunTyped
  <1>q. QED  BY <1>1, <1>12, <1>13

-----------------------------------------------------------------------------
\* The whole step, from connection to connection: every stream is told of once,
\* and the limit never falls.

\* Sound connections whose limit is no lower than k's.
Grown(k) == {x \in Conns : x.limit >= k.limit}


\* The limit only grows, over two steps.
LEMMA GrownTwice ==
  ASSUME NEW k \in Conns, NEW n \in Grown(k), NEW m \in Grown(n)
  PROVE  m \in Grown(k)
  BY ConnTyped DEF Grown

\* A connection with the same limit or a higher one has grown.
LEMMA EndGrows ==
  ASSUME NEW k \in Conns, NEW s, NEW m, NEW F, NEW p \in Nat,
         Ends(k, s, m, F, p)
  PROVE  m \in Grown(k)
  BY ConnTyped DEF Ends, Moved, Grown

\* A change of other fields leaves the limit.
LEMMA KeptGrows ==
  ASSUME NEW k \in Conns, NEW m, NEW F, Kept(k, m, F), "limit" \notin F
  PROVE  m \in Grown(k)
  <1>1. m \in Conns /\ m.limit = k.limit
    BY DEF Kept, But, Fields
  <1>q. QED  BY <1>1, ConnTyped DEF Grown

\* The end of a stream leaves the limit or raises it.
LEMMA MovedGrows ==
  ASSUME NEW k \in Conns, NEW s, NEW m, NEW F, Moved(k, s, m, F), "limit" \notin F
  PROVE  m \in Grown(k)
  <1>1. m \in Conns /\ m.limit = k.limit
    BY DEF Moved, But, Fields
  <1>q. QED  BY <1>1, ConnTyped DEF Grown

\* srvrun_start_resp never lowers the limit.
LEMMA StartsGrows ==
  ASSUME NEW k \in Conns, NEW s \in Requests, NEW q, NEW m, m \in Conns, Starts(k, s, q, m)
  PROVE  m \in Grown(k)
  <1>1. CASE m = k
    BY <1>1, ConnTyped DEF Grown
  <1>2. CASE Refuses(k, s, m)
    BY <1>2, MovedGrows DEF Refuses
  <1>3. CASE Ends(k, s, m, {}, 1)
    BY <1>3, EndGrows
  <1>4. CASE Holds(k, s, m)
    BY <1>4, KeptGrows DEF Holds
  <1>5. CASE Busies(k, s, q, m)
    BY <1>5, KeptGrows DEF Busies
  <1>6. CASE Opens(k, s, q, m)
    BY <1>6, KeptGrows DEF Opens
  <1>7. CASE Answers(k, s, q, m)
    BY <1>7, KeptGrows DEF Answers
  <1>q. QED  BY <1>1, <1>2, <1>3, <1>4, <1>5, <1>6, <1>7 DEF Starts, Gated

\* Every call of the step leaves a connection of the proof.
LEMMA CallsGrow ==
  ASSUME NEW k \in Conns
  PROVE  /\ \A f \in Frames : route_land(k, f) \in Grown(k)
         /\ \A i \in ReqSlots : route_complete_touched(k, i) \in Grown(k)
         /\ \A f \in Frames : reset_frame(k, f) \in Grown(k)
         /\ \A f \in Frames : srvrun_answer_peer_stop(k, f) \in Grown(k)
         /\ \A f \in Frames : srvrun_drop_held(k, f) \in Grown(k)
         /\ \A i \in ReqSlots : srvrun_reset_free(k, i) \in Grown(k)
         /\ \A i \in ReqSlots : srvrun_abort_req(k, i) \in Grown(k)
         /\ \A i \in ReqSlots : srvrun_start_held_resp(k, i) \in Grown(k)
         /\ \A i \in ReqSlots : srvrun_start_done_resp(k, i) \in Grown(k)
  <1>0. k \in Grown(k) /\ \A f \in Frames : f[1] \in Requests
    BY ConnTyped DEF Grown, Frames
  <1>1. ASSUME NEW f \in Frames
        PROVE  route_land(k, f) \in Grown(k)
    <2> DEFINE m == route_land(k, f)
    <2>1. Lands(k, f, m)
      BY LandIs
    <2> HIDE DEF m
    <2>2. Kept(k, m, {"slot", "next", "touched"})
      BY <2>1 DEF Lands, Kept
    <2>3. m \in Grown(k)
      BY <2>2, KeptGrows
    <2>q. QED  BY <2>3 DEF m
  <1>2. ASSUME NEW i \in ReqSlots
        PROVE  route_complete_touched(k, i) \in Grown(k)
    <2> DEFINE m == srvloop_route_complete_slot(k, i)
    <2>1. Completes(k, i, m)
      BY CompleteIs
    <2> HIDE DEF m
    <2>2. Kept(k, m, {"slot", "qp", "ends", "began", "closed", "owed", "rs", "done", "inc"})
      BY <2>1 DEF Completes, Kept
    <2>3. m \in Grown(k)
      BY <2>2, KeptGrows
    <2>q. QED  BY <1>0, <2>3 DEF m, route_complete_touched
  <1>3. ASSUME NEW f \in Frames
        PROVE  reset_frame(k, f) \in Grown(k)
    <2> DEFINE m == reset_request_stream(k, f[1])
    <2>1. Resets(k, f[1], m)
      BY <1>0, ResetIs
    <2> HIDE DEF m
    <2>2. Kept(k, m, {"slot", "qp", "ends", "closed", "rs", "slotless"})
      BY <2>1 DEF Resets, Kept
    <2>3. m \in Grown(k)
      BY <2>2, KeptGrows
    <2>q. QED  BY <1>0, <2>3 DEF m, reset_frame
  <1>4. ASSUME NEW f \in Frames
        PROVE  srvrun_answer_peer_stop(k, f) \in Grown(k)
    <2> DEFINE s == f[1]
               m == answer_stream_stop(k, s)
    <2>0. s \in Requests
      BY <1>0
    <2>1. Stops(k, s, m)
      BY <2>0, StopIs
    <2>2. srvrun_answer_peer_stop(k, f) \in {k, m}
      BY DEF srvrun_answer_peer_stop
    <2> HIDE DEF m, s
    <2>3. Closes(k, s, m) => m \in Grown(k)
      BY MovedGrows DEF Closes
    <2>4. Finishes(k, s, m) => m \in Grown(k)
      BY EndGrows DEF Finishes
    <2>5. Cancels(k, s, m) => m \in Grown(k)
      BY EndGrows DEF Cancels
    <2>6. Silences(k, s, m) => m \in Grown(k)
      BY KeptGrows DEF Silences
    <2>7. m \in Grown(k)
      BY <1>0, <2>1, <2>3, <2>4, <2>5, <2>6 DEF Stops
    <2>q. QED  BY <1>0, <2>2, <2>7
  <1>5. ASSUME NEW f \in Frames
        PROVE  srvrun_drop_held(k, f) \in Grown(k)
    <2> DEFINE m == srvrun_drop_held(k, f)
    <2>1. m = k \/ Ends(k, f[1], m, {"held"}, 1)
      BY DropIs DEF Drops
    <2> HIDE DEF m
    <2>2. m \in Grown(k)
      BY <1>0, <2>1, EndGrows
    <2>q. QED  BY <2>2 DEF m
  <1>6. ASSUME NEW i \in ReqSlots
        PROVE  srvrun_reset_free(k, i) \in Grown(k)
    <2> DEFINE m == srvrun_reset_free(k, i)
    <2>1. m = k \/ Ends(k, k.slot[i].id, m, {}, 1)
      BY ResetFreeIs DEF FreesReset
    <2> HIDE DEF m
    <2>2. m \in Grown(k)
      BY <1>0, <2>1, EndGrows
    <2>q. QED  BY <2>2 DEF m
  <1>7. ASSUME NEW i \in ReqSlots
        PROVE  srvrun_abort_req(k, i) \in Grown(k)
    <2> DEFINE m == srvrun_abort_req(k, i)
    <2>1. Cancels(k, k.slot[i].id, m) \/ Silences(k, k.slot[i].id, m)
      BY AbortReqIs DEF Rejects
    <2> HIDE DEF m
    <2>3. Cancels(k, k.slot[i].id, m) => m \in Grown(k)
      BY EndGrows DEF Cancels
    <2>4. Silences(k, k.slot[i].id, m) => m \in Grown(k)
      BY KeptGrows DEF Silences
    <2>2. m \in Grown(k)
      BY <2>1, <2>3, <2>4
    <2>q. QED  BY <2>2 DEF m
  <1>8. ASSUME NEW i \in ReqSlots
        PROVE  srvrun_start_held_resp(k, i) \in Grown(k)
    <2> DEFINE m == srvrun_start_held_resp(k, i)
    <2>1. Wakes(k, i, m) /\ m \in Conns
      BY StartHeldIs
    <2> HIDE DEF m
    <2>2. m = k => m \in Grown(k)
      BY <1>0
    <2>3. ASSUME m # k  PROVE m \in Grown(k)
      <3>1. PICK n \in Conns : /\ Kept(k, n, {"held"})
                               /\ m = n \/ Starts(n, n.slot[i].id, n.slot[i].req, m)
        BY <2>1, <2>3 DEF Wakes
      <3>2. n \in Grown(k) /\ n.slot[i].id \in Requests /\ n \in Grown(n)
        BY <3>1, KeptGrows, ConnTyped DEF Grown
      <3>3. m \in Grown(n)
        BY <2>1, <3>1, <3>2, StartsGrows
      <3>q. QED  BY <3>2, <3>3, GrownTwice
    <2>4. m \in Grown(k)
      BY <2>2, <2>3
    <2>q. QED  BY <2>4 DEF m
  <1>9. ASSUME NEW i \in ReqSlots
        PROVE  srvrun_start_done_resp(k, i) \in Grown(k)
    BY StartDoneIs, StartsGrows, ConnTyped
  <1>q. QED  BY <1>1, <1>2, <1>3, <1>4, <1>5, <1>6, <1>7, <1>8, <1>9

\* ... and so does every loop.
LEMMA LandGrows ==
  ASSUME NEW k \in Conns, NEW q \in Seq(Frames)
  PROVE  FoldLeft(route_land, k, q) \in Grown(k)
  <1> DEFINE U == [j \in Nat |-> Grown(k)]
  <1>1. Len(q) \in Nat /\ \A j \in 1 .. Len(q) : q[j] \in Frames /\ j \in Nat /\ j - 1 \in Nat
    OBVIOUS
  <1>2. \A x \in Conns, e \in Frames : x \in Grown(k) => route_land(x, e) \in Grown(k)
    BY CallsGrow, GrownTwice
  <1>3. \A j \in 1 .. Len(q) : \A x \in Conns : x \in U[j - 1] => route_land(x, q[j]) \in U[j]
    BY <1>1, <1>2
  <1>4. k \in U[0] /\ U[Len(q)] = Grown(k)
    BY <1>1, ConnTyped DEF Grown
  <1> HIDE DEF U
  <1>q. QED  BY <1>3, <1>4, LandFold

\* Nor does any loop: over the slots with new bytes,
LEMMA CompleteGrows ==
  ASSUME NEW k \in Conns, NEW q \in Seq(ReqSlots)
  PROVE  FoldLeft(route_complete_touched, k, q) \in Grown(k)
  <1> DEFINE U == [j \in Nat |-> Grown(k)]
  <1>1. Len(q) \in Nat /\ \A j \in 1 .. Len(q) : q[j] \in ReqSlots /\ j \in Nat /\ j - 1 \in Nat
    OBVIOUS
  <1>2. \A x \in Conns, e \in ReqSlots : x \in Grown(k) => route_complete_touched(x, e) \in Grown(k)
    BY CallsGrow, GrownTwice
  <1>3. \A j \in 1 .. Len(q) : \A x \in Conns : x \in U[j - 1] => route_complete_touched(x, q[j]) \in U[j]
    BY <1>1, <1>2
  <1>4. k \in U[0] /\ U[Len(q)] = Grown(k)
    BY <1>1, ConnTyped DEF Grown
  <1> HIDE DEF U
  <1>q. QED  BY <1>3, <1>4, CompleteFold

\* over the resets,
LEMMA ResetGrows ==
  ASSUME NEW k \in Conns, NEW q \in Seq(Frames)
  PROVE  FoldLeft(reset_frame, k, q) \in Grown(k)
  <1> DEFINE U == [j \in Nat |-> Grown(k)]
  <1>1. Len(q) \in Nat /\ \A j \in 1 .. Len(q) : q[j] \in Frames /\ j \in Nat /\ j - 1 \in Nat
    OBVIOUS
  <1>2. \A x \in Conns, e \in Frames : x \in Grown(k) => reset_frame(x, e) \in Grown(k)
    BY CallsGrow, GrownTwice
  <1>3. \A j \in 1 .. Len(q) : \A x \in Conns : x \in U[j - 1] => reset_frame(x, q[j]) \in U[j]
    BY <1>1, <1>2
  <1>4. k \in U[0] /\ U[Len(q)] = Grown(k)
    BY <1>1, ConnTyped DEF Grown
  <1> HIDE DEF U
  <1>q. QED  BY <1>3, <1>4, ResetFold

\* over the STOP_SENDINGs,
LEMMA StopGrows ==
  ASSUME NEW k \in Conns, NEW q \in Seq(Frames)
  PROVE  FoldLeft(srvrun_answer_peer_stop, k, q) \in Grown(k)
  <1> DEFINE U == [j \in Nat |-> Grown(k)]
  <1>1. Len(q) \in Nat /\ \A j \in 1 .. Len(q) : q[j] \in Frames /\ j \in Nat /\ j - 1 \in Nat
    OBVIOUS
  <1>2. \A x \in Conns, e \in Frames : x \in Grown(k) => srvrun_answer_peer_stop(x, e) \in Grown(k)
    BY CallsGrow, GrownTwice
  <1>3. \A j \in 1 .. Len(q) : \A x \in Conns : x \in U[j - 1] => srvrun_answer_peer_stop(x, q[j]) \in U[j]
    BY <1>1, <1>2
  <1>4. k \in U[0] /\ U[Len(q)] = Grown(k)
    BY <1>1, ConnTyped DEF Grown
  <1> HIDE DEF U
  <1>q. QED  BY <1>3, <1>4, StopFold

\* over the held CONNECTs that are reset,
LEMMA DropGrows ==
  ASSUME NEW k \in Conns, NEW q \in Seq(Frames)
  PROVE  FoldLeft(srvrun_drop_held, k, q) \in Grown(k)
  <1> DEFINE U == [j \in Nat |-> Grown(k)]
  <1>1. Len(q) \in Nat /\ \A j \in 1 .. Len(q) : q[j] \in Frames /\ j \in Nat /\ j - 1 \in Nat
    OBVIOUS
  <1>2. \A x \in Conns, e \in Frames : x \in Grown(k) => srvrun_drop_held(x, e) \in Grown(k)
    BY CallsGrow, GrownTwice
  <1>3. \A j \in 1 .. Len(q) : \A x \in Conns : x \in U[j - 1] => srvrun_drop_held(x, q[j]) \in U[j]
    BY <1>1, <1>2
  <1>4. k \in U[0] /\ U[Len(q)] = Grown(k)
    BY <1>1, ConnTyped DEF Grown
  <1> HIDE DEF U
  <1>q. QED  BY <1>3, <1>4, DropFold

\* over the slots noted as reset,
LEMMA FreeGrows ==
  ASSUME NEW k \in Conns, NEW q \in Seq(ReqSlots)
  PROVE  FoldLeft(srvrun_reset_free, k, q) \in Grown(k)
  <1> DEFINE U == [j \in Nat |-> Grown(k)]
  <1>1. Len(q) \in Nat /\ \A j \in 1 .. Len(q) : q[j] \in ReqSlots /\ j \in Nat /\ j - 1 \in Nat
    OBVIOUS
  <1>2. \A x \in Conns, e \in ReqSlots : x \in Grown(k) => srvrun_reset_free(x, e) \in Grown(k)
    BY CallsGrow, GrownTwice
  <1>3. \A j \in 1 .. Len(q) : \A x \in Conns : x \in U[j - 1] => srvrun_reset_free(x, q[j]) \in U[j]
    BY <1>1, <1>2
  <1>4. k \in U[0] /\ U[Len(q)] = Grown(k)
    BY <1>1, ConnTyped DEF Grown
  <1> HIDE DEF U
  <1>q. QED  BY <1>3, <1>4, FreeFold

\* over the rejected requests,
LEMMA AbortGrows ==
  ASSUME NEW k \in Conns, NEW q \in Seq(ReqSlots)
  PROVE  FoldLeft(srvrun_abort_req, k, q) \in Grown(k)
  <1> DEFINE U == [j \in Nat |-> Grown(k)]
  <1>1. Len(q) \in Nat /\ \A j \in 1 .. Len(q) : q[j] \in ReqSlots /\ j \in Nat /\ j - 1 \in Nat
    OBVIOUS
  <1>2. \A x \in Conns, e \in ReqSlots : x \in Grown(k) => srvrun_abort_req(x, e) \in Grown(k)
    BY CallsGrow, GrownTwice
  <1>3. \A j \in 1 .. Len(q) : \A x \in Conns : x \in U[j - 1] => srvrun_abort_req(x, q[j]) \in U[j]
    BY <1>1, <1>2
  <1>4. k \in U[0] /\ U[Len(q)] = Grown(k)
    BY <1>1, ConnTyped DEF Grown
  <1> HIDE DEF U
  <1>q. QED  BY <1>3, <1>4, AbortFold

\* over the held CONNECTs that start,
LEMMA WakeGrows ==
  ASSUME NEW k \in Conns, NEW q \in Seq(ReqSlots)
  PROVE  FoldLeft(srvrun_start_held_resp, k, q) \in Grown(k)
  <1> DEFINE U == [j \in Nat |-> Grown(k)]
  <1>1. Len(q) \in Nat /\ \A j \in 1 .. Len(q) : q[j] \in ReqSlots /\ j \in Nat /\ j - 1 \in Nat
    OBVIOUS
  <1>2. \A x \in Conns, e \in ReqSlots : x \in Grown(k) => srvrun_start_held_resp(x, e) \in Grown(k)
    BY CallsGrow, GrownTwice
  <1>3. \A j \in 1 .. Len(q) : \A x \in Conns : x \in U[j - 1] => srvrun_start_held_resp(x, q[j]) \in U[j]
    BY <1>1, <1>2
  <1>4. k \in U[0] /\ U[Len(q)] = Grown(k)
    BY <1>1, ConnTyped DEF Grown
  <1> HIDE DEF U
  <1>q. QED  BY <1>3, <1>4, WakeFold

\* over the completed requests.
LEMMA StartGrows ==
  ASSUME NEW k \in Conns, NEW q \in Seq(ReqSlots)
  PROVE  FoldLeft(srvrun_start_done_resp, k, q) \in Grown(k)
  <1> DEFINE U == [j \in Nat |-> Grown(k)]
  <1>1. Len(q) \in Nat /\ \A j \in 1 .. Len(q) : q[j] \in ReqSlots /\ j \in Nat /\ j - 1 \in Nat
    OBVIOUS
  <1>2. \A x \in Conns, e \in ReqSlots : x \in Grown(k) => srvrun_start_done_resp(x, e) \in Grown(k)
    BY CallsGrow, GrownTwice
  <1>3. \A j \in 1 .. Len(q) : \A x \in Conns : x \in U[j - 1] => srvrun_start_done_resp(x, q[j]) \in U[j]
    BY <1>1, <1>2
  <1>4. k \in U[0] /\ U[Len(q)] = Grown(k)
    BY <1>1, ConnTyped DEF Grown
  <1> HIDE DEF U
  <1>q. QED  BY <1>3, <1>4, StartFold

\* The slots in their order are a sequence of slots.
LEMMA InOrder == SlotsInOrder \in Seq(ReqSlots)
  <1>1. Cap \in Nat
    BY ReqAssumption
  <1>q. QED  BY <1>1 DEF SlotsInOrder, ReqSlots

\* wired_srvloop_step.
LEMMA LoopGrows ==
  ASSUME NEW k \in Conns, NEW dg \in Seq(Frames)
  PROVE  wired_srvloop_step(k, dg) \in Grown(k)
  <1> DEFINE a == srvloop_step_reset(k)
             l == FoldLeft(route_land, a, dg)
             d == FoldLeft(route_complete_touched, l, SlotsInOrder)
             r == FoldLeft(reset_frame, d, dg)
             m == srvloop_rearm(r)
  <1>0. wired_srvloop_step(k, dg) = m
    BY DEF wired_srvloop_step
  <1>1. a \in Grown(k)
    BY StepResetIs, KeptGrows DEF Clears, Kept
  <1> HIDE DEF a
  <1>2. l \in Grown(a)
    BY <1>1, LandGrows DEF Grown
  <1> HIDE DEF l
  <1>3. d \in Grown(l)
    BY <1>2, InOrder, CompleteGrows DEF Grown
  <1> HIDE DEF d
  <1>4. r \in Grown(d)
    BY <1>3, ResetGrows DEF Grown
  <1> HIDE DEF r
  <1>5. m \in Grown(r)
    BY <1>4, RearmIs, KeptGrows DEF Rearms, Kept, Grown
  <1> HIDE DEF m
  <1>6. a \in Conns /\ l \in Conns /\ d \in Conns /\ r \in Conns
    BY <1>1, <1>2, <1>3, <1>4 DEF Grown
  <1>q. QED  BY <1>0, <1>1, <1>2, <1>3, <1>4, <1>5, <1>6, GrownTwice

\* The stream that closes its session is one of the datagram.
LEMMA CloseOnEndIs ==
  ASSUME NEW k \in Conns, NEW dg \in Seq(Frames)
  PROVE  LET m == srvrun_close_wt_on_stream_close(k, dg) IN
         \/ m = k /\ \A j \in DOMAIN dg : dg[j][2] \notin {"tail", "reset"}
         \/ \E j \in DOMAIN dg : /\ dg[j][2] \in {"tail", "reset"} /\ dg[j][1] \in Requests
                                 /\ IF dg[j][1] \in k.sess THEN Closes(k, dg[j][1], m) ELSE m = k
  <1> DEFINE m  == srvrun_close_wt_on_stream_close(k, dg)
             E  == {j \in DOMAIN dg : dg[j][2] \in {"tail", "reset"}}
             j0 == Max(E)
             s  == dg[j0][1]
  <1>1. m = IF E # {} /\ s \in k.sess THEN close_wt_session_slot(k, s) ELSE k
    BY DEF srvrun_close_wt_on_stream_close
  <1>2. ASSUME E # {}  PROVE j0 \in E /\ s \in Requests
    <2>1. Max(E) \in E /\ dg[Max(E)] \in Frames
      BY <1>2, RunMax
    <2>q. QED  BY <2>1 DEF Frames
  <1>3. ASSUME E # {}  PROVE Closes(k, s, close_wt_session_slot(k, s))
    BY <1>2, <1>3, CloseIs
  <1> HIDE DEF j0, m
  <1>q. QED  BY <1>1, <1>2, <1>3 DEF m

\* srvrun_free_reset_reqs and srvrun_live_streams.
LEMMA LiveGrows ==
  ASSUME NEW k \in Conns, NEW dg \in Seq(Frames)
  PROVE  srvrun_live_streams(k, dg) \in Grown(k)
  <1> DEFINE a == srvrun_close_wt_on_stream_close(k, dg)
             b == FoldLeft(srvrun_answer_peer_stop, a, dg)
             d == FoldLeft(srvrun_drop_held, b, dg)
             e == FoldLeft(srvrun_reset_free, d, SlotsInOrder)
             g == srvrun_grant_streams(e, d.slotless)
             m == srvrun_grant_streams(g, k.owed)
  <1>0. srvrun_live_streams(k, dg) = m
    BY DEF srvrun_live_streams, srvrun_free_reset_reqs
  <1>1. a \in Grown(k)
    <2>1. k \in Grown(k)
      BY ConnTyped DEF Grown
    <2>2. a = k \/ \E s : Closes(k, s, a)
      BY CloseOnEndIs
    <2> HIDE DEF a
    <2>q. QED  BY <2>1, <2>2, MovedGrows DEF Closes
  <1> HIDE DEF a
  <1>2. b \in Grown(a)
    BY <1>1, StopGrows DEF Grown
  <1> HIDE DEF b
  <1>3. d \in Grown(b)
    BY <1>2, DropGrows DEF Grown
  <1> HIDE DEF d
  <1>4. e \in Grown(d)
    BY <1>3, InOrder, FreeGrows DEF Grown
  <1> HIDE DEF e
  <1>5. a \in Conns /\ b \in Conns /\ d \in Conns /\ e \in Conns
    BY <1>1, <1>2, <1>3, <1>4 DEF Grown
  <1>6. g \in Grown(e)
    <2>1. d.slotless \in Nat
      BY <1>5, ConnTyped
    <2>2. Grants(e, d.slotless, g)
      BY <1>5, <2>1, GrantIs
    <2> HIDE DEF g
    <2>q. QED  BY <1>5, <2>1, <2>2, ConnTyped DEF Grants, Kept, Grown
  <1> HIDE DEF g
  <1>7. g \in Conns
    BY <1>6 DEF Grown
  <1>8. m \in Grown(g)
    <2>1. k.owed \in Nat
      BY ConnTyped
    <2>2. Grants(g, k.owed, m)
      BY <1>7, <2>1, GrantIs
    <2> HIDE DEF m
    <2>q. QED  BY <1>7, <2>1, <2>2, ConnTyped DEF Grants, Kept, Grown
  <1> HIDE DEF m
  <1>q. QED  BY <1>0, <1>1, <1>2, <1>3, <1>4, <1>5, <1>6, <1>7, <1>8, GrownTwice

\* srvrun_sess_on_step.
LEMMA SessGrows ==
  ASSUME NEW k \in Conns, NEW acked \in Request
  PROVE  srvrun_sess_on_step(k, acked) \in Grown(k)
  <1> DEFINE a == IF acked = Nil \/ k.resp[acked] = Nil THEN k ELSE srvrun_resp_reap(k, acked)
             b == FoldLeft(srvrun_abort_req, a, k.inc)
             w == IF ~ k.settings THEN b ELSE FoldLeft(srvrun_start_held_resp, b, SlotsInOrder)
             m == FoldLeft(srvrun_start_done_resp, w, k.done)
  <1>0. srvrun_sess_on_step(k, acked) = m
    BY DEF srvrun_sess_on_step
  <1>1. a \in Grown(k)
    <2>1. k \in Grown(k)
      BY ConnTyped DEF Grown
    <2>2. ASSUME acked # Nil  PROVE srvrun_resp_reap(k, acked) \in Grown(k)
      <3> DEFINE n == srvrun_resp_reap(k, acked)
      <3>1. Acks(k, acked, n) \/ Finishes(k, acked, n)
        BY <2>2, ReapIs DEF Request
      <3> HIDE DEF n
      <3>2. Acks(k, acked, n) => n \in Grown(k)
        BY ConnTyped DEF Acks, Kept, Grown
      <3>3. Finishes(k, acked, n) => n \in Grown(k)
        BY EndGrows DEF Finishes
      <3>4. n \in Grown(k)
        BY <3>1, <3>2, <3>3
      <3>q. QED  BY <3>4 DEF n
    <2>q. QED  BY <2>1, <2>2
  <1> HIDE DEF a
  <1>2. a \in Conns /\ k.inc \in Seq(ReqSlots) /\ k.done \in Seq(ReqSlots)
    BY <1>1, ConnTyped DEF Grown
  <1>3. b \in Grown(a)
    BY <1>2, AbortGrows
  <1> HIDE DEF b
  <1>4. b \in Conns /\ b \in Grown(b)
    BY <1>3, ConnTyped DEF Grown
  <1>5. w \in Grown(b)
    BY <1>4, InOrder, WakeGrows
  <1> HIDE DEF w
  <1>6. w \in Conns
    BY <1>5 DEF Grown
  <1>7. m \in Grown(w)
    BY <1>2, <1>6, StartGrows
  <1> HIDE DEF m
  <1>q. QED  BY <1>0, <1>1, <1>2, <1>3, <1>4, <1>5, <1>6, <1>7, GrownTwice

-----------------------------------------------------------------------------
\* The type invariant and EndToldOnce.

\* The inductive invariant of ReqTypeOK and EndToldOnce, for all input.
ReqInv ==
  /\ kind \in [Requests -> Kinds] /\ c \in Conns
  /\ client \in Nat /\ net \in Nat /\ client <= c.limit /\ net <= c.limit

\* A new connection is sound.
LEMMA NewConnIs ==
  ASSUME NEW b \in BOOLEAN
  PROVE  NewConn(b) \in Conns
  <1> DEFINE k == NewConn(b)
  <1>1. FreeSlot \in Slot /\ ~ FreeSlot.use /\ FreeSlot.got = {} /\ FreeSlot.body = "off"
    BY ReqAssumption DEF FreeSlot, Slot, Request, Bodies
  <1>2. {Base, Cap} \subseteq Nat /\ Nil \in Request
    BY ReqAssumption DEF Request
  <1>3. k \in Conn
    <2> HIDE DEF FreeSlot
    <2>q. QED  BY <1>1, <1>2 DEF Conn, NewConn
  <1>4. /\ \A i \in ReqSlots : k.slot[i] = FreeSlot
        /\ k.closed = {} /\ \A s \in Requests : k.qp[s] = 0 /\ k.ends[s] = 0 /\ ~ k.began[s]
    BY DEF NewConn
  <1> HIDE DEF k
  <1>5. Told(k)
    BY <1>1, <1>4 DEF Told, Owns
  <1>6. k \in Conns
    BY <1>3, <1>5 DEF Conns
  <1>q. QED  BY <1>6 DEF k

\* ReqInv holds initially.
LEMMA ReqStarts == ReqInit => ReqInv
  <1> SUFFICES ASSUME ReqInit  PROVE ReqInv
    OBVIOUS
  <1>1. PICK x \in Cases : kind = x.kind /\ c = NewConn(x.streamed)
    BY DEF ReqInit
  <1>2. x.kind \in [Requests -> Kinds] /\ x.streamed \in BOOLEAN /\ Base \in Nat
    BY <1>1, ReqAssumption
  <1>3. c \in Conns
    BY <1>1, <1>2, NewConnIs
  <1>4. c.limit = Base
    BY <1>1 DEF NewConn
  <1>5. client = Base /\ net = 0
    BY DEF ReqInit
  <1>q. QED  BY <1>1, <1>2, <1>3, <1>4, <1>5 DEF ReqInv

\* A connection of the proof stays one while the client's requests do.
LEMMA ConnsStay ==
  ASSUME kind' = kind, c' \in Conns
  PROVE  (c \in Conns)'
  <1>1. c' \in Conn /\ Told(c')
    BY DEF Conns
  <1>2. \A i \in ReqSlots : SlotTold(c', i) => SlotTold(c, i)'
    BY DEF SlotTold
  <1>3. \A i, s : Owns(c', i, s) <=> Owns(c, i, s)'
    BY DEF Owns
  <1>4. Told(c)'
    BY <1>1, <1>2, <1>3 DEF Told
  <1>q. QED  BY <1>1, <1>4 DEF Conns

\* Settle: what the call leaves is the connection.
LEMMA SettleKeeps ==
  ASSUME ReqInv, kind' = kind, client' = client, NEW k \in Grown(c), Settle(k)
  PROVE  ReqInv'
  <1>1. c \in Conns /\ k \in Conns /\ k.limit >= c.limit /\ c.limit \in Nat /\ k.limit \in Nat
    BY ConnTyped DEF ReqInv, Grown
  <1>2. c' = srvloop_step_reset(k) /\ net' = IF k.limit > c.limit THEN k.limit ELSE net
    BY DEF Settle
  <1>3. c' \in Conns /\ c'.limit = k.limit
    <2>1. Clears(k, c')
      BY <1>1, <1>2, StepResetIs
    <2>q. QED  BY <2>1 DEF Clears, But, Fields
  <1>4. (c \in Conns)'
    BY <1>3, ConnsStay
  <1>q. QED  BY <1>1, <1>2, <1>3, <1>4 DEF ReqInv

\* One datagram.
LEMMA ReqStepKeeps ==
  ASSUME ReqInv, NEW dg \in Seq(Frames), NEW acked \in Request, NEW b \in BOOLEAN,
         ReqStep(dg, acked, b)
  PROVE  ReqInv'
  <1> DEFINE v == c.settings \/ b
             k == [c EXCEPT !.settings = c.settings \/ b]
             w == wired_srvloop_step(k, dg)
             l == srvrun_live_streams(w, dg)
             m == srvrun_sess_on_step(l, acked)
  <1>0. c \in Conns /\ c.settings \in BOOLEAN
    BY ConnTyped DEF ReqInv
  <1>1. Settle(m) /\ kind' = kind /\ client' = client
    BY DEF ReqStep
  <1>2. k \in Grown(c)
    <2>0. v \in BOOLEAN /\ k = SetSettings(c, v)
      BY <1>0 DEF SetSettings
    <2> HIDE DEF v, k
    <2>1. Kept(c, k, {"settings"})
      BY <1>0, <2>0, SetSettingsIs
    <2>q. QED  BY <1>0, <2>1, KeptGrows
  <1> HIDE DEF k
  <1>3. w \in Grown(k)
    BY <1>2, LoopGrows DEF Grown
  <1> HIDE DEF w
  <1>4. l \in Grown(w)
    BY <1>3, LiveGrows DEF Grown
  <1> HIDE DEF l
  <1>5. m \in Grown(l)
    BY <1>4, SessGrows DEF Grown
  <1> HIDE DEF m
  <1>6. k \in Conns /\ w \in Conns /\ l \in Conns
    BY <1>2, <1>3, <1>4 DEF Grown
  <1>7. m \in Grown(c)
    BY <1>0, <1>2, <1>3, <1>4, <1>5, <1>6, GrownTwice
  <1>q. QED  BY <1>1, <1>7, SettleKeeps

\* Every step keeps ReqInv.
LEMMA ReqKeeps == ReqInv /\ [ReqNext]_reqVars => ReqInv'
  <1> SUFFICES ASSUME ReqInv, [ReqNext]_reqVars  PROVE ReqInv'
    OBVIOUS
  <1>0. c \in Conns /\ c.limit \in Nat /\ c.next \in Nat /\ c.retries \in Nat
    BY ConnTyped DEF ReqInv
  <1>1. ASSUME NEW dg \in Datagrams, NEW acked \in Request, ReqStep(dg, acked, FALSE)
        PROVE  ReqInv'
    <2> DEFINE b == FALSE
    <2>1. dg \in Seq(Frames) /\ b \in BOOLEAN /\ ReqStep(dg, acked, b)
      BY <1>1, ReqAssumption
    <2> HIDE DEF b
    <2>q. QED  BY <2>1, ReqStepKeeps
  <1>2. CASE ReqStep(<<>>, Nil, TRUE)
    <2> DEFINE b == TRUE
               dg == <<>>
    <2>1. dg \in Seq(Frames) /\ b \in BOOLEAN /\ Nil \in Request
      BY DEF Request
    <2>2. ReqStep(dg, Nil, b)
      BY <1>2, Zenon
    <2> HIDE DEF b, dg
    <2>q. QED  BY <2>1, <2>2, ReqStepKeeps
  <1>3. CASE GoAway
    <2>1. c' = SetGoaway(c, c.next) /\ kind' = kind /\ client' = client /\ net' = net
      BY <1>3 DEF GoAway, SetGoaway
    <2>2. Kept(c, c', {"goaway"})
      BY <1>0, <2>1, SetGoawayIs
    <2>3. c' \in Conns /\ c'.limit = c.limit
      BY <2>2 DEF Kept, But, Fields
    <2>4. (c \in Conns)'
      BY <2>1, <2>3, ConnsStay
    <2>q. QED  BY <2>1, <2>3, <2>4 DEF ReqInv
  <1>4. ASSUME NEW s \in Requests, CloseSession(s)
        PROVE  ReqInv'
    <2> DEFINE m == close_wt_session_slot(c, s)
    <2>1. Closes(c, s, m) /\ Settle(m) /\ kind' = kind /\ client' = client
      BY <1>0, <1>4, CloseIs DEF CloseSession
    <2> HIDE DEF m
    <2>2. m \in Grown(c)
      BY <1>0, <2>1, MovedGrows DEF Closes
    <2>q. QED  BY <2>1, <2>2, SettleKeeps
  <1>5. CASE GrantRetry
    <2>1. /\ c' = SetRetries(c, c.retries - 1) /\ kind' = kind /\ client' = client
          /\ net' = c.limit /\ c.retries - 1 \in Nat
      BY <1>0, <1>5 DEF GrantRetry, SetRetries
    <2>2. Kept(c, c', {"retries"})
      BY <1>0, <2>1, SetRetriesIs
    <2>3. c' \in Conns /\ c'.limit = c.limit
      BY <2>2 DEF Kept, But, Fields
    <2>4. (c \in Conns)'
      BY <2>1, <2>3, ConnsStay
    <2>q. QED  BY <1>0, <2>1, <2>3, <2>4 DEF ReqInv
  <1>6. CASE c' = c /\ kind' = kind /\ client' \in {client, net} /\ net' \in {net, 0, c.limit}
    <2>1. (c \in Conns)'
      BY <1>0, <1>6, ConnsStay
    <2>q. QED  BY <1>0, <1>6, <2>1 DEF ReqInv
  <1>7. CASE Reannounce \/ Deliver \/ Lose \/ UNCHANGED reqVars
    BY <1>6, <1>7 DEF Reannounce, Deliver, Lose, reqVars
  <1>q. QED  BY <1>1, <1>2, <1>3, <1>4, <1>5, <1>7 DEF ReqNext

\* ReqTypeOK for every table, limit and datagram: whatever the peer sends, no stream
\* has two slots (wired_srvloop_slot_for) and no MAX_STREAMS frame, nor the limit the
\* client knows, is ahead of the server's own (srvrun_grant_streams only raises it).
THEOREM ReqTyped == ReqSpec => []ReqTypeOK
  <1>1. ReqInv => ReqTypeOK
    <2> SUFFICES ASSUME ReqInv  PROVE ReqTypeOK
      OBVIOUS
    <2>1. c \in Conn /\ Told(c)
      BY DEF ReqInv, Conns
    <2>2. \A i, j \in ReqSlots : c.slot[i].use /\ c.slot[j].use /\ c.slot[i].id = c.slot[j].id
            => i = j
      BY <2>1 DEF Told, Owns
    <2>3. c.slot \in [ReqSlots -> Slot] /\ c.streamed \in BOOLEAN
      BY <2>1 DEF Conn
    <2>4. /\ c.resp \in [Requests -> Request] /\ c.held \in [ReqSlots -> Request]
          /\ {c.closed, c.sendDone, c.sess} \subseteq SUBSET Requests
      BY <2>1 DEF Conn
    <2>q. QED  BY <2>2, <2>3, <2>4 DEF ReqInv, ReqTypeOK, Slot, Bodies
  <1>q. QED  BY <1>1, ReqStarts, ReqKeeps, PTL DEF ReqSpec

\* EndToldOnce: whatever arrives, and even when a freed slot is left on a list, the
\* peer's QPACK encoder hears of a stream at most once (qdec_settle), and the application
\* hears exactly one end of a request's body that began (srvloop_body_abort,
\* route_body_pump).
THEOREM EndTold == ReqSpec => []EndToldOnce
  <1>1. ReqInv => EndToldOnce
    <2> SUFFICES ASSUME ReqInv, NEW s \in Requests
                 PROVE  /\ c.qp[s] <= 1 /\ c.ends[s] <= 1
                        /\ kind[s] = "get" /\ c.began[s] /\ s \in c.closed => c.ends[s] = 1
      BY DEF EndToldOnce
    <2>1. Told(c)
      BY DEF ReqInv, Conns
    <2>2. CASE s \in c.closed
      BY <2>1, <2>2 DEF Told
    <2>3. ASSUME s \notin c.closed, NEW i \in ReqSlots, Owns(c, i, s)
          PROVE  c.qp[s] <= 1 /\ c.ends[s] <= 1
      BY <2>1, <2>3 DEF Told, SlotTold, Owns
    <2>4. CASE s \notin c.closed /\ \A i \in ReqSlots : ~ Owns(c, i, s)
      BY <2>1, <2>4 DEF Told
    <2>q. QED  BY <2>2, <2>3, <2>4
  <1>q. QED  BY <1>1, ReqStarts, ReqKeeps, PTL DEF ReqSpec

-----------------------------------------------------------------------------
\* AnsweredOnce, NoFrameAfterReset and CreditBounded.  They speak of the inputs that
\* leave no freed slot on a list, and need to know for every stream how far its
\* request and its answer are.

\* The stream has a slot or is closed; how far its request and its answer are.
Lives(k, s) == s \in k.closed \/ \E i \in ReqSlots : Owns(k, i, s)

Asked(k, s) ==
  /\ k.ans[s] \in {<<>>, <<s>>}
  /\ k.ans[s] # <<>> => s \in k.closed \/ k.resp[s] # Nil \/ s \in k.sess
  /\ k.resp[s] # Nil => /\ kind[s] \in {"get", "connect"} /\ s < k.next /\ ~ Past(k, s)
                        /\ s \notin k.unpaid /\ s \notin k.early /\ Lives(k, s)
                        /\ s \in k.sendDone => s \in k.busy \/ s \in k.closed
                        /\ s \in k.zero => s \in k.busy
  /\ s \in k.sess => /\ kind[s] = "connect" /\ s < k.next /\ ~ Past(k, s)
                     /\ s \notin k.sendDone /\ Lives(k, s)
                     /\ k.resp[s] # Nil \/ s \in k.early
  /\ s \in k.zero => s \in k.sendDone
  /\ s \in k.unpaid => s \in k.closed
  /\ s \in k.early => s \in k.sess \/ s \in k.closed

\* A slot in use is below the next GOAWAY, and a CONNECT completes with its head.
Taken(k) == \A i \in ReqSlots : k.slot[i].use =>
  /\ k.slot[i].id < k.next
  /\ kind[k.slot[i].id] \in {"connect", "wtbad"} /\ "head" \in k.slot[i].got => k.slot[i].done

\* A CONNECT held until SETTINGS still has its slot and nothing was sent for it.
Waiting(k, s) ==
  /\ kind[s] \in {"connect", "wtbad"} /\ k.resp[s] = Nil /\ s \notin k.sess
  /\ s \notin k.sendDone /\ ~ Past(k, s)
Holding(k) == \A i \in ReqSlots : k.held[i] # Nil =>
  Owns(k, i, k.held[i]) /\ k.slot[i].req = k.held[i] /\ Waiting(k, k.held[i])

\* The lists of the step, from their entries a and b on: the slots are still in use.
Answerable(k, dg, i) ==
  /\ k.slot[i].use /\ k.slot[i].req = k.slot[i].id
  /\ k.slot[i].id \in Named(dg, {"head", "tail"})
  /\ kind[k.slot[i].id] \in {"get", "connect", "wtbad"}
  /\ kind[k.slot[i].id] # "get" => k.slot[i].id \in Named(dg, {"head"})
Abortable(k, dg, i) ==
  /\ k.slot[i].use /\ k.slot[i].id \in Named(dg, {"head", "tail"})
  /\ kind[k.slot[i].id] \notin {"get", "connect", "wtbad"}
Lists(k, dg, a, b) ==
  /\ \A j \in 1 .. Len(k.done) : j > a => Answerable(k, dg, k.done[j])
  /\ \A j \in 1 .. Len(k.inc) : j > b => Abortable(k, dg, k.inc[j])
  /\ \A j, h \in 1 .. Len(k.done) : k.done[j] = k.done[h] => j = h
  /\ \A j, h \in 1 .. Len(k.inc) : k.inc[j] = k.inc[h] => j = h
  /\ \A j \in 1 .. Len(k.done) : k.done[j] \notin k.rs
  /\ \A j \in 1 .. Len(k.inc) : k.inc[j] \notin k.rs
  /\ \A i \in k.rs : k.slot[i].use => k.slot[i].id \in Named(dg, {"reset"})

\* What holds of a connection within a step.
Core(k, dg, a, b) ==
  (\A s \in Requests : Asked(k, s)) /\ Taken(k) /\ Holding(k) /\ Lists(k, dg, a, b)

\* The streams that are over and paid for; the limit with p credits to come.
Over(k)       == {s \in k.closed \ k.unpaid : k.resp[s] = Nil} \cup k.early
Doubles(k)    == (k.busy \cup k.early) \cap k.closed
Balance(k, p) ==
  /\ Base + Cardinality(Over(k)) <= k.limit + p
  /\ k.limit + p <= Base + Cardinality(Over(k)) + Cardinality(Doubles(k))

-----------------------------------------------------------------------------
\* What a call for the stream s leaves alone.
Unmoved(k, m, t) ==
  /\ t \in m.closed <=> t \in k.closed
  /\ t \in m.sess <=> t \in k.sess
  /\ t \in m.sendDone <=> t \in k.sendDone
  /\ t \in m.zero <=> t \in k.zero
  /\ t \in m.busy <=> t \in k.busy
  /\ t \in m.unpaid <=> t \in k.unpaid
  /\ t \in m.early <=> t \in k.early
  /\ m.resp[t] = k.resp[t] /\ m.ans[t] = k.ans[t]
\* A call for the stream s: the step's lists and all other streams stay as they are.
Stages == {"next", "goaway", "settings", "done", "inc", "rs", "slotless", "owed"}
Touches(k, s, m) ==
  /\ m \in Conns /\ \A t \in Requests \ {s} : Unmoved(k, m, t)
  /\ \A f \in Stages : m[f] = k[f]

\* The streams paid for: s is one more (n = 1) or there is none more.
Pays(k, s, m, n) ==
  \/ n = 0 /\ (s \in Over(m) <=> s \in Over(k)) /\ (s \in Doubles(k) => s \in Doubles(m))
  \/ n = 1 /\ s \notin Over(k) /\ s \in Over(m) /\ (s \in Doubles(k) => s \in Doubles(m))
  \/ /\ n = 1 /\ (s \in Over(m) <=> s \in Over(k))
     /\ s \notin Doubles(k) /\ s \in Doubles(m)

\* The other streams are left alone.
Others(k, s, m) == \A t \in Requests \ {s} : Unmoved(k, m, t)
\* A stream that is over and n = 1 credit more, given or to come, keep the balance.
LEMMA Adds ==
  ASSUME NEW k \in Conns, NEW s \in Requests, NEW m \in Conns, Others(k, s, m), NEW n \in Nat,
         Pays(k, s, m, n), NEW p \in Nat, NEW r \in Nat, Balance(k, p),
         m.limit + r = k.limit + p + n
  PROVE  Balance(m, r)
  <1>0. Requests \in SUBSET Nat /\ IsFiniteSet(Requests) /\ Base \in Nat
    BY ReqAssumption
  <1>1. m.limit \in Nat /\ k.limit \in Nat
    BY <1>0, ConnTyped
  <1>2. /\ Over(k) \in SUBSET Requests /\ Over(m) \in SUBSET Requests
        /\ Doubles(k) \in SUBSET Requests /\ Doubles(m) \in SUBSET Requests
    BY <1>0, ConnTyped DEF Over, Doubles
  <1>3. /\ IsFiniteSet(Over(k)) /\ IsFiniteSet(Over(m))
        /\ IsFiniteSet(Doubles(k)) /\ IsFiniteSet(Doubles(m))
    BY <1>0, <1>2, FS_Subset
  <1>4. /\ Cardinality(Over(k)) \in Nat /\ Cardinality(Over(m)) \in Nat
        /\ Cardinality(Doubles(k)) \in Nat /\ Cardinality(Doubles(m)) \in Nat
    BY <1>3, FS_CardinalityType
  <1>5. \A t \in Requests \ {s} : /\ t \in Over(m) <=> t \in Over(k)
                                  /\ t \in Doubles(m) <=> t \in Doubles(k)
    BY <1>0, ConnTyped DEF Others, Unmoved, Over, Doubles
  <1>6. ASSUME s \in Over(m) <=> s \in Over(k)  PROVE Over(m) = Over(k)
    BY <1>2, <1>5, <1>6
  <1>7. ASSUME s \notin Over(k), s \in Over(m)
        PROVE  Cardinality(Over(m)) = Cardinality(Over(k)) + 1
    <2>1. Over(m) = Over(k) \cup {s}
      BY <1>2, <1>5, <1>7
    <2>q. QED  BY <1>3, <1>7, <2>1, FS_AddElement
  <1>8. ASSUME s \in Doubles(k) => s \in Doubles(m)
        PROVE  Cardinality(Doubles(k)) <= Cardinality(Doubles(m))
    <2>1. Doubles(k) \in SUBSET Doubles(m)
      BY <1>2, <1>5, <1>8
    <2>q. QED  BY <1>3, <2>1, FS_Subset
  <1>9. ASSUME s \notin Doubles(k), s \in Doubles(m)
        PROVE  Cardinality(Doubles(m)) = Cardinality(Doubles(k)) + 1
    <2>1. Doubles(m) = Doubles(k) \cup {s}
      BY <1>2, <1>5, <1>9
    <2>q. QED  BY <1>3, <1>9, <2>1, FS_AddElement
  <1>q. QED  BY <1>0, <1>1, <1>4, <1>6, <1>7, <1>8, <1>9 DEF Balance, Pays

\* The same for a call that leaves the other streams alone.
LEMMA Balances ==
  ASSUME NEW k \in Conns, NEW s \in Requests, NEW m, Touches(k, s, m), NEW n \in Nat,
         Pays(k, s, m, n), NEW p \in Nat, NEW r \in Nat, Balance(k, p),
         m.limit + r = k.limit + p + n
  PROVE  Balance(m, r)
  <1>1. m \in Conns /\ Others(k, s, m)
    BY DEF Touches, Others
  <1>q. QED  BY <1>1, Adds

\* A call for s that frees its slot, when no list names the slot any more.
LEMMA CoreFreed ==
  ASSUME NEW k \in Conns, NEW dg, NEW a \in Nat, NEW b \in Nat, Core(k, dg, a, b),
         NEW s \in Requests, NEW m, Touches(k, s, m), Freed(k, s, m),
         \A i \in ReqSlots : m.held[i] \in {k.held[i], Nil} /\ m.held[i] # s,
         NEW x \in Nat, NEW y \in Nat, a <= x, b <= y,
         \A j \in 1 .. Len(k.done) : j > x => ~ Owns(k, k.done[j], s),
         \A j \in 1 .. Len(k.inc) : j > y => ~ Owns(k, k.inc[j], s),
         Asked(m, s)
  PROVE  Core(m, dg, x, y)
  <1>0. /\ m \in Conns /\ m.next = k.next /\ m.goaway = k.goaway /\ m.settings = k.settings
        /\ m.done = k.done /\ m.inc = k.inc /\ m.rs = k.rs
    BY DEF Touches, Stages
  <1>1. /\ k.done \in Seq(ReqSlots) /\ k.inc \in Seq(ReqSlots) /\ k.rs \in SUBSET ReqSlots
        /\ \A j \in 1 .. Len(k.done) : k.done[j] \in ReqSlots
        /\ \A j \in 1 .. Len(k.inc) : k.inc[j] \in ReqSlots
        /\ k.slot \in [ReqSlots -> Slot] /\ k.held \in [ReqSlots -> Request]
        /\ Nil \notin Requests
    BY ConnTyped, ReqAssumption
  <1>2. \A j \in ReqSlots : /\ ~ Owns(k, j, s) => m.slot[j] = k.slot[j]
                            /\ Owns(k, j, s) => ~ m.slot[j].use
    BY <1>1, EmptiedTyped DEF Freed
  <1>3. s \in m.closed
    BY DEF Freed
  <1>4. \A i \in ReqSlots, t \in Requests \ {s} : Owns(k, i, t) => Owns(m, i, t)
    BY <1>2 DEF Owns
  <1>5. \A t \in Requests : Past(m, t) <=> Past(k, t)
    BY <1>0 DEF Past
  <1>6. \A t \in Requests \ {s} : Lives(k, t) => Lives(m, t)
    BY <1>4 DEF Lives, Touches, Unmoved
  <1>7. ASSUME NEW t \in Requests \ {s}  PROVE Asked(m, t)
    <2>1. Asked(k, t) /\ Unmoved(k, m, t)
      BY DEF Core, Touches
    <2>q. QED  BY <1>0, <1>5, <1>6, <2>1 DEF Asked, Unmoved
  <1>8. Taken(m)
    BY <1>0, <1>2 DEF Core, Taken
  <1>9. Holding(m)
    <2> SUFFICES ASSUME NEW i \in ReqSlots, m.held[i] # Nil
                 PROVE  /\ Owns(m, i, m.held[i]) /\ m.slot[i].req = m.held[i]
                        /\ Waiting(m, m.held[i])
      BY DEF Holding
    <2>1. m.held[i] = k.held[i] /\ k.held[i] \in Requests \ {s}
      BY <1>1 DEF Request
    <2>2. Owns(k, i, k.held[i]) /\ k.slot[i].req = k.held[i] /\ Waiting(k, k.held[i])
      BY <2>1 DEF Core, Holding
    <2>3. ~ Owns(k, i, s)
      BY <2>1, <2>2 DEF Owns
    <2>4. Unmoved(k, m, k.held[i])
      BY <2>1 DEF Touches
    <2>q. QED  BY <1>2, <1>5, <2>1, <2>2, <2>3, <2>4 DEF Owns, Waiting, Unmoved
  <1>10. Lists(m, dg, x, y)
    <2>1. \A i \in ReqSlots : ~ Owns(k, i, s) => /\ Answerable(k, dg, i) => Answerable(m, dg, i)
                                                 /\ Abortable(k, dg, i) => Abortable(m, dg, i)
      BY <1>2 DEF Answerable, Abortable
    <2>2. \A j \in 1 .. Len(k.done) : j > x => Answerable(k, dg, k.done[j])
      BY DEF Core, Lists
    <2>3. \A j \in 1 .. Len(k.inc) : j > y => Abortable(k, dg, k.inc[j])
      BY DEF Core, Lists
    <2>4. \A i \in k.rs : m.slot[i].use => m.slot[i].id \in Named(dg, {"reset"})
      BY <1>1, <1>2 DEF Core, Lists
    <2>q. QED  BY <1>0, <1>1, <2>1, <2>2, <2>3, <2>4 DEF Core, Lists
  <1>q. QED  BY <1>7, <1>8, <1>9, <1>10 DEF Core

\* A call for s that leaves the slots alone.
LEMMA CoreKept ==
  ASSUME NEW k \in Conns, NEW dg, NEW a \in Nat, NEW b \in Nat, Core(k, dg, a, b),
         NEW s \in Requests, NEW m, Touches(k, s, m), m.slot = k.slot,
         \A i \in ReqSlots : IF m.held[i] = s THEN Owns(k, i, s) /\ k.slot[i].req = s /\ Waiting(m, s)
                             ELSE m.held[i] \in {k.held[i], Nil},
         NEW x \in Nat, NEW y \in Nat, a <= x, b <= y, Asked(m, s)
  PROVE  Core(m, dg, x, y)
  <1>0. /\ m \in Conns /\ m.next = k.next /\ m.goaway = k.goaway /\ m.settings = k.settings
        /\ m.done = k.done /\ m.inc = k.inc /\ m.rs = k.rs
    BY DEF Touches, Stages
  <1>1. k.held \in [ReqSlots -> Request] /\ Nil \notin Requests
    BY ConnTyped, ReqAssumption
  <1>4. \A i, t : Owns(k, i, t) <=> Owns(m, i, t)
    BY DEF Owns
  <1>5. \A t \in Requests : Past(m, t) <=> Past(k, t)
    BY <1>0 DEF Past
  <1>6. \A t \in Requests \ {s} : Lives(k, t) => Lives(m, t)
    BY <1>4 DEF Lives, Touches, Unmoved
  <1>7. ASSUME NEW t \in Requests \ {s}  PROVE Asked(m, t)
    <2>1. Asked(k, t) /\ Unmoved(k, m, t)
      BY DEF Core, Touches
    <2>q. QED  BY <1>0, <1>5, <1>6, <2>1 DEF Asked, Unmoved
  <1>8. Taken(m)
    BY <1>0 DEF Core, Taken
  <1>9. Holding(m)
    <2> SUFFICES ASSUME NEW i \in ReqSlots, m.held[i] # Nil
                 PROVE  /\ Owns(m, i, m.held[i]) /\ m.slot[i].req = m.held[i]
                        /\ Waiting(m, m.held[i])
      BY DEF Holding
    <2>1. CASE m.held[i] = s
      BY <1>4, <2>1
    <2>2. CASE m.held[i] # s
      <3>1. m.held[i] = k.held[i] /\ k.held[i] \in Requests \ {s}
        BY <1>1, <2>2 DEF Request
      <3>2. Owns(k, i, k.held[i]) /\ k.slot[i].req = k.held[i] /\ Waiting(k, k.held[i])
        BY <3>1 DEF Core, Holding
      <3>3. Unmoved(k, m, k.held[i])
        BY <3>1 DEF Touches
      <3>q. QED  BY <1>4, <1>5, <3>1, <3>2, <3>3 DEF Waiting, Unmoved
    <2>q. QED  BY <2>1, <2>2
  <1>10. Lists(m, dg, x, y)
    <2>1. \A i : /\ Answerable(k, dg, i) <=> Answerable(m, dg, i)
                 /\ Abortable(k, dg, i) <=> Abortable(m, dg, i)
      BY DEF Answerable, Abortable
    <2>2. \A j \in 1 .. Len(k.done) : j > x => Answerable(k, dg, k.done[j])
      BY ConnTyped DEF Core, Lists
    <2>3. \A j \in 1 .. Len(k.inc) : j > y => Abortable(k, dg, k.inc[j])
      BY ConnTyped DEF Core, Lists
    <2>q. QED  BY <1>0, <2>1, <2>2, <2>3 DEF Core, Lists
  <1>q. QED  BY <1>7, <1>8, <1>9, <1>10 DEF Core

-----------------------------------------------------------------------------
\* What the calls leave of the stream they are for, and what they pay.

\* A session that closes was paid for when its 200 was acknowledged, or its 200 is
\* still in flight.
LEMMA ClosesAsked ==
  ASSUME NEW k \in Conns, NEW s \in Requests, Asked(k, s), NEW m, Closes(k, s, m), s \in k.sess
  PROVE  /\ Touches(k, s, m) /\ Asked(m, s) /\ Freed(k, s, m) /\ m.held = k.held
         /\ Pays(k, s, m, 0) /\ m.limit = k.limit
  <1>1. /\ m.closed = k.closed \cup {s}
        /\ m.sess = k.sess \ {s}
        /\ m.sendDone \in {k.sendDone, k.sendDone \cup {s}}
        /\ m.zero = k.zero
        /\ m.busy = k.busy
        /\ m.unpaid = k.unpaid
        /\ m.early = k.early
        /\ m.resp = k.resp
        /\ m.ans = k.ans
    BY DEF Closes, Moved, Kept, But, Fields, Freed
  <1>2. m \in Conns /\ \A f \in Stages : m[f] = k[f]
    BY DEF Closes, Moved, Kept, But, Fields, Stages
  <1>3. Freed(k, s, m) /\ m.held = k.held /\ m.limit = k.limit
    BY DEF Closes, Moved, Kept, But, Fields
  <1>4. /\ k.resp \in [Requests -> Request] /\ k.ans \in [Requests -> Seq(Request)]
        /\ k.closed \in SUBSET Requests /\ Nil \notin Requests
    BY ConnTyped, ReqAssumption
  <1>5. Touches(k, s, m)
    BY <1>1, <1>2, <1>4 DEF Touches, Unmoved
  <1>6. Past(m, s) <=> Past(k, s)
    BY <1>2 DEF Past, Stages
  <1>7. s \in m.closed /\ Lives(m, s)
    BY <1>1, <1>3 DEF Lives, Owns
  <1>8. m.next = k.next
    BY <1>2 DEF Stages
  <1>9. Asked(m, s)
    BY <1>1, <1>4, <1>6, <1>7, <1>8 DEF Asked
  <1>10. Pays(k, s, m, 0)
    BY <1>1, <1>4, <1>7 DEF Asked, Pays, Over, Doubles
  <1>q. QED  BY <1>3, <1>5, <1>9, <1>10

\* A response that is stopped pays for its stream.
LEMMA FinishesAsked ==
  ASSUME NEW k \in Conns, NEW s \in Requests, Asked(k, s), NEW m, Finishes(k, s, m), s \notin k.sess, k.resp[s] # Nil
  PROVE  /\ Touches(k, s, m) /\ Asked(m, s) /\ Freed(k, s, m) /\ m.held = k.held
         /\ Pays(k, s, m, 1) /\ m.limit = k.limit + 1
  <1>1. /\ m.closed = k.closed \cup {s}
        /\ m.sess = k.sess
        /\ m.sendDone = k.sendDone \cup {s}
        /\ m.zero = k.zero
        /\ m.busy = k.busy
        /\ m.unpaid = k.unpaid
        /\ m.early = k.early
        /\ m.resp = [k.resp EXCEPT ![s] = Nil]
        /\ m.ans = k.ans
    BY DEF Finishes, Ends, Moved, Kept, But, Fields, Freed
  <1>2. m \in Conns /\ \A f \in Stages : m[f] = k[f]
    BY DEF Finishes, Ends, Moved, Kept, But, Fields, Stages
  <1>3. Freed(k, s, m) /\ m.held = k.held /\ m.limit = k.limit + 1
    BY DEF Finishes, Ends, Moved, Kept, But, Fields
  <1>4. /\ k.resp \in [Requests -> Request] /\ k.ans \in [Requests -> Seq(Request)]
        /\ k.closed \in SUBSET Requests /\ Nil \notin Requests
    BY ConnTyped, ReqAssumption
  <1>5. Touches(k, s, m)
    BY <1>1, <1>2, <1>4 DEF Touches, Unmoved
  <1>6. Past(m, s) <=> Past(k, s)
    BY <1>2 DEF Past, Stages
  <1>7. s \in m.closed /\ Lives(m, s)
    BY <1>1, <1>3 DEF Lives, Owns
  <1>8. m.next = k.next
    BY <1>2 DEF Stages
  <1>9. Asked(m, s)
    BY <1>1, <1>4, <1>6, <1>7, <1>8 DEF Asked
  <1>10. Pays(k, s, m, 1)
    BY <1>1, <1>4, <1>7 DEF Asked, Pays, Over, Doubles
  <1>q. QED  BY <1>3, <1>5, <1>9, <1>10

\* A request that is cancelled pays for its stream.
LEMMA CancelsAsked ==
  ASSUME NEW k \in Conns, NEW s \in Requests, Asked(k, s), NEW m, Cancels(k, s, m), s \notin k.sess, s \notin k.closed, k.resp[s] = Nil
  PROVE  /\ Touches(k, s, m) /\ Asked(m, s) /\ Freed(k, s, m) /\ m.held = k.held
         /\ Pays(k, s, m, 1) /\ m.limit = k.limit + 1
  <1>1. /\ m.closed = k.closed \cup {s}
        /\ m.sess = k.sess
        /\ m.sendDone = k.sendDone \cup {s}
        /\ m.zero = IF s \in k.sendDone THEN k.zero ELSE k.zero \cup {s}
        /\ m.busy = k.busy
        /\ m.unpaid = k.unpaid
        /\ m.early = k.early
        /\ m.resp = k.resp
        /\ m.ans = k.ans
    BY DEF Cancels, Mutes, Ends, Moved, Kept, But, Fields, Freed
  <1>2. m \in Conns /\ \A f \in Stages : m[f] = k[f]
    BY DEF Cancels, Mutes, Ends, Moved, Kept, But, Fields, Stages
  <1>3. Freed(k, s, m) /\ m.held = k.held /\ m.limit = k.limit + 1
    BY DEF Cancels, Mutes, Ends, Moved, Kept, But, Fields
  <1>4. /\ k.resp \in [Requests -> Request] /\ k.ans \in [Requests -> Seq(Request)]
        /\ k.closed \in SUBSET Requests /\ Nil \notin Requests
    BY ConnTyped, ReqAssumption
  <1>5. Touches(k, s, m)
    BY <1>1, <1>2, <1>4 DEF Touches, Unmoved
  <1>6. Past(m, s) <=> Past(k, s)
    BY <1>2 DEF Past, Stages
  <1>7. s \in m.closed /\ Lives(m, s)
    BY <1>1, <1>3 DEF Lives, Owns
  <1>8. m.next = k.next
    BY <1>2 DEF Stages
  <1>9. Asked(m, s)
    BY <1>1, <1>4, <1>6, <1>7, <1>8 DEF Asked
  <1>10. Pays(k, s, m, 1)
    BY <1>1, <1>4, <1>7 DEF Asked, Pays, Over, Doubles
  <1>q. QED  BY <1>3, <1>5, <1>9, <1>10

\* The end of a send side pays for nothing.
LEMMA SilencesAsked ==
  ASSUME NEW k \in Conns, NEW s \in Requests, Asked(k, s), NEW m, Silences(k, s, m), s \notin k.sess, k.resp[s] = Nil
  PROVE  /\ Touches(k, s, m) /\ Asked(m, s) /\ m.slot = k.slot /\ m.held = k.held
         /\ Pays(k, s, m, 0) /\ m.limit = k.limit
  <1>1. /\ m.closed = k.closed
        /\ m.sess = k.sess
        /\ m.sendDone = k.sendDone \cup {s}
        /\ m.zero = IF s \in k.sendDone THEN k.zero ELSE k.zero \cup {s}
        /\ m.busy = k.busy
        /\ m.unpaid = k.unpaid
        /\ m.early = k.early
        /\ m.resp = k.resp
        /\ m.ans = k.ans
    BY DEF Silences, Mutes, Moved, Kept, But, Fields, Freed
  <1>2. m \in Conns /\ \A f \in Stages : m[f] = k[f]
    BY DEF Silences, Mutes, Moved, Kept, But, Fields, Stages
  <1>3. m.slot = k.slot /\ m.held = k.held /\ m.limit = k.limit
    BY DEF Silences, Mutes, Moved, Kept, But, Fields
  <1>4. /\ k.resp \in [Requests -> Request] /\ k.ans \in [Requests -> Seq(Request)]
        /\ k.closed \in SUBSET Requests /\ Nil \notin Requests
    BY ConnTyped, ReqAssumption
  <1>5. Touches(k, s, m)
    BY <1>1, <1>2, <1>4 DEF Touches, Unmoved
  <1>6. Past(m, s) <=> Past(k, s)
    BY <1>2 DEF Past, Stages
  <1>7. Lives(m, s) <=> Lives(k, s)
    BY <1>1, <1>3 DEF Lives, Owns
  <1>8. m.next = k.next
    BY <1>2 DEF Stages
  <1>9. Asked(m, s)
    BY <1>1, <1>4, <1>6, <1>7, <1>8 DEF Asked
  <1>10. Pays(k, s, m, 0)
    BY <1>1, <1>4, <1>7 DEF Asked, Pays, Over, Doubles
  <1>q. QED  BY <1>3, <1>5, <1>9, <1>10

\* A stream that ends with its credit, the second one if it has a session still.
LEMMA EndsAsked ==
  ASSUME NEW k \in Conns, NEW s \in Requests, Asked(k, s), NEW m, Ends(k, s, m, {"held"}, 1), s \notin k.closed
  PROVE  /\ Touches(k, s, m) /\ Asked(m, s) /\ Freed(k, s, m)
         /\ ((k.resp[s] # Nil => s \in k.sendDone) => Pays(k, s, m, 1)) /\ m.limit = k.limit + 1
  <1>1. /\ m.closed = k.closed \cup {s}
        /\ m.sess = k.sess
        /\ m.sendDone = k.sendDone
        /\ m.zero = k.zero
        /\ m.busy = k.busy
        /\ m.unpaid = k.unpaid
        /\ m.early = k.early
        /\ m.resp = k.resp
        /\ m.ans = k.ans
    BY DEF Ends, Moved, Kept, But, Fields, Freed
  <1>2. m \in Conns /\ \A f \in Stages : m[f] = k[f]
    BY DEF Ends, Moved, Kept, But, Fields, Stages
  <1>3. Freed(k, s, m) /\ m.limit = k.limit + 1
    BY DEF Ends, Moved, Kept, But, Fields
  <1>4. /\ k.resp \in [Requests -> Request] /\ k.ans \in [Requests -> Seq(Request)]
        /\ k.closed \in SUBSET Requests /\ Nil \notin Requests
    BY ConnTyped, ReqAssumption
  <1>5. Touches(k, s, m)
    BY <1>1, <1>2, <1>4 DEF Touches, Unmoved
  <1>6. Past(m, s) <=> Past(k, s)
    BY <1>2 DEF Past, Stages
  <1>7. s \in m.closed /\ Lives(m, s)
    BY <1>1, <1>3 DEF Lives, Owns
  <1>8. m.next = k.next
    BY <1>2 DEF Stages
  <1>9. Asked(m, s)
    BY <1>1, <1>4, <1>6, <1>7, <1>8 DEF Asked
  <1>10. (k.resp[s] # Nil => s \in k.sendDone) => Pays(k, s, m, 1)
    BY <1>1, <1>4, <1>7 DEF Asked, Pays, Over, Doubles
  <1>q. QED  BY <1>3, <1>5, <1>9, <1>10

\* An answer acknowledged pays for its stream, a session's too (early).
LEMMA AcksAsked ==
  ASSUME NEW k \in Conns, NEW s \in Requests, Asked(k, s), NEW m, Acks(k, s, m), s \in k.sess, k.resp[s] # Nil
  PROVE  /\ Touches(k, s, m) /\ Asked(m, s) /\ m.slot = k.slot /\ m.held = k.held
         /\ Pays(k, s, m, 1) /\ m.limit = k.limit + 1
  <1>1. /\ m.closed = k.closed
        /\ m.sess = k.sess
        /\ m.sendDone = k.sendDone
        /\ m.zero = k.zero
        /\ m.busy = k.busy
        /\ m.unpaid = k.unpaid
        /\ m.early = k.early \cup {s}
        /\ m.resp = [k.resp EXCEPT ![s] = Nil]
        /\ m.ans = k.ans
    BY DEF Acks, Moved, Kept, But, Fields, Freed
  <1>2. m \in Conns /\ \A f \in Stages : m[f] = k[f]
    BY DEF Acks, Moved, Kept, But, Fields, Stages
  <1>3. m.slot = k.slot /\ m.held = k.held /\ m.limit = k.limit + 1
    BY DEF Acks, Moved, Kept, But, Fields
  <1>4. /\ k.resp \in [Requests -> Request] /\ k.ans \in [Requests -> Seq(Request)]
        /\ k.closed \in SUBSET Requests /\ Nil \notin Requests
    BY ConnTyped, ReqAssumption
  <1>5. Touches(k, s, m)
    BY <1>1, <1>2, <1>4 DEF Touches, Unmoved
  <1>6. Past(m, s) <=> Past(k, s)
    BY <1>2 DEF Past, Stages
  <1>7. Lives(m, s) <=> Lives(k, s)
    BY <1>1, <1>3 DEF Lives, Owns
  <1>8. m.next = k.next
    BY <1>2 DEF Stages
  <1>9. Asked(m, s)
    BY <1>1, <1>4, <1>6, <1>7, <1>8 DEF Asked
  <1>10. Pays(k, s, m, 1)
    BY <1>1, <1>4, <1>7 DEF Asked, Pays, Over, Doubles
  <1>q. QED  BY <1>3, <1>5, <1>9, <1>10

\* A refusal pays for nothing (unpaid).
LEMMA RefusesAsked ==
  ASSUME NEW k \in Conns, NEW s \in Requests, Asked(k, s), NEW m, Refuses(k, s, m), s \notin k.sess, s \notin k.closed, k.resp[s] = Nil
  PROVE  /\ Touches(k, s, m) /\ Asked(m, s) /\ Freed(k, s, m) /\ m.held = k.held
         /\ Pays(k, s, m, 0) /\ m.limit = k.limit
  <1>1. /\ m.closed = k.closed \cup {s}
        /\ m.sess = k.sess
        /\ m.sendDone = k.sendDone \cup {s}
        /\ m.zero = IF s \in k.sendDone THEN k.zero ELSE k.zero \cup {s}
        /\ m.busy = k.busy
        /\ m.unpaid = k.unpaid \cup {s}
        /\ m.early = k.early
        /\ m.resp = k.resp
        /\ m.ans = k.ans
    BY DEF Refuses, Mutes, Moved, Kept, But, Fields, Freed
  <1>2. m \in Conns /\ \A f \in Stages : m[f] = k[f]
    BY DEF Refuses, Mutes, Moved, Kept, But, Fields, Stages
  <1>3. Freed(k, s, m) /\ m.held = k.held /\ m.limit = k.limit
    BY DEF Refuses, Mutes, Moved, Kept, But, Fields
  <1>4. /\ k.resp \in [Requests -> Request] /\ k.ans \in [Requests -> Seq(Request)]
        /\ k.closed \in SUBSET Requests /\ Nil \notin Requests
    BY ConnTyped, ReqAssumption
  <1>5. Touches(k, s, m)
    BY <1>1, <1>2, <1>4 DEF Touches, Unmoved
  <1>6. Past(m, s) <=> Past(k, s)
    BY <1>2 DEF Past, Stages
  <1>7. s \in m.closed /\ Lives(m, s)
    BY <1>1, <1>3 DEF Lives, Owns
  <1>8. m.next = k.next
    BY <1>2 DEF Stages
  <1>9. Asked(m, s)
    BY <1>1, <1>4, <1>6, <1>7, <1>8 DEF Asked
  <1>10. Pays(k, s, m, 0)
    BY <1>1, <1>4, <1>7 DEF Asked, Pays, Over, Doubles
  <1>q. QED  BY <1>3, <1>5, <1>9, <1>10

\* A 429 with its reset is the one answer on a stream whose send side is over.
LEMMA BusiesAsked ==
  ASSUME NEW k \in Conns, NEW s \in Requests, Asked(k, s), NEW q, NEW m, Busies(k, s, q, m), q = s, s \notin k.closed, Claimed(k, s), Lives(k, s), s < k.next, kind[s] = "connect"
  PROVE  /\ Touches(k, s, m) /\ Asked(m, s) /\ m.slot = k.slot /\ m.held = k.held
         /\ Pays(k, s, m, 0) /\ m.limit = k.limit
  <1>1. /\ m.closed = k.closed
        /\ m.sess = k.sess
        /\ m.sendDone = k.sendDone \cup {s}
        /\ m.zero = IF s \in k.sendDone THEN k.zero ELSE k.zero \cup {s}
        /\ m.busy = k.busy \cup {s}
        /\ m.unpaid = k.unpaid
        /\ m.early = k.early
        /\ m.resp = [k.resp EXCEPT ![s] = q]
        /\ m.ans = [k.ans EXCEPT ![s] = Append(k.ans[s], q)]
    BY DEF Busies, Answered, Mutes, Moved, Kept, But, Fields, Freed
  <1>2. m \in Conns /\ \A f \in Stages : m[f] = k[f]
    BY DEF Busies, Answered, Mutes, Moved, Kept, But, Fields, Stages
  <1>3. m.slot = k.slot /\ m.held = k.held /\ m.limit = k.limit
    BY DEF Busies, Answered, Mutes, Moved, Kept, But, Fields
  <1>4. /\ k.resp \in [Requests -> Request] /\ k.ans \in [Requests -> Seq(Request)]
        /\ k.closed \in SUBSET Requests /\ Nil \notin Requests
    BY ConnTyped, ReqAssumption
  <1>5. Touches(k, s, m)
    BY <1>1, <1>2, <1>4 DEF Touches, Unmoved
  <1>6. Past(m, s) <=> Past(k, s)
    BY <1>2 DEF Past, Stages
  <1>7. Lives(m, s) <=> Lives(k, s)
    BY <1>1, <1>3 DEF Lives, Owns
  <1>8. m.next = k.next
    BY <1>2 DEF Stages
  <1>9. k.ans[s] = <<>> /\ k.resp[s] = Nil /\ s \notin k.sess /\ s \notin k.zero /\ s \notin k.sendDone
    BY DEF Asked, Claimed
  <1>10. m.ans[s] = <<s>> /\ m.resp[s] = s /\ s # Nil
    BY <1>1, <1>4, <1>9
  <1>11. Asked(m, s)
    BY <1>1, <1>6, <1>7, <1>8, <1>9, <1>10 DEF Asked, Claimed
  <1>12. Pays(k, s, m, 0)
    BY <1>1, <1>4, <1>7 DEF Asked, Pays, Over, Doubles, Claimed
  <1>q. QED  BY <1>3, <1>5, <1>11, <1>12

\* A session and its 200 are the first answer of their stream.
LEMMA OpensAsked ==
  ASSUME NEW k \in Conns, NEW s \in Requests, Asked(k, s), NEW q, NEW m, Opens(k, s, q, m), q = s, s \notin k.closed, Claimed(k, s), Lives(k, s), s < k.next, kind[s] = "connect"
  PROVE  /\ Touches(k, s, m) /\ Asked(m, s) /\ m.slot = k.slot /\ m.held = k.held
         /\ Pays(k, s, m, 0) /\ m.limit = k.limit
  <1>1. /\ m.closed = k.closed
        /\ m.sess = k.sess \cup {s}
        /\ m.sendDone = k.sendDone
        /\ m.zero = k.zero
        /\ m.busy = k.busy
        /\ m.unpaid = k.unpaid
        /\ m.early = k.early
        /\ m.resp = [k.resp EXCEPT ![s] = q]
        /\ m.ans = [k.ans EXCEPT ![s] = Append(k.ans[s], q)]
    BY DEF Opens, Answered, Moved, Kept, But, Fields, Freed
  <1>2. m \in Conns /\ \A f \in Stages : m[f] = k[f]
    BY DEF Opens, Answered, Moved, Kept, But, Fields, Stages
  <1>3. m.slot = k.slot /\ m.held = k.held /\ m.limit = k.limit
    BY DEF Opens, Answered, Moved, Kept, But, Fields
  <1>4. /\ k.resp \in [Requests -> Request] /\ k.ans \in [Requests -> Seq(Request)]
        /\ k.closed \in SUBSET Requests /\ Nil \notin Requests
    BY ConnTyped, ReqAssumption
  <1>5. Touches(k, s, m)
    BY <1>1, <1>2, <1>4 DEF Touches, Unmoved
  <1>6. Past(m, s) <=> Past(k, s)
    BY <1>2 DEF Past, Stages
  <1>7. Lives(m, s) <=> Lives(k, s)
    BY <1>1, <1>3 DEF Lives, Owns
  <1>8. m.next = k.next
    BY <1>2 DEF Stages
  <1>9. k.ans[s] = <<>> /\ k.resp[s] = Nil /\ s \notin k.sess /\ s \notin k.zero /\ s \notin k.sendDone
    BY DEF Asked, Claimed
  <1>10. m.ans[s] = <<s>> /\ m.resp[s] = s /\ s # Nil
    BY <1>1, <1>4, <1>9
  <1>11. Asked(m, s)
    BY <1>1, <1>6, <1>7, <1>8, <1>9, <1>10 DEF Asked, Claimed
  <1>12. Pays(k, s, m, 0)
    BY <1>1, <1>4, <1>7 DEF Asked, Pays, Over, Doubles, Claimed
  <1>q. QED  BY <1>3, <1>5, <1>11, <1>12

\* An answer is the first one of its stream.
LEMMA AnswersAsked ==
  ASSUME NEW k \in Conns, NEW s \in Requests, Asked(k, s), NEW q, NEW m, Answers(k, s, q, m), q = s, s \notin k.closed, Claimed(k, s), Lives(k, s), s < k.next, kind[s] = "get"
  PROVE  /\ Touches(k, s, m) /\ Asked(m, s) /\ m.slot = k.slot /\ m.held = k.held
         /\ Pays(k, s, m, 0) /\ m.limit = k.limit
  <1>1. /\ m.closed = k.closed
        /\ m.sess = k.sess
        /\ m.sendDone = k.sendDone
        /\ m.zero = k.zero
        /\ m.busy = k.busy
        /\ m.unpaid = k.unpaid
        /\ m.early = k.early
        /\ m.resp = [k.resp EXCEPT ![s] = q]
        /\ m.ans = [k.ans EXCEPT ![s] = Append(k.ans[s], q)]
    BY DEF Answers, Answered, Moved, Kept, But, Fields, Freed
  <1>2. m \in Conns /\ \A f \in Stages : m[f] = k[f]
    BY DEF Answers, Answered, Moved, Kept, But, Fields, Stages
  <1>3. m.slot = k.slot /\ m.held = k.held /\ m.limit = k.limit
    BY DEF Answers, Answered, Moved, Kept, But, Fields
  <1>4. /\ k.resp \in [Requests -> Request] /\ k.ans \in [Requests -> Seq(Request)]
        /\ k.closed \in SUBSET Requests /\ Nil \notin Requests
    BY ConnTyped, ReqAssumption
  <1>5. Touches(k, s, m)
    BY <1>1, <1>2, <1>4 DEF Touches, Unmoved
  <1>6. Past(m, s) <=> Past(k, s)
    BY <1>2 DEF Past, Stages
  <1>7. Lives(m, s) <=> Lives(k, s)
    BY <1>1, <1>3 DEF Lives, Owns
  <1>8. m.next = k.next
    BY <1>2 DEF Stages
  <1>9. k.ans[s] = <<>> /\ k.resp[s] = Nil /\ s \notin k.sess /\ s \notin k.zero /\ s \notin k.sendDone
    BY DEF Asked, Claimed
  <1>10. m.ans[s] = <<s>> /\ m.resp[s] = s /\ s # Nil
    BY <1>1, <1>4, <1>9
  <1>11. Asked(m, s)
    BY <1>1, <1>6, <1>7, <1>8, <1>9, <1>10 DEF Asked, Claimed
  <1>12. Pays(k, s, m, 0)
    BY <1>1, <1>4, <1>7 DEF Asked, Pays, Over, Doubles, Claimed
  <1>q. QED  BY <1>3, <1>5, <1>11, <1>12

\* A CONNECT that is held is not answered yet.
LEMMA HoldsAsked ==
  ASSUME NEW k \in Conns, NEW s \in Requests, Asked(k, s), NEW m, Holds(k, s, m)
  PROVE  /\ Touches(k, s, m) /\ Asked(m, s) /\ m.slot = k.slot
         /\ Pays(k, s, m, 0) /\ m.limit = k.limit
  <1>1. /\ m.closed = k.closed
        /\ m.sess = k.sess
        /\ m.sendDone = k.sendDone
        /\ m.zero = k.zero
        /\ m.busy = k.busy
        /\ m.unpaid = k.unpaid
        /\ m.early = k.early
        /\ m.resp = k.resp
        /\ m.ans = k.ans
    BY DEF Holds, Moved, Kept, But, Fields, Freed
  <1>2. m \in Conns /\ \A f \in Stages : m[f] = k[f]
    BY DEF Holds, Moved, Kept, But, Fields, Stages
  <1>3. m.slot = k.slot /\ m.limit = k.limit
    BY DEF Holds, Moved, Kept, But, Fields
  <1>4. /\ k.resp \in [Requests -> Request] /\ k.ans \in [Requests -> Seq(Request)]
        /\ k.closed \in SUBSET Requests /\ Nil \notin Requests
    BY ConnTyped, ReqAssumption
  <1>5. Touches(k, s, m)
    BY <1>1, <1>2, <1>4 DEF Touches, Unmoved
  <1>6. Past(m, s) <=> Past(k, s)
    BY <1>2 DEF Past, Stages
  <1>7. Lives(m, s) <=> Lives(k, s)
    BY <1>1, <1>3 DEF Lives, Owns
  <1>8. m.next = k.next
    BY <1>2 DEF Stages
  <1>9. Asked(m, s)
    BY <1>1, <1>4, <1>6, <1>7, <1>8 DEF Asked
  <1>10. Pays(k, s, m, 0)
    BY <1>1, <1>4, <1>7 DEF Asked, Pays, Over, Doubles
  <1>q. QED  BY <1>3, <1>5, <1>9, <1>10

-----------------------------------------------------------------------------
\* What a step keeps up, from the entries a and b of its lists on: the lists are sound,
\* and the credits add up, p of them still to come.
Good(k, dg, a, b, p) == Core(k, dg, a, b) /\ Balance(k, p)

\* The stream is not on the rest of the lists, and not held.
NotListed(k, s, x, y) ==
  /\ \A j \in 1 .. Len(k.done) : j > x => ~ Owns(k, k.done[j], s)
  /\ \A j \in 1 .. Len(k.inc) : j > y => ~ Owns(k, k.inc[j], s)
Unheld(k, m, s) == \A i \in ReqSlots : m.held[i] \in {k.held[i], Nil} /\ m.held[i] # s

\* A stream that ends keeps the rest Good if no list has it.
LEMMA GoodFreed ==
  ASSUME NEW k \in Conns, NEW dg, NEW a \in Nat, NEW b \in Nat, NEW p \in Nat,
         Good(k, dg, a, b, p), NEW s \in Requests, NEW m, Touches(k, s, m), Asked(m, s),
         Freed(k, s, m), Unheld(k, m, s), NEW x \in Nat, NEW y \in Nat, a <= x, b <= y,
         NotListed(k, s, x, y), NEW n \in Nat, Pays(k, s, m, n),
         m.limit = k.limit + n
  PROVE  Good(m, dg, x, y, p)
  <1>1. Core(m, dg, x, y)
    BY CoreFreed DEF Good, Unheld, NotListed
  <1>2. Balance(m, p)
    <2>1. Balance(k, p) /\ Pays(k, s, m, n)
      BY DEF Good
    <2>2. m.limit + p = k.limit + p + n
      BY ConnTyped
    <2>q. QED  BY <2>1, <2>2, Balances
  <1>q. QED  BY <1>1, <1>2 DEF Good

\* A change of one stream's answer keeps the rest Good.
LEMMA GoodKept ==
  ASSUME NEW k \in Conns, NEW dg, NEW a \in Nat, NEW b \in Nat, NEW p \in Nat,
         Good(k, dg, a, b, p), NEW s \in Requests, NEW m, Touches(k, s, m), Asked(m, s),
         m.slot = k.slot,
         \A i \in ReqSlots : IF m.held[i] = s THEN Owns(k, i, s) /\ k.slot[i].req = s /\ Waiting(m, s)
                             ELSE m.held[i] \in {k.held[i], Nil},
         NEW x \in Nat, NEW y \in Nat, a <= x, b <= y,
         NEW n \in Nat, Pays(k, s, m, n), m.limit = k.limit + n
  PROVE  Good(m, dg, x, y, p)
  <1>1. Core(m, dg, x, y)
    BY CoreKept DEF Good
  <1>2. Balance(m, p)
    <2>1. Balance(k, p) /\ Pays(k, s, m, n)
      BY DEF Good
    <2>2. m.limit + p = k.limit + p + n
      BY ConnTyped
    <2>q. QED  BY <2>1, <2>2, Balances
  <1>q. QED  BY <1>1, <1>2 DEF Good

\* While srvrun_live_streams runs: no STOP_SENDING names a listed or a held stream,
\* and no session or held CONNECT that ends in this datagram is on a list.
Clear(k, dg) ==
  /\ \A s \in Named(dg, {"stop"}) : s \notin Named(dg, {"head", "tail"})
  /\ \A s \in Named(dg, {"head"}) \cap Named(dg, {"tail", "reset"}) :
       s \notin k.sess /\ \A i \in ReqSlots : k.held[i] # s
  /\ \A s \in Named(dg, {"stop"}) : \A i \in ReqSlots : k.held[i] # s
  /\ k.settings => k.done = <<>> \/ \A i \in ReqSlots : k.held[i] = Nil

\* What srvrun_live_streams keeps up.
Living(x, k, dg, p) ==
  /\ Good(x, dg, 0, 0, p) /\ Clear(x, dg) /\ (\A f \in Stages : x[f] = k[f])
  /\ x.sess \subseteq k.sess /\ \A i \in ReqSlots : x.held[i] \in {k.held[i], Nil}

\* The frames of a datagram name streams.
LEMMA NamesStreams ==
  ASSUME NEW dg \in Seq(Frames), NEW T
  PROVE  Named(dg, T) \subseteq Requests
  <1>1. \A j \in DOMAIN dg : dg[j] \in Frames /\ dg[j][1] \in Requests
    BY DEF Frames
  <1>q. QED  BY <1>1 DEF Named

\* A stream that ends within srvrun_live_streams.
LEMMA LivingFreed ==
  ASSUME NEW k \in Conns, NEW x \in Conns, NEW dg \in Seq(Frames), NEW p \in Nat,
         Living(x, k, dg, p), NEW s \in Requests, NEW m, Touches(x, s, m), Asked(m, s),
         Freed(x, s, m), Unheld(x, m, s), NotListed(x, s, 0, 0), m.sess \subseteq x.sess,
         NEW n \in Nat, Pays(x, s, m, n), m.limit = x.limit + n
  PROVE  Living(m, k, dg, p)
  <1>1. Good(m, dg, 0, 0, p)
    <2> DEFINE z == 0
    <2>1. z \in Nat /\ z <= z /\ Good(x, dg, z, z, p) /\ NotListed(x, s, z, z)
      BY DEF Living
    <2> HIDE DEF z
    <2>2. Good(m, dg, z, z, p)
      BY <2>1, GoodFreed
    <2>q. QED  BY <2>2 DEF z
  <1>2. \A f \in Stages : m[f] = x[f]
    BY DEF Touches
  <1>3. \A t \in Named(dg, {"stop"}) \cup Named(dg, {"head"}) : t # Nil
    BY NamesStreams, ReqAssumption
  <1>4. Clear(m, dg)
    BY <1>2, <1>3 DEF Living, Clear, Unheld, Stages
  <1>q. QED  BY <1>1, <1>2, <1>4 DEF Living, Unheld, Stages

\* An answer that changes within srvrun_live_streams.
LEMMA LivingKept ==
  ASSUME NEW k \in Conns, NEW x \in Conns, NEW dg \in Seq(Frames), NEW p \in Nat,
         Living(x, k, dg, p), NEW s \in Requests, NEW m, Touches(x, s, m), Asked(m, s),
         m.slot = x.slot, Unheld(x, m, s), m.sess \subseteq x.sess,
         NEW n \in Nat, Pays(x, s, m, n), m.limit = x.limit + n
  PROVE  Living(m, k, dg, p)
  <1>0. \A i \in ReqSlots : IF m.held[i] = s THEN Owns(x, i, s) /\ x.slot[i].req = s /\ Waiting(m, s)
                            ELSE m.held[i] \in {x.held[i], Nil}
    BY DEF Unheld
  <1>1. Good(m, dg, 0, 0, p)
    <2> DEFINE z == 0
    <2>1. z \in Nat /\ z <= z /\ Good(x, dg, z, z, p)
      BY DEF Living
    <2> HIDE DEF z
    <2>2. Good(m, dg, z, z, p)
      BY <1>0, <2>1, GoodKept
    <2>q. QED  BY <2>2 DEF z
  <1>2. \A f \in Stages : m[f] = x[f]
    BY DEF Touches
  <1>3. \A t \in Named(dg, {"stop"}) \cup Named(dg, {"head"}) : t # Nil
    BY NamesStreams, ReqAssumption
  <1>4. Clear(m, dg)
    BY <1>2, <1>3 DEF Living, Clear, Unheld, Stages
  <1>q. QED  BY <1>1, <1>2, <1>4 DEF Living, Unheld, Stages

\* A stream that no entry of the lists names.
LEMMA Unlisted ==
  ASSUME NEW k \in Conns, NEW dg, NEW a \in Nat, NEW b \in Nat, Core(k, dg, a, b), NEW s,
         \/ s \notin Named(dg, {"head", "tail"})
         \/ kind[s] \in {"connect", "wtbad"} /\ s \notin Named(dg, {"head"})
  PROVE  NotListed(k, s, a, b)
  BY DEF Core, Lists, Answerable, Abortable, NotListed, Owns

-----------------------------------------------------------------------------
\* srvrun_live_streams, loop by loop.

\* The session that ends with its stream.
LEMMA LiveClose ==
  ASSUME NEW k \in Conns, NEW dg \in Seq(Frames), NEW p \in Nat, Living(k, k, dg, p)
  PROVE  LET m == srvrun_close_wt_on_stream_close(k, dg) IN
         /\ m \in Conns /\ Living(m, k, dg, p)
  <1> DEFINE m == srvrun_close_wt_on_stream_close(k, dg)
  <1>1. ASSUME m = k, \A j \in DOMAIN dg : dg[j][2] \notin {"tail", "reset"}
        PROVE  /\ m \in Conns /\ Living(m, k, dg, p)
    BY <1>1
  <1>2. ASSUME NEW j \in DOMAIN dg, dg[j][2] \in {"tail", "reset"}, dg[j][1] \in Requests,
               IF dg[j][1] \in k.sess THEN Closes(k, dg[j][1], m) ELSE m = k
        PROVE  /\ m \in Conns /\ Living(m, k, dg, p)
    <2> DEFINE s == dg[j][1]
    <2>1. s \in Requests /\ s \in Named(dg, {"tail", "reset"}) /\ (IF s \in k.sess THEN Closes(k, s, m) ELSE m = k)
      BY <1>2 DEF Named
    <2> HIDE DEF s, m
    <2>4. ASSUME s \in k.sess
          PROVE  /\ m \in Conns /\ Living(m, k, dg, p)
      <3>1. Closes(k, s, m) /\ Core(k, dg, 0, 0) /\ Asked(k, s)
        BY <2>1, <2>4 DEF Living, Good, Core
      <3>2. /\ Touches(k, s, m) /\ Asked(m, s) /\ Freed(k, s, m) /\ m.held = k.held
            /\ Pays(k, s, m, 0) /\ m.limit = k.limit
        BY <2>1, <2>4, <3>1, ClosesAsked
      <3>3. m.sess = k.sess \ {s} /\ m \in Conns
        BY <3>1 DEF Closes, Moved
      <3>4. kind[s] = "connect" /\ s \notin Named(dg, {"head"})
        BY <2>1, <2>4, <3>1 DEF Asked, Living, Clear
      <3>5. NotListed(k, s, 0, 0)
        BY <3>1, <3>4, Unlisted
      <3>6. Unheld(k, m, s)
        BY <2>1, <2>4, <3>1, <3>2, ReqAssumption DEF Unheld, Core, Holding, Waiting
      <3>7. Living(m, k, dg, p)
        <4> DEFINE n == 0
        <4>1. n \in Nat /\ Pays(k, s, m, n) /\ m.limit = k.limit + n
          BY <3>2, ConnTyped
        <4> HIDE DEF n
        <4>q. QED  BY <2>1, <3>2, <3>3, <3>5, <3>6, <4>1, LivingFreed
      <3>q. QED  BY <3>3, <3>7
    <2>5. ASSUME s \notin k.sess
          PROVE  /\ m \in Conns /\ Living(m, k, dg, p)
      BY <2>1, <2>5
    <2>q. QED  BY <2>4, <2>5
  <1>3. \/ m = k /\ \A j \in DOMAIN dg : dg[j][2] \notin {"tail", "reset"}
        \/ \E j \in DOMAIN dg : /\ dg[j][2] \in {"tail", "reset"} /\ dg[j][1] \in Requests
                                /\ IF dg[j][1] \in k.sess THEN Closes(k, dg[j][1], m) ELSE m = k
    BY CloseOnEndIs
  <1> HIDE DEF m
  <1>4. /\ m \in Conns /\ Living(m, k, dg, p)
    BY <1>1, <1>2, <1>3
  <1>q. QED  BY <1>4 DEF m

\* Every STOP_SENDING.
LEMMA LiveStop ==
  ASSUME NEW k \in Conns, NEW x \in Conns, NEW dg \in Seq(Frames), NEW p \in Nat,
         Living(x, k, dg, p), NEW s \in Named(dg, {"stop"})
  PROVE  Living(answer_stream_stop(x, s), k, dg, p)
  <1> DEFINE m == answer_stream_stop(x, s)
  <1>0. s \in Requests /\ Core(x, dg, 0, 0) /\ Asked(x, s)
    BY NamesStreams DEF Living, Good, Core
  <1>1. Stops(x, s, m) /\ m \in Conns
    BY <1>0, StopIs
  <1> HIDE DEF m
  <1>2. NotListed(x, s, 0, 0)
    <2>1. s \notin Named(dg, {"head", "tail"})
      BY DEF Living, Clear
    <2>q. QED  BY <1>0, <2>1, Unlisted
  <1>3. \A i \in ReqSlots : x.held[i] # s
    BY DEF Living, Clear
  <1>4. s # Nil /\ m.held = x.held => Unheld(x, m, s)
    BY <1>3 DEF Unheld
  <1>5. s # Nil
    BY <1>0, ReqAssumption
  <1>6. ASSUME s \in x.sess, Closes(x, s, m)  PROVE Living(m, k, dg, p)
    <2> DEFINE n == 0
    <2>1. /\ Touches(x, s, m) /\ Asked(m, s) /\ Freed(x, s, m) /\ m.held = x.held
          /\ Pays(x, s, m, n) /\ m.limit = x.limit + n /\ n \in Nat
      BY <1>0, <1>6, ClosesAsked, ConnTyped
    <2>2. m.sess \subseteq x.sess
      BY <1>6 DEF Closes
    <2> HIDE DEF n
    <2>q. QED  BY <1>0, <1>2, <1>4, <1>5, <2>1, <2>2, LivingFreed
  <1>7. ASSUME s \notin x.sess, x.resp[s] # Nil, Finishes(x, s, m)  PROVE Living(m, k, dg, p)
    <2> DEFINE n == 1
    <2>1. /\ Touches(x, s, m) /\ Asked(m, s) /\ Freed(x, s, m) /\ m.held = x.held
          /\ Pays(x, s, m, n) /\ m.limit = x.limit + n /\ n \in Nat
      BY <1>0, <1>7, FinishesAsked
    <2>2. m.sess \subseteq x.sess
      BY <1>7 DEF Finishes, Ends, Moved, But, Fields
    <2> HIDE DEF n
    <2>q. QED  BY <1>0, <1>2, <1>4, <1>5, <2>1, <2>2, LivingFreed
  <1>8. ASSUME s \notin x.sess, x.resp[s] = Nil, HasSlot(x, s), Cancels(x, s, m)
        PROVE  Living(m, k, dg, p)
    <2> DEFINE n == 1
    <2>0. s \notin x.closed
      BY <1>8, FindsSlot DEF Conns, Told, SlotTold, Owns
    <2>1. /\ Touches(x, s, m) /\ Asked(m, s) /\ Freed(x, s, m) /\ m.held = x.held
          /\ Pays(x, s, m, n) /\ m.limit = x.limit + n /\ n \in Nat
      BY <1>0, <1>8, <2>0, CancelsAsked
    <2>2. m.sess \subseteq x.sess
      BY <1>8 DEF Cancels, Ends, Moved, But, Fields
    <2> HIDE DEF n
    <2>q. QED  BY <1>0, <1>2, <1>4, <1>5, <2>1, <2>2, LivingFreed
  <1>9. ASSUME s \notin x.sess, x.resp[s] = Nil, Silences(x, s, m)
        PROVE  Living(m, k, dg, p)
    <2> DEFINE n == 0
    <2>1. /\ Touches(x, s, m) /\ Asked(m, s) /\ m.slot = x.slot /\ m.held = x.held
          /\ Pays(x, s, m, n) /\ m.limit = x.limit + n /\ n \in Nat
      BY <1>0, <1>9, SilencesAsked, ConnTyped
    <2>2. m.sess \subseteq x.sess
      BY <1>9 DEF Silences, Kept, But, Fields
    <2> HIDE DEF n
    <2>q. QED  BY <1>0, <1>4, <1>5, <2>1, <2>2, LivingKept
  <1>10. Living(m, k, dg, p)
    BY <1>1, <1>6, <1>7, <1>8, <1>9 DEF Stops
  <1>q. QED  BY <1>10 DEF m

\* The loop over the STOP_SENDINGs.
LEMMA LiveStops ==
  ASSUME NEW k \in Conns, NEW x \in Conns, NEW dg \in Seq(Frames), NEW p \in Nat,
         Living(x, k, dg, p)
  PROVE  LET m == FoldLeft(srvrun_answer_peer_stop, x, dg) IN
         m \in Conns /\ Living(m, k, dg, p)
  <1> DEFINE V == {y \in Conns : Living(y, k, dg, p)}
             U == [j \in Nat |-> V]
  <1>1. Len(dg) \in Nat /\ \A j \in 1 .. Len(dg) : j \in Nat /\ j - 1 \in Nat /\ dg[j] \in Frames
    OBVIOUS
  <1>2. ASSUME NEW j \in 1 .. Len(dg), NEW y \in Conns, y \in V
        PROVE  srvrun_answer_peer_stop(y, dg[j]) \in V
    <2>1. CASE dg[j][2] # "stop"
      BY <1>2, <2>1 DEF srvrun_answer_peer_stop
    <2>2. CASE dg[j][2] = "stop"
      <3>1. dg[j][1] \in Named(dg, {"stop"}) /\ dg[j][1] \in Requests
        BY <1>1, <2>2 DEF Named, Frames
      <3>2. Living(answer_stream_stop(y, dg[j][1]), k, dg, p)
        BY <1>2, <3>1, LiveStop
      <3>3. answer_stream_stop(y, dg[j][1]) \in Conns
        BY <3>1, StopIs
      <3>q. QED  BY <2>2, <3>2, <3>3 DEF srvrun_answer_peer_stop
    <2>q. QED  BY <2>1, <2>2
  <1> HIDE DEF V
  <1>3. x \in U[0] /\ U[Len(dg)] = V
    BY <1>1 DEF V
  <1>4. \A j \in 1 .. Len(dg) : \A y \in Conns : y \in U[j - 1] => srvrun_answer_peer_stop(y, dg[j]) \in U[j]
    BY <1>1, <1>2
  <1> HIDE DEF U
  <1>5. FoldLeft(srvrun_answer_peer_stop, x, dg) \in V
    BY <1>3, <1>4, StopFold
  <1>q. QED  BY <1>5 DEF V

\* Every CONNECT that is held and reset.
LEMMA LiveDrop ==
  ASSUME NEW k \in Conns, NEW x \in Conns, NEW dg \in Seq(Frames), NEW p \in Nat,
         Living(x, k, dg, p), NEW f \in Frames, f[2] = "reset" => f[1] \in Named(dg, {"reset"})
  PROVE  LET m == srvrun_drop_held(x, f) IN
         /\ Living(m, k, dg, p) /\ m.sess \subseteq x.sess
         /\ \A i \in ReqSlots : m.held[i] \in {x.held[i], Nil} /\ (f[2] = "reset" => m.held[i] # f[1])
  <1> DEFINE s == f[1]
             m == srvrun_drop_held(x, f)
  <1>0. s \in Requests /\ Core(x, dg, 0, 0) /\ Asked(x, s) /\ s # Nil
    BY ReqAssumption DEF Living, Good, Core, Frames
  <1>1. CASE f[2] # "reset"
    BY <1>1, DropIs
  <1>2. CASE f[2] = "reset"
    <2>1. Drops(x, s, m) /\ m \in Conns /\ s \in Named(dg, {"reset"})
      BY <1>2, DropIs
    <2>2. \A i \in ReqSlots : x.held[i] # Nil => Owns(x, i, x.held[i]) /\ Waiting(x, x.held[i])
      BY <1>0 DEF Core, Holding
    <2> HIDE DEF m, s
    <2>3. ASSUME m = x, \A i \in ReqSlots : ~ (x.held[i] # Nil /\ x.slot[i].id = s)
          PROVE  /\ Living(m, k, dg, p) /\ m.sess \subseteq x.sess
                 /\ \A i \in ReqSlots : m.held[i] \in {x.held[i], Nil} /\ m.held[i] # s
      BY <1>0, <2>2, <2>3 DEF Owns
    <2>4. ASSUME Ends(x, s, m, {"held"}, 1), NEW i \in ReqSlots, x.held[i] # Nil, x.slot[i].id = s,
                 m.held = [x.held EXCEPT ![i] = Nil]
          PROVE  /\ Living(m, k, dg, p) /\ m.sess \subseteq x.sess
                 /\ \A h \in ReqSlots : m.held[h] \in {x.held[h], Nil} /\ m.held[h] # s
      <3> DEFINE n == 1
      <3>1. x.held[i] = s /\ Owns(x, i, s) /\ Waiting(x, s)
        BY <2>2, <2>4 DEF Owns
      <3>2. s \notin x.closed
        BY <3>1 DEF Conns, Told, SlotTold, Owns
      <3>3. s \in Named(dg, {"tail", "reset"})
        BY <2>1 DEF Named
      <3>4. kind[s] \in {"connect", "wtbad"} /\ s \notin Named(dg, {"head"})
        BY <3>1, <3>3 DEF Waiting, Living, Clear
      <3>5. NotListed(x, s, 0, 0)
        BY <1>0, <3>4, Unlisted
      <3>6. /\ Touches(x, s, m) /\ Asked(m, s) /\ Freed(x, s, m)
            /\ Pays(x, s, m, n) /\ m.limit = x.limit + n /\ n \in Nat
        BY <1>0, <2>4, <3>1, <3>2, EndsAsked DEF Waiting
      <3>7. \A h \in ReqSlots : x.held[h] = s => h = i
        BY <1>0, <2>2, <3>1 DEF Conns, Told, Owns
      <3>8. Unheld(x, m, s)
        BY <1>0, <2>4, <3>7, ConnTyped DEF Unheld
      <3>9. m.sess = x.sess
        BY <2>4 DEF Ends, Moved, But, Fields
      <3> HIDE DEF n
      <3>10. Living(m, k, dg, p)
        BY <1>0, <3>5, <3>6, <3>8, <3>9, LivingFreed
      <3>q. QED  BY <3>8, <3>9, <3>10 DEF Unheld
    <2>5. /\ Living(m, k, dg, p) /\ m.sess \subseteq x.sess
          /\ \A i \in ReqSlots : m.held[i] \in {x.held[i], Nil} /\ m.held[i] # s
      BY <2>1, <2>3, <2>4 DEF Drops
    <2>q. QED  BY <2>5 DEF m, s
  <1>q. QED  BY <1>1, <1>2

\* The loop over the held CONNECTs that are reset.
LEMMA LiveDrops ==
  ASSUME NEW k \in Conns, NEW x \in Conns, NEW dg \in Seq(Frames), NEW p \in Nat,
         Living(x, k, dg, p)
  PROVE  LET m == FoldLeft(srvrun_drop_held, x, dg) IN
         /\ m \in Conns /\ Living(m, k, dg, p) /\ m.sess \subseteq x.sess
         /\ \A s \in Named(dg, {"reset"}) : \A i \in ReqSlots : m.held[i] # s
  <1> DEFINE V(j) == {y \in Conns : /\ Living(y, k, dg, p) /\ y.sess \subseteq x.sess
                                    /\ \A h \in 1 .. Len(dg) : h <= j /\ dg[h][2] = "reset" =>
                                         \A i \in ReqSlots : y.held[i] # dg[h][1]}
             U == [j \in Nat |-> V(j)]
  <1>1. Len(dg) \in Nat /\ \A j \in 1 .. Len(dg) : /\ j \in Nat /\ j - 1 \in Nat /\ dg[j] \in Frames
                                                   /\ dg[j][1] \in Requests /\ dg[j][1] # Nil
    BY ReqAssumption DEF Frames
  <1>2. ASSUME NEW j \in 1 .. Len(dg), NEW y \in Conns, y \in V(j - 1)
        PROVE  srvrun_drop_held(y, dg[j]) \in V(j)
    <2> DEFINE f == dg[j]
               m == srvrun_drop_held(y, f)
    <2>0. f \in Frames
      BY <1>1
    <2>1. f[2] = "reset" => f[1] \in Named(dg, {"reset"})
      BY DEF Named
    <2>2. Living(y, k, dg, p)
      BY <1>2
    <2>3. /\ Living(m, k, dg, p) /\ m.sess \subseteq y.sess
          /\ \A i \in ReqSlots : m.held[i] \in {y.held[i], Nil} /\ (f[2] = "reset" => m.held[i] # f[1])
      <3> HIDE DEF f
      <3>q. QED  BY <2>0, <2>1, <2>2, LiveDrop
    <2>4. m \in Conns
      BY <2>0, DropIs
    <2> HIDE DEF m
    <2>5. ASSUME NEW h \in 1 .. Len(dg), h <= j, dg[h][2] = "reset", NEW i \in ReqSlots
          PROVE  m.held[i] # dg[h][1]
      <3>1. CASE h = j
        BY <2>3, <2>5, <3>1
      <3>2. CASE h # j
        <4>1. h <= j - 1
          BY <2>5, <3>2
        <4>2. y.held[i] # dg[h][1]
          BY <1>2, <2>5, <4>1
        <4>q. QED  BY <1>1, <2>3, <4>2
      <3>q. QED  BY <3>1, <3>2
    <2>6. y.sess \subseteq x.sess
      BY <1>2
    <2>7. m \in V(j)
      BY <2>3, <2>4, <2>5, <2>6
    <2>q. QED  BY <2>7 DEF m
  <1>3. x \in V(0)
    BY <1>1
  <1>4. \A m \in V(Len(dg)) :
          /\ m \in Conns /\ Living(m, k, dg, p) /\ m.sess \subseteq x.sess
          /\ \A s \in Named(dg, {"reset"}) : \A i \in ReqSlots : m.held[i] # s
    BY <1>1 DEF Named
  <1> HIDE DEF V
  <1>5. x \in U[0] /\ U[Len(dg)] = V(Len(dg))
    BY <1>1, <1>3
  <1>6. \A j \in 1 .. Len(dg) : \A y \in Conns : y \in U[j - 1] => srvrun_drop_held(y, dg[j]) \in U[j]
    BY <1>1, <1>2
  <1> HIDE DEF U
  <1>7. FoldLeft(srvrun_drop_held, x, dg) \in V(Len(dg))
    BY <1>5, <1>6, DropFold
  <1>q. QED  BY <1>4, <1>7

\* Every slot noted for a reset.
Freeing(y, k, dg, p) ==
  /\ Living(y, k, dg, p)
  /\ \A s \in Named(dg, {"reset"}) : \A i \in ReqSlots : y.held[i] # s

\* srvrun_reset_free, where the stream's credit is due.
LEMMA LiveFree ==
  ASSUME NEW k \in Conns, NEW x \in Conns, NEW dg \in Seq(Frames), NEW p \in Nat,
         Freeing(x, k, dg, p), NEW i \in ReqSlots
  PROVE  Freeing(srvrun_reset_free(x, i), k, dg, p)
  <1> DEFINE m == srvrun_reset_free(x, i)
             s == x.slot[i].id
  <1>1. m = x \/ (i \in x.rs /\ x.slot[i].use /\ x.resp[s] = Nil /\ Ends(x, s, m, {}, 1))
    BY ResetFreeIs DEF FreesReset
  <1>2. s \in Requests
    BY ConnTyped
  <1> HIDE DEF m
  <1>3. CASE m = x
    BY <1>3 DEF m
  <1>4. ASSUME i \in x.rs, x.slot[i].use, x.resp[s] = Nil, Ends(x, s, m, {}, 1)
        PROVE  Freeing(m, k, dg, p)
    <2> DEFINE n == 1
    <2>0. Core(x, dg, 0, 0) /\ Asked(x, s)
      BY <1>2 DEF Freeing, Living, Good, Core
    <2>1. s \in Named(dg, {"reset"}) /\ s # Nil
      BY <1>2, <1>4, <2>0, ReqAssumption DEF Core, Lists
    <2>2. Owns(x, i, s) /\ s \notin x.closed
      BY <1>4 DEF Owns, Conns, Told, SlotTold
    <2>3. m.held = x.held /\ m.sess = x.sess
      BY <1>4 DEF Ends, Moved, But, Fields
    <2>4. Unheld(x, m, s)
      BY <2>1, <2>3 DEF Freeing, Unheld
    <2>5. NotListed(x, s, 0, 0)
      <3>1. \A h \in ReqSlots : Owns(x, h, s) => h = i
        BY <2>2 DEF Conns, Told, Owns
      <3>2. /\ \A j \in 1 .. Len(x.done) : x.done[j] \in ReqSlots /\ x.done[j] # i
            /\ \A j \in 1 .. Len(x.inc) : x.inc[j] \in ReqSlots /\ x.inc[j] # i
        BY <1>4, <2>0, ConnTyped DEF Core, Lists
      <3>q. QED  BY <3>1, <3>2 DEF NotListed
    <2>6. Ends(x, s, m, {"held"}, 1)
      BY <1>4 DEF Ends, Moved, But
    <2> HIDE DEF s
    <2>7. /\ Touches(x, s, m) /\ Asked(m, s) /\ Freed(x, s, m)
          /\ Pays(x, s, m, n) /\ m.limit = x.limit + n /\ n \in Nat
      BY <1>2, <1>4, <2>0, <2>2, <2>6, EndsAsked
    <2> HIDE DEF n
    <2>9. Living(m, k, dg, p)
      BY <1>2, <2>3, <2>4, <2>5, <2>7, LivingFreed DEF Freeing
    <2>q. QED  BY <2>3, <2>9 DEF Freeing
  <1>5. Freeing(m, k, dg, p)
    BY <1>1, <1>3, <1>4
  <1>q. QED  BY <1>5 DEF m

\* The loop over the slots noted as reset.
LEMMA LiveFrees ==
  ASSUME NEW k \in Conns, NEW x \in Conns, NEW dg \in Seq(Frames), NEW p \in Nat,
         Freeing(x, k, dg, p)
  PROVE  LET m == FoldLeft(srvrun_reset_free, x, SlotsInOrder) IN
         m \in Conns /\ Living(m, k, dg, p)
  <1> DEFINE q == SlotsInOrder
             V == {y \in Conns : Freeing(y, k, dg, p)}
             U == [j \in Nat |-> V]
  <1>0. q \in Seq(ReqSlots)
    BY InOrder
  <1> HIDE DEF q
  <1>1. Len(q) \in Nat /\ \A j \in 1 .. Len(q) : j \in Nat /\ j - 1 \in Nat /\ q[j] \in ReqSlots
    BY <1>0
  <1>2. ASSUME NEW i \in ReqSlots, NEW y \in Conns, y \in V
        PROVE  srvrun_reset_free(y, i) \in V
    BY <1>2, LiveFree, ResetFreeIs
  <1>3. x \in V /\ \A y \in V : y \in Conns /\ Living(y, k, dg, p)
    BY DEF Freeing
  <1> HIDE DEF V
  <1>4. x \in U[0] /\ U[Len(q)] = V
    BY <1>1, <1>3
  <1>5. \A j \in 1 .. Len(q) : \A y \in Conns : y \in U[j - 1] => srvrun_reset_free(y, q[j]) \in U[j]
    BY <1>1, <1>2
  <1> HIDE DEF U
  <1>6. FoldLeft(srvrun_reset_free, x, q) \in V
    BY <1>0, <1>4, <1>5, FreeFold
  <1>q. QED  BY <1>3, <1>6 DEF q

\* Credits that are given.
AddUp(p, n, r) == p \in Nat /\ n \in Nat /\ r \in Nat /\ r = p + n

\* A raised limit and nothing else.
Raised(k, m) == (\A f \in Stages : m[f] = k[f]) /\ m.sess = k.sess /\ m.held = k.held

\* Of the credits to come, n are given.
LEMMA GrantGood ==
  ASSUME NEW k \in Conns, NEW dg, NEW a \in Nat, NEW b \in Nat, NEW p, NEW n,
         NEW r, AddUp(p, n, r), Good(k, dg, a, b, r), NEW m, Grants(k, n, m)
  PROVE  m \in Conns /\ Good(m, dg, a, b, p) /\ Raised(k, m)
  <1>0. 0 \in Requests
    BY ReqAssumption
  <1>1. /\ m.closed = k.closed /\ m.sess = k.sess /\ m.sendDone = k.sendDone /\ m.zero = k.zero
        /\ m.busy = k.busy /\ m.unpaid = k.unpaid /\ m.early = k.early /\ m.resp = k.resp
        /\ m.ans = k.ans /\ m.slot = k.slot /\ m.held = k.held
    BY DEF Grants, Kept, But, Fields
  <1>2. m \in Conns /\ \A f \in Stages : m[f] = k[f]
    BY DEF Grants, Kept, But, Fields, Stages
  <1>3. Touches(k, 0, m)
    BY <1>1, <1>2 DEF Touches, Unmoved
  <1>4. Asked(m, 0)
    <2> DEFINE s == 0
    <2>1. s \in Requests /\ Asked(k, s)
      BY <1>0 DEF Good, Core
    <2> HIDE DEF s
    <2>2. (Past(m, s) <=> Past(k, s)) /\ (Lives(m, s) <=> Lives(k, s)) /\ m.next = k.next
      BY <1>1, <1>2 DEF Past, Lives, Owns, Stages
    <2>3. Asked(m, s)
      BY <1>1, <2>1, <2>2 DEF Asked
    <2>q. QED  BY <2>3 DEF s
  <1>5. ASSUME NEW i \in ReqSlots
        PROVE  IF m.held[i] = 0 THEN Owns(k, i, 0) /\ k.slot[i].req = 0 /\ Waiting(m, 0)
               ELSE m.held[i] \in {k.held[i], Nil}
    <2> DEFINE s == 0
    <2>1. s # Nil
      BY ReqAssumption
    <2>2. k.held[i] = s /\ s # Nil => Owns(k, i, s) /\ k.slot[i].req = s /\ Waiting(k, s)
      BY DEF Good, Core, Holding
    <2> HIDE DEF s
    <2>3. Waiting(k, s) => Waiting(m, s)
      BY <1>1, <1>2 DEF Waiting, Past, Stages
    <2>4. IF m.held[i] = s THEN Owns(k, i, s) /\ k.slot[i].req = s /\ Waiting(m, s)
          ELSE m.held[i] \in {k.held[i], Nil}
      BY <1>1, <2>1, <2>2, <2>3
    <2>q. QED  BY <2>4 DEF s
  <1>6. Core(m, dg, a, b)
    <2> DEFINE s == 0
    <2>1. /\ s \in Requests /\ Touches(k, s, m) /\ Asked(m, s)
          /\ \A i \in ReqSlots :
               IF m.held[i] = s THEN Owns(k, i, s) /\ k.slot[i].req = s /\ Waiting(m, s)
               ELSE m.held[i] \in {k.held[i], Nil}
      BY <1>0, <1>3, <1>4, <1>5
    <2> HIDE DEF s
    <2>2. a <= a /\ b <= b /\ Core(k, dg, a, b)
      BY DEF Good
    <2>q. QED  BY <1>1, <2>1, <2>2, CoreKept
  <1>7. Balance(m, p)
    <2>1. Over(m) = Over(k) /\ Doubles(m) = Doubles(k)
      BY <1>1 DEF Over, Doubles
    <2>2. m.limit + p = k.limit + r
      BY ConnTyped DEF Grants, AddUp
    <2>q. QED  BY <2>1, <2>2 DEF Balance, Good
  <1>q. QED  BY <1>1, <1>2, <1>6, <1>7 DEF Good, Raised

\* srvrun_live_streams.
LEMMA LiveGood ==
  ASSUME NEW k \in Conns, NEW dg \in Seq(Frames),
         Good(k, dg, 0, 0, k.slotless + k.owed), Clear(k, dg)
  PROVE  LET m == srvrun_live_streams(k, dg) IN
         /\ m \in Conns /\ Good(m, dg, 0, 0, 0) /\ Clear(m, dg)
         /\ \A f \in Stages : m[f] = k[f]
  <1> DEFINE a == srvrun_close_wt_on_stream_close(k, dg)
             b == FoldLeft(srvrun_answer_peer_stop, a, dg)
             d == FoldLeft(srvrun_drop_held, b, dg)
             e == FoldLeft(srvrun_reset_free, d, SlotsInOrder)
             g == srvrun_grant_streams(e, d.slotless)
             m == srvrun_grant_streams(g, k.owed)
             p == k.slotless + k.owed
  <1>0. srvrun_live_streams(k, dg) = m
    BY DEF srvrun_live_streams, srvrun_free_reset_reqs
  <1>1. k.slotless \in Nat /\ k.owed \in Nat /\ p \in Nat
    BY ConnTyped
  <1>2. Living(k, k, dg, p)
    BY DEF Living
  <1> HIDE DEF p
  <1>3. a \in Conns /\ Living(a, k, dg, p)
    BY <1>1, <1>2, LiveClose
  <1> HIDE DEF a
  <1>4. b \in Conns /\ Living(b, k, dg, p) /\ b.sess \subseteq a.sess
    <2>1. b \in Conns /\ Living(b, a, dg, p)
      <3>1. Living(a, a, dg, p)
        BY <1>3 DEF Living
      <3>q. QED  BY <1>1, <1>3, <3>1, LiveStops
    <2> HIDE DEF b
    <2>2. \A f \in Stages : b[f] = k[f]
      BY <1>3, <2>1 DEF Living
    <2>q. QED  BY <1>3, <2>1, <2>2 DEF Living
  <1> HIDE DEF b
  <1>5. d \in Conns /\ Freeing(d, k, dg, p)
    <2>1. /\ d \in Conns /\ Living(d, k, dg, p) /\ d.sess \subseteq b.sess
          /\ \A s \in Named(dg, {"reset"}) : \A i \in ReqSlots : d.held[i] # s
      BY <1>1, <1>4, LiveDrops
    <2> HIDE DEF d
    <2>q. QED  BY <1>3, <1>4, <2>1 DEF Freeing
  <1> HIDE DEF d
  <1>6. e \in Conns /\ Living(e, k, dg, p)
    BY <1>1, <1>5, LiveFrees
  <1> HIDE DEF e
  <1>7. /\ g \in Conns /\ Good(g, dg, 0, 0, k.owed) /\ (\A f \in Stages : g[f] = e[f])
        /\ g.sess = e.sess /\ g.held = e.held
    <2> DEFINE z == 0
               n == d.slotless
               r == k.owed
    <2>1. n = k.slotless
      BY <1>5 DEF Freeing, Living, Stages
    <2>2. z \in Nat /\ n \in Nat /\ AddUp(r, n, p) /\ Good(e, dg, z, z, p)
      BY <1>1, <1>6, <2>1 DEF Living, p, AddUp
    <2>3. Grants(e, n, g)
      BY <1>6, <2>2, GrantIs
    <2> HIDE DEF z, n, r, g
    <2>4. /\ g \in Conns /\ Good(g, dg, z, z, r) /\ Raised(e, g)
      BY <1>1, <1>6, <2>2, <2>3, GrantGood
    <2>q. QED  BY <2>4 DEF z, r, Raised
  <1> HIDE DEF g
  <1>8. /\ m \in Conns /\ Good(m, dg, 0, 0, 0) /\ (\A f \in Stages : m[f] = g[f])
        /\ m.sess = g.sess /\ m.held = g.held
    <2> DEFINE z == 0
               n == k.owed
    <2>2. z \in Nat /\ n \in Nat /\ AddUp(z, n, n) /\ Good(g, dg, z, z, n)
      BY <1>1, <1>7 DEF AddUp
    <2>3. Grants(g, n, m)
      BY <1>7, <2>2, GrantIs
    <2> HIDE DEF z, n, m
    <2>4. /\ m \in Conns /\ Good(m, dg, z, z, z) /\ Raised(g, m)
      BY <1>7, <2>2, <2>3, GrantGood
    <2>q. QED  BY <2>4 DEF z, Raised
  <1> HIDE DEF m
  <1>9. \A f \in Stages : m[f] = k[f]
    BY <1>6, <1>7, <1>8 DEF Living
  <1>10. Clear(m, dg)
    <2>1. m.settings = e.settings /\ m.done = e.done /\ m.sess = e.sess /\ m.held = e.held
      BY <1>7, <1>8 DEF Stages
    <2>q. QED  BY <1>6, <2>1 DEF Living, Clear
  <1>q. QED  BY <1>0, <1>8, <1>9, <1>10

-----------------------------------------------------------------------------
\* srvrun_sess_on_step, loop by loop: from the entries a and b of the lists on.

\* What srvrun_sess_on_step keeps up.
Stepping(y, k, dg, a, b) ==
  /\ Good(y, dg, a, b, 0) /\ (\A f \in Stages : y[f] = k[f])
  /\ y.settings => y.done = <<>> \/ \A i \in ReqSlots : y.held[i] = Nil

\* A stream that ends within srvrun_sess_on_step.
LEMMA SteppingFreed ==
  ASSUME NEW k \in Conns, NEW y \in Conns, NEW dg, NEW a \in Nat, NEW b \in Nat,
         Stepping(y, k, dg, a, b), NEW s \in Requests, NEW m, Touches(y, s, m), Asked(m, s),
         Freed(y, s, m), Unheld(y, m, s), NEW v \in Nat, NEW w \in Nat, a <= v, b <= w,
         NotListed(y, s, v, w), NEW n \in Nat, Pays(y, s, m, n),
         m.limit = y.limit + n
  PROVE  Stepping(m, k, dg, v, w)
  <1>1. Good(m, dg, v, w, 0)
    <2> DEFINE z == 0
    <2>1. z \in Nat /\ Good(y, dg, a, b, z)
      BY DEF Stepping
    <2> HIDE DEF z
    <2>2. Good(m, dg, v, w, z)
      BY <2>1, GoodFreed
    <2>q. QED  BY <2>2 DEF z
  <1>2. \A f \in Stages : m[f] = y[f]
    BY DEF Touches
  <1>q. QED  BY <1>1, <1>2 DEF Stepping, Unheld, Stages

\* What is held: the stream s in its own slot, nothing new otherwise.
HeldFor(k, m, s) ==
  \A i \in ReqSlots : IF m.held[i] = s THEN Owns(k, i, s) /\ k.slot[i].req = s /\ Waiting(m, s)
                      ELSE m.held[i] \in {k.held[i], Nil}
NotHeld(k, s)   == \A i \in ReqSlots : k.held[i] # s
OnlyDrops(k, m) == \A i \in ReqSlots : m.held[i] \in {k.held[i], Nil}

\* An answer that changes within srvrun_sess_on_step.
LEMMA SteppingKept ==
  ASSUME NEW k \in Conns, NEW y \in Conns, NEW dg, NEW a \in Nat, NEW b \in Nat,
         Stepping(y, k, dg, a, b), NEW s \in Requests, NEW m, Touches(y, s, m), Asked(m, s),
         m.slot = y.slot, y.settings => Unheld(y, m, s), HeldFor(y, m, s),
         NEW v \in Nat, NEW w \in Nat, a <= v, b <= w,
         NEW n \in Nat, Pays(y, s, m, n), m.limit = y.limit + n
  PROVE  Stepping(m, k, dg, v, w)
  <1>1. Good(m, dg, v, w, 0)
    <2> DEFINE z == 0
    <2>1. z \in Nat /\ Good(y, dg, a, b, z)
      BY DEF Stepping
    <2> HIDE DEF z
    <2>2. Good(m, dg, v, w, z)
      BY <2>1, GoodKept DEF HeldFor
    <2>q. QED  BY <2>2 DEF z
  <1>2. \A f \in Stages : m[f] = y[f]
    BY DEF Touches
  <1>q. QED  BY <1>1, <1>2 DEF Stepping, Unheld, Stages

\* A stream without an entry a stream of the lists can be compared with.
LEMMA HeldWaits ==
  ASSUME NEW k \in Conns, NEW dg, NEW a, NEW b, Core(k, dg, a, b), NEW s \in Requests,
         ~ Waiting(k, s)
  PROVE  \A i \in ReqSlots : k.held[i] # s
  BY ReqAssumption DEF Core, Holding

\* srvrun_resp_reap.
LEMMA SessReap ==
  ASSUME NEW k \in Conns, NEW dg, Stepping(k, k, dg, 0, 0), NEW s \in Requests,
         k.resp[s] # Nil, s \notin Named(dg, {"head", "tail"})
  PROVE  srvrun_resp_reap(k, s) \in Conns /\ Stepping(srvrun_resp_reap(k, s), k, dg, 0, 0)
  <1> DEFINE m == srvrun_resp_reap(k, s)
             z == 0
             n == 1
  <1>0. s # Nil /\ Core(k, dg, z, z) /\ Asked(k, s) /\ Stepping(k, k, dg, z, z) /\ z \in Nat /\ z <= z
    BY ReqAssumption DEF Stepping, Good, Core
  <1>1. IF s \in k.sess THEN Acks(k, s, m) ELSE Finishes(k, s, m)
    BY ReapIs
  <1> HIDE DEF m, z
  <1>2. \A i \in ReqSlots : k.held[i] # s
    BY <1>0, HeldWaits DEF Waiting
  <1>3. NotListed(k, s, z, z)
    BY <1>0, Unlisted
  <1>4. m.held = k.held => Unheld(k, m, s)
    BY <1>0, <1>2 DEF Unheld
  <1>5. ASSUME s \in k.sess  PROVE m \in Conns /\ Stepping(m, k, dg, z, z)
    <2>1. /\ Touches(k, s, m) /\ Asked(m, s) /\ m.slot = k.slot /\ m.held = k.held
          /\ Pays(k, s, m, n) /\ m.limit = k.limit + n /\ n \in Nat
      BY <1>0, <1>1, <1>5, AcksAsked
    <2>2. HeldFor(k, m, s)
      BY <1>2, <2>1 DEF HeldFor
    <2> HIDE DEF n
    <2>q. QED  BY <1>0, <1>4, <2>1, <2>2, SteppingKept DEF Touches
  <1>6. ASSUME s \notin k.sess  PROVE m \in Conns /\ Stepping(m, k, dg, z, z)
    <2>1. /\ Touches(k, s, m) /\ Asked(m, s) /\ Freed(k, s, m) /\ m.held = k.held
          /\ Pays(k, s, m, n) /\ m.limit = k.limit + n /\ n \in Nat
      BY <1>0, <1>1, <1>6, FinishesAsked
    <2> HIDE DEF n
    <2>q. QED  BY <1>0, <1>3, <1>4, <2>1, SteppingFreed DEF Touches
  <1>q. QED  BY <1>5, <1>6 DEF m, z

\* The entries of a list are different streams.
LEMMA OthersListed ==
  ASSUME NEW k \in Conns, NEW dg, NEW a \in Nat, NEW b \in Nat, Core(k, dg, a, b),
         NEW i \in ReqSlots, NEW s, Owns(k, i, s), NEW v \in Nat, NEW w \in Nat,
         a <= v, b <= w,
         \A j \in 1 .. Len(k.done) : j > v => k.done[j] # i,
         \A j \in 1 .. Len(k.inc) : j > w => k.inc[j] # i
  PROVE  NotListed(k, s, v, w)
  <1>1. \A h \in ReqSlots : Owns(k, h, s) => h = i
    BY DEF Conns, Told, Owns
  <1>2. /\ \A j \in 1 .. Len(k.done) : k.done[j] \in ReqSlots
        /\ \A j \in 1 .. Len(k.inc) : k.inc[j] \in ReqSlots
    BY ConnTyped
  <1>q. QED  BY <1>1, <1>2 DEF NotListed

\* srvrun_abort_req, for the entry j of the list.
LEMMA SessAbort ==
  ASSUME NEW k \in Conns, NEW y \in Conns, NEW dg, NEW j \in 1 .. Len(y.inc),
         Stepping(y, k, dg, 0, j - 1)
  PROVE  Stepping(srvrun_abort_req(y, y.inc[j]), k, dg, 0, j)
  <1> DEFINE i == y.inc[j]
             s == y.slot[i].id
             m == srvrun_abort_req(y, i)
             z == 0
             b == j - 1
             n == 1
  <1>0. /\ i \in ReqSlots /\ s \in Requests /\ s # Nil /\ Core(y, dg, z, b) /\ j \in Nat /\ b \in Nat
        /\ z \in Nat /\ b <= j /\ z <= z /\ Stepping(y, k, dg, z, b) /\ j > b
    BY ConnTyped, ReqAssumption DEF Stepping, Good
  <1>1. Abortable(y, dg, i)
    BY <1>0 DEF Core, Lists
  <1>2. Owns(y, i, s) /\ s \notin y.closed /\ kind[s] \notin {"get", "connect", "wtbad"}
    <2>1. Owns(y, i, s) /\ kind[s] \notin {"get", "connect", "wtbad"}
      BY <1>1 DEF Abortable, Owns
    <2> HIDE DEF i, s, m, b
    <2>2. SlotTold(y, i)
      BY <1>0, <2>1 DEF Conns, Told, Owns
    <2>q. QED  BY <2>1, <2>2 DEF SlotTold, Owns
  <1>3. y.resp[s] = Nil /\ s \notin y.sess /\ Asked(y, s)
    <2> HIDE DEF i, s, m, b
    <2>1. Asked(y, s)
      BY <1>0 DEF Core
    <2>q. QED  BY <1>2, <2>1 DEF Asked
  <1>4. Cancels(y, s, m)
    BY <1>0, <1>2, AbortReqIs DEF Rejects, Owns
  <1>5. NotListed(y, s, z, j)
    <2>1. \A h \in 1 .. Len(y.inc) : h > j => y.inc[h] # i
      BY <1>0 DEF Core, Lists
    <2> HIDE DEF z, b, i, s
    <2>2. \A h \in 1 .. Len(y.done) : h > z => Answerable(y, dg, y.done[h])
      BY <1>0 DEF Core, Lists
    <2>3. \A h \in 1 .. Len(y.done) : h > z => y.done[h] # i
      BY <1>1, <2>2 DEF Answerable, Abortable
    <2>q. QED  BY <1>0, <1>2, <2>1, <2>3, OthersListed
  <1> HIDE DEF m, i, s, z, b
  <1>6. /\ Touches(y, s, m) /\ Asked(m, s) /\ Freed(y, s, m) /\ m.held = y.held
        /\ Pays(y, s, m, n) /\ m.limit = y.limit + n /\ n \in Nat
    BY <1>0, <1>2, <1>3, <1>4, CancelsAsked
  <1>7. Unheld(y, m, s)
    <2>1. \A h \in ReqSlots : y.held[h] # s
      BY <1>0, <1>2, HeldWaits DEF Waiting
    <2>q. QED  BY <1>0, <1>6, <2>1 DEF Unheld
  <1> HIDE DEF n
  <1>8. Stepping(m, k, dg, z, j)
    BY <1>0, <1>5, <1>6, <1>7, SteppingFreed
  <1>q. QED  BY <1>8 DEF m, i, z

\* The loop over the rejected requests.
LEMMA SessAborts ==
  ASSUME NEW k \in Conns, NEW x \in Conns, NEW dg, Stepping(x, k, dg, 0, 0)
  PROVE  LET m == FoldLeft(srvrun_abort_req, x, k.inc) IN
         m \in Conns /\ Stepping(m, k, dg, 0, Len(k.inc))
  <1> DEFINE q == k.inc
             V(j) == {y \in Conns : Stepping(y, k, dg, 0, j)}
             U == [j \in Nat |-> V(j)]
  <1>0. q \in Seq(ReqSlots)
    BY ConnTyped
  <1>1. Len(q) \in Nat /\ \A j \in 1 .. Len(q) : j \in Nat /\ j - 1 \in Nat /\ q[j] \in ReqSlots
    BY <1>0
  <1>2. ASSUME NEW j \in 1 .. Len(q), NEW y \in Conns, y \in V(j - 1)
        PROVE  srvrun_abort_req(y, q[j]) \in V(j)
    <2>1. Stepping(y, k, dg, 0, j - 1)
      BY <1>2
    <2>2. y.inc = q
      BY <2>1 DEF Stepping, Stages
    <2>3. Stepping(srvrun_abort_req(y, y.inc[j]), k, dg, 0, j)
      BY <2>1, <2>2, SessAbort
    <2>4. srvrun_abort_req(y, q[j]) \in Conns
      BY <1>1, AbortReqIs
    <2>q. QED  BY <2>2, <2>3, <2>4
  <1>3. x \in V(0) /\ \A m \in V(Len(q)) : m \in Conns /\ Stepping(m, k, dg, 0, Len(q))
    OBVIOUS
  <1> HIDE DEF V
  <1>4. x \in U[0] /\ U[Len(q)] = V(Len(q))
    BY <1>1, <1>3
  <1>5. \A j \in 1 .. Len(q) : \A y \in Conns : y \in U[j - 1] => srvrun_abort_req(y, q[j]) \in U[j]
    BY <1>1, <1>2
  <1> HIDE DEF U, q
  <1>6. FoldLeft(srvrun_abort_req, x, q) \in V(Len(q))
    BY <1>0, <1>4, <1>5, AbortFold
  <1>q. QED  BY <1>3, <1>6 DEF q

\* Less of the list is left.
LEMMA SteppingLater ==
  ASSUME NEW k \in Conns, NEW y \in Conns, NEW dg, NEW a \in Nat, NEW b \in Nat,
         Stepping(y, k, dg, a, b), NEW v \in Nat, a <= v
  PROVE  Stepping(y, k, dg, v, b)
  <1>1. Lists(y, dg, a, b)
    BY DEF Stepping, Good, Core
  <1>2. \A j \in 1 .. Len(y.done) : j > v => j > a
    BY ConnTyped
  <1>3. Lists(y, dg, v, b)
    BY <1>1, <1>2 DEF Lists
  <1>q. QED  BY <1>3 DEF Stepping, Good, Core

\* srvrun_start_resp for a slot whose request is its stream's.
LEMMA SessStart ==
  ASSUME NEW k \in Conns, NEW y \in Conns, NEW dg, NEW a \in Nat, NEW b \in Nat,
         Stepping(y, k, dg, a, b), NEW i \in ReqSlots, NEW s \in Requests, Owns(y, i, s),
         y.slot[i].req = s, kind[s] \in {"get", "connect", "wtbad"},
         NEW v \in Nat, a <= v, NotListed(y, s, v, b),
         y.settings => NotHeld(y, s),
         NEW q, q = s, NEW m \in Conns, Starts(y, s, q, m)
  PROVE  /\ Stepping(m, k, dg, v, b)
         /\ y.settings => OnlyDrops(y, m)
  <1>0. s # Nil /\ Core(y, dg, a, b) /\ Asked(y, s) /\ b <= b
    BY ReqAssumption DEF Stepping, Good, Core
  <1>1. s \notin y.closed /\ Lives(y, s) /\ s < y.next
    BY <1>0 DEF Core, Taken, Lives, Owns, Conns, Told, SlotTold
  <1>2. ~ Waiting(y, s) => NotHeld(y, s)
    BY <1>0, HeldWaits DEF NotHeld
  <1>3. ASSUME NEW n \in Nat, Touches(y, s, m), Asked(m, s), Freed(y, s, m), m.held = y.held,
               Pays(y, s, m, n), m.limit = y.limit + n,
               NotHeld(y, s)
        PROVE  /\ Stepping(m, k, dg, v, b)
               /\ y.settings => OnlyDrops(y, m)
    <2>1. Unheld(y, m, s)
      BY <1>0, <1>3 DEF Unheld, NotHeld
    <2>2. Stepping(m, k, dg, v, b)
      BY <1>0, <1>3, <2>1, SteppingFreed
    <2>q. QED  BY <1>3, <2>2 DEF OnlyDrops
  <1>4. ASSUME NEW n \in Nat, Touches(y, s, m), Asked(m, s), m.slot = y.slot, m.held = y.held,
               Pays(y, s, m, n), m.limit = y.limit + n,
               NotHeld(y, s)
        PROVE  /\ Stepping(m, k, dg, v, b)
               /\ y.settings => OnlyDrops(y, m)
    <2>1. Unheld(y, m, s)
      BY <1>0, <1>4 DEF Unheld, NotHeld
    <2>2. HeldFor(y, m, s)
      BY <1>4 DEF HeldFor, NotHeld
    <2>3. Stepping(m, k, dg, v, b)
      BY <1>0, <1>4, <2>1, <2>2, SteppingKept
    <2>q. QED  BY <1>4, <2>3 DEF OnlyDrops
  <1>5. CASE m = y
    BY <1>5, SteppingLater DEF OnlyDrops
  <1>6. ASSUME Refuses(y, s, m), y.resp[s] = Nil, s \notin y.sess, NotHeld(y, s)
        PROVE  /\ Stepping(m, k, dg, v, b)
               /\ y.settings => OnlyDrops(y, m)
    <2> DEFINE n == 0
    <2>2. /\ Touches(y, s, m) /\ Asked(m, s) /\ Freed(y, s, m) /\ m.held = y.held
          /\ Pays(y, s, m, n) /\ m.limit = y.limit + n /\ n \in Nat
      BY <1>0, <1>1, <1>6, RefusesAsked, ConnTyped
    <2> HIDE DEF n
    <2>q. QED  BY <1>3, <1>6, <2>2
  <1>7. CASE s \in y.sendDone /\ Ends(y, s, m, {}, 1)
    <2> DEFINE n == 1
    <2>1. s \notin y.sess /\ NotHeld(y, s)
      BY <1>0, <1>2, <1>7 DEF Asked, Waiting
    <2>2. Ends(y, s, m, {"held"}, 1) /\ m.held = y.held
      BY <1>7 DEF Ends, Moved, But, Fields
    <2>3. /\ Touches(y, s, m) /\ Asked(m, s) /\ Freed(y, s, m)
          /\ Pays(y, s, m, n) /\ m.limit = y.limit + n /\ n \in Nat
      BY <1>0, <1>1, <1>7, <2>1, <2>2, EndsAsked
    <2> HIDE DEF n
    <2>q. QED  BY <1>3, <2>1, <2>2, <2>3
  <1>8. CASE Claimed(y, s) /\ kind[s] \in {"connect", "wtbad"} /\ ~ y.settings /\ Holds(y, s, m)
    <2> DEFINE n == 0
    <2>1. /\ Touches(y, s, m) /\ Asked(m, s) /\ m.slot = y.slot
          /\ Pays(y, s, m, n) /\ m.limit = y.limit + n /\ n \in Nat
      BY <1>0, <1>8, HoldsAsked, ConnTyped
    <2>2. m.held = [y.held EXCEPT ![i] = s] /\ y.held \in [ReqSlots -> Request]
      <3>1. SlotOf(y, s) = i
        BY FindsSlot
      <3>q. QED  BY <1>8, <3>1, ConnTyped DEF Holds
    <2>3. Waiting(m, s)
      <3>1. Waiting(y, s)
        BY <1>8 DEF Claimed, Waiting
      <3>2. m.resp = y.resp /\ m.sess = y.sess /\ m.sendDone = y.sendDone /\ m.goaway = y.goaway
        BY <1>8 DEF Holds, Kept, But, Fields
      <3>q. QED  BY <3>1, <3>2 DEF Waiting, Past
    <2>4. \A h \in ReqSlots : y.held[h] = s => h = i
      <3>1. \A h \in ReqSlots : y.held[h] = s => Owns(y, h, s)
        BY <1>0 DEF Core, Holding
      <3>q. QED  BY <3>1 DEF Conns, Told, Owns
    <2>5. HeldFor(y, m, s)
      BY <2>2, <2>3, <2>4 DEF HeldFor
    <2> HIDE DEF n
    <2>6. Stepping(m, k, dg, v, b)
      BY <1>0, <1>8, <2>1, <2>5, SteppingKept
    <2>q. QED  BY <1>8, <2>6
  <1>9. CASE Claimed(y, s) /\ kind[s] = "connect" /\ y.settings /\ Busies(y, s, q, m)
    <2> DEFINE n == 0
    <2>1. /\ Touches(y, s, m) /\ Asked(m, s) /\ m.slot = y.slot /\ m.held = y.held
          /\ Pays(y, s, m, n) /\ m.limit = y.limit + n /\ n \in Nat
      BY <1>0, <1>1, <1>9, BusiesAsked, ConnTyped
    <2> HIDE DEF n
    <2>q. QED  BY <1>4, <1>9, <2>1
  <1>10. CASE Claimed(y, s) /\ kind[s] = "connect" /\ y.settings /\ Opens(y, s, q, m)
    <2> DEFINE n == 0
    <2>1. /\ Touches(y, s, m) /\ Asked(m, s) /\ m.slot = y.slot /\ m.held = y.held
          /\ Pays(y, s, m, n) /\ m.limit = y.limit + n /\ n \in Nat
      BY <1>0, <1>1, <1>10, OpensAsked, ConnTyped
    <2> HIDE DEF n
    <2>q. QED  BY <1>4, <1>10, <2>1
  <1>11. CASE Claimed(y, s) /\ kind[s] = "get" /\ Answers(y, s, q, m)
    <2> DEFINE n == 0
    <2>1. /\ Touches(y, s, m) /\ Asked(m, s) /\ m.slot = y.slot /\ m.held = y.held
          /\ Pays(y, s, m, n) /\ m.limit = y.limit + n /\ n \in Nat
      BY <1>0, <1>1, <1>11, AnswersAsked, ConnTyped
    <2>2. NotHeld(y, s)
      BY <1>2, <1>11 DEF Waiting
    <2> HIDE DEF n
    <2>q. QED  BY <1>4, <2>1, <2>2
  <1>12. ASSUME Claimed(y, s), kind[s] \in {"connect", "wtbad"}, Gated(y, s, q, m)
         PROVE  /\ Stepping(m, k, dg, v, b)
                /\ y.settings => OnlyDrops(y, m)
    <2>1. kind[q] # "wtbad" => kind[s] = "connect"
      BY <1>12
    <2>2. y.resp[s] = Nil /\ s \notin y.sess
      BY <1>12 DEF Claimed
    <2>q. QED  BY <1>5, <1>6, <1>8, <1>9, <1>10, <1>12, <2>1, <2>2 DEF Gated
  <1>13. kind[q] = kind[s]
    OBVIOUS
  <1>14. \/ m = y
         \/ Past(y, s) /\ Refuses(y, s, m)
         \/ s \in y.sendDone /\ Ends(y, s, m, {}, 1)
         \/ Claimed(y, s) /\ kind[s] \in {"connect", "wtbad"} /\ Gated(y, s, q, m)
         \/ Claimed(y, s) /\ kind[s] \notin {"connect", "wtbad"} /\ Answers(y, s, q, m)
    BY <1>13 DEF Starts
  <1>15. kind[s] \notin {"connect", "wtbad"} => kind[s] = "get"
    OBVIOUS
  <1>q. QED
    <2>1. CASE m = y
      BY <1>5, <2>1
    <2>2. CASE Past(y, s) /\ Refuses(y, s, m)
      <3>1. y.resp[s] = Nil /\ s \notin y.sess /\ NotHeld(y, s)
        BY <1>0, <1>2, <2>2 DEF Asked, Waiting
      <3>q. QED  BY <1>6, <2>2, <3>1
    <2>3. CASE s \in y.sendDone /\ Ends(y, s, m, {}, 1)
      BY <1>7, <2>3
    <2>4. CASE Claimed(y, s) /\ kind[s] \in {"connect", "wtbad"} /\ Gated(y, s, q, m)
      BY <1>12, <2>4
    <2>5. CASE Claimed(y, s) /\ kind[s] \notin {"connect", "wtbad"} /\ Answers(y, s, q, m)
      BY <1>11, <1>15, <2>5
    <2>q. QED  BY <1>14, <2>1, <2>2, <2>3, <2>4, <2>5

\* srvrun_start_held_resp: every CONNECT that was held, when SETTINGS came.
LEMMA SessWake ==
  ASSUME NEW k \in Conns, NEW y \in Conns, NEW dg, NEW b \in Nat, Stepping(y, k, dg, 0, b),
         y.settings, NEW i \in ReqSlots
  PROVE  LET m == srvrun_start_held_resp(y, i) IN
         /\ Stepping(m, k, dg, 0, b) /\ m.held[i] = Nil
         /\ \A h \in ReqSlots : m.held[h] \in {y.held[h], Nil}
  <1> DEFINE m == srvrun_start_held_resp(y, i)
             z == 0
  <1>1. Wakes(y, i, m) /\ m \in Conns
    BY StartHeldIs
  <1>2. Stepping(y, k, dg, z, b) /\ z \in Nat /\ z <= z /\ Core(y, dg, z, b) /\ b <= b
    BY DEF Stepping, Good
  <1> HIDE DEF m, z
  <1>3. ASSUME y.held[i] = Nil, m = y
        PROVE  /\ Stepping(m, k, dg, z, b) /\ m.held[i] = Nil
               /\ \A h \in ReqSlots : m.held[h] \in {y.held[h], Nil}
    BY <1>2, <1>3
  <1>4. ASSUME y.held[i] # Nil, NEW n \in Conns, Kept(y, n, {"held"}),
               n.held = [y.held EXCEPT ![i] = Nil],
               IF Owns(y, i, y.held[i]) THEN Starts(n, n.slot[i].id, n.slot[i].req, m) ELSE m = n
        PROVE  /\ Stepping(m, k, dg, z, b) /\ m.held[i] = Nil
               /\ \A h \in ReqSlots : m.held[h] \in {y.held[h], Nil}
    <2> DEFINE s == y.held[i]
    <2>0. s \in Requests /\ y.held \in [ReqSlots -> Request] /\ Nil \notin Requests
      BY <1>4, ConnTyped, ReqAssumption DEF Request
    <2>1. Owns(y, i, s) /\ y.slot[i].req = s /\ Waiting(y, s) /\ Asked(y, s)
      BY <1>2, <1>4, <2>0 DEF Core, Holding
    <2>2. /\ n.closed = y.closed /\ n.sess = y.sess /\ n.sendDone = y.sendDone /\ n.zero = y.zero
          /\ n.busy = y.busy /\ n.unpaid = y.unpaid /\ n.early = y.early /\ n.resp = y.resp
          /\ n.ans = y.ans /\ n.slot = y.slot /\ n.limit = y.limit
      BY <1>4 DEF Kept, But, Fields
    <2>3. \A f \in Stages : n[f] = y[f]
      BY <1>4 DEF Kept, But, Fields, Stages
    <2>4. \A h \in ReqSlots : n.held[h] # s /\ n.held[h] \in {y.held[h], Nil}
      <3>1. \A h \in ReqSlots : y.held[h] = s => h = i
        <4>1. \A h \in ReqSlots : y.held[h] = s => Owns(y, h, s)
          BY <1>2, <2>0 DEF Core, Holding
        <4>q. QED  BY <2>1, <4>1 DEF Conns, Told, Owns
      <3>q. QED  BY <1>4, <2>0, <3>1
    <2> HIDE DEF s
    <2>5. Stepping(n, k, dg, z, b)
      <3> DEFINE g == 0
      <3>1. Touches(y, s, n)
        BY <2>2, <2>3 DEF Touches, Unmoved
      <3>2. (Past(n, s) <=> Past(y, s)) /\ (Lives(n, s) <=> Lives(y, s)) /\ n.next = y.next
        BY <2>2, <2>3 DEF Past, Lives, Owns, Stages
      <3>3. Asked(n, s)
        BY <2>1, <2>2, <3>2 DEF Asked
      <3>4. Pays(y, s, n, g) /\ g \in Nat /\ n.limit = y.limit + g
        BY <2>2, ConnTyped DEF Pays, Over, Doubles
      <3>5. Unheld(y, n, s) /\ HeldFor(y, n, s)
        BY <2>4 DEF Unheld, HeldFor
      <3> HIDE DEF g
      <3>q. QED  BY <1>2, <2>0, <2>2, <3>1, <3>3, <3>4, <3>5, SteppingKept
    <2>6. Owns(n, i, s) /\ n.slot[i].req = s /\ n.slot[i].id = s /\ n.settings
      BY <2>1, <2>2, <2>3 DEF Owns, Stages
    <2>7. kind[s] \in {"get", "connect", "wtbad"} /\ n.done = <<>>
      BY <1>4, <2>1, <2>3 DEF Waiting, Stepping, Stages
    <2>8. NotListed(n, s, z, b)
      <3>1. \A j \in 1 .. Len(n.done) : n.done[j] # i
        BY <2>7
      <3>2. \A j \in 1 .. Len(n.inc) : j > b => n.inc[j] # i
        BY <2>1, <2>5, <2>6 DEF Stepping, Good, Core, Lists, Abortable, Waiting
      <3>3. Core(n, dg, z, b)
        BY <2>5 DEF Stepping, Good
      <3>q. QED  BY <1>2, <2>6, <3>1, <3>2, <3>3, OthersListed
    <2>9. Starts(n, s, s, m)
      BY <1>4, <2>1, <2>6 DEF s
    <2>10. NotHeld(n, s)
      BY <2>4 DEF NotHeld
    <2>11. Stepping(m, k, dg, z, b) /\ OnlyDrops(n, m)
      BY <1>1, <1>2, <2>0, <2>5, <2>6, <2>7, <2>8, <2>9, <2>10, SessStart
    <2>12. n.held[i] = Nil
      BY <1>4, <2>0
    <2>q. QED  BY <2>4, <2>11, <2>12 DEF OnlyDrops
  <1>5. /\ Stepping(m, k, dg, z, b) /\ m.held[i] = Nil
        /\ \A h \in ReqSlots : m.held[h] \in {y.held[h], Nil}
    BY <1>1, <1>3, <1>4 DEF Wakes
  <1>q. QED  BY <1>5 DEF m, z

\* No CONNECT waits for SETTINGS.
NoneHeld(k) == \A i \in ReqSlots : k.held[i] = Nil

\* The loop over the held CONNECTs leaves none held.
LEMMA SessWakes ==
  ASSUME NEW k \in Conns, NEW x \in Conns, NEW dg, NEW b \in Nat, Stepping(x, k, dg, 0, b),
         k.settings
  PROVE  LET m == FoldLeft(srvrun_start_held_resp, x, SlotsInOrder) IN
         m \in Conns /\ Stepping(m, k, dg, 0, b) /\ NoneHeld(m)
  <1> DEFINE q == SlotsInOrder
             V(j) == {y \in Conns : /\ Stepping(y, k, dg, 0, b)
                                    /\ \A h \in ReqSlots : h <= j => y.held[h] = Nil}
             U == [j \in Nat |-> V(j)]
  <1>0. q \in Seq(ReqSlots) /\ Cap \in Nat
    BY InOrder, ReqAssumption
  <1>1. Len(q) = Cap /\ \A j \in 1 .. Cap : j \in Nat /\ j - 1 \in Nat /\ q[j] = j /\ j \in ReqSlots
    BY <1>0 DEF SlotsInOrder, ReqSlots
  <1> HIDE DEF q
  <1>2. ASSUME NEW j \in 1 .. Cap, NEW y \in Conns, y \in V(j - 1)
        PROVE  srvrun_start_held_resp(y, j) \in V(j)
    <2> DEFINE m == srvrun_start_held_resp(y, j)
    <2>1. Stepping(y, k, dg, 0, b) /\ j \in ReqSlots
      BY <1>1, <1>2
    <2>2. y.settings
      BY <2>1 DEF Stepping, Stages
    <2>3. /\ Stepping(m, k, dg, 0, b) /\ m.held[j] = Nil
          /\ \A h \in ReqSlots : m.held[h] \in {y.held[h], Nil}
      BY <2>1, <2>2, SessWake
    <2>4. m \in Conns
      BY <2>1, StartHeldIs
    <2> HIDE DEF m
    <2>5. ASSUME NEW h \in ReqSlots, h <= j  PROVE m.held[h] = Nil
      <3>1. h = j \/ h <= j - 1
        BY <1>0, <1>1, <2>5 DEF ReqSlots
      <3>2. h <= j - 1 => y.held[h] = Nil
        BY <1>2
      <3>q. QED  BY <2>3, <3>1, <3>2
    <2>6. m \in V(j)
      BY <2>3, <2>4, <2>5
    <2>q. QED  BY <2>6 DEF m
  <1>3. x \in V(0) /\ \A m \in V(Cap) : m \in Conns /\ Stepping(m, k, dg, 0, b) /\ NoneHeld(m)
    BY <1>0 DEF ReqSlots, NoneHeld
  <1> HIDE DEF V
  <1>4. x \in U[0] /\ U[Len(q)] = V(Cap)
    BY <1>0, <1>1, <1>3
  <1>5. \A j \in 1 .. Len(q) : \A y \in Conns : y \in U[j - 1] => srvrun_start_held_resp(y, q[j]) \in U[j]
    BY <1>1, <1>2
  <1> HIDE DEF U
  <1>6. FoldLeft(srvrun_start_held_resp, x, q) \in V(Cap)
    BY <1>0, <1>4, <1>5, WakeFold
  <1>q. QED  BY <1>3, <1>6 DEF q

\* srvrun_start_done_resp, for the entry j of the list.
LEMMA SessStartDone ==
  ASSUME NEW k \in Conns, NEW y \in Conns, NEW dg, NEW b \in Nat, NEW j \in 1 .. Len(y.done),
         Stepping(y, k, dg, j - 1, b), y.settings => NoneHeld(y)
  PROVE  LET m == srvrun_start_done_resp(y, y.done[j]) IN
         Stepping(m, k, dg, j, b) /\ (y.settings => NoneHeld(m))
  <1> DEFINE i == y.done[j]
             s == y.slot[i].id
             m == srvrun_start_done_resp(y, i)
             a == j - 1
  <1>0. /\ i \in ReqSlots /\ s \in Requests /\ s # Nil /\ Core(y, dg, a, b) /\ j \in Nat /\ a \in Nat
        /\ a <= j /\ b <= b /\ Stepping(y, k, dg, a, b) /\ j > a
    BY ConnTyped, ReqAssumption DEF Stepping, Good
  <1>1. Answerable(y, dg, i)
    BY <1>0 DEF Core, Lists
  <1>2. Owns(y, i, s) /\ y.slot[i].req = s /\ kind[s] \in {"get", "connect", "wtbad"}
    BY <1>1 DEF Answerable, Owns
  <1>3. Starts(y, s, s, m) /\ m \in Conns
    BY <1>0, <1>2, StartDoneIs
  <1>4. NotListed(y, s, j, b)
    <2>1. \A h \in 1 .. Len(y.done) : h > j => y.done[h] # i
      BY <1>0 DEF Core, Lists
    <2> HIDE DEF a, i, s
    <2>2. \A h \in 1 .. Len(y.inc) : h > b => Abortable(y, dg, y.inc[h])
      BY <1>0 DEF Core, Lists
    <2>3. \A h \in 1 .. Len(y.inc) : h > b => y.inc[h] # i
      BY <1>1, <2>2 DEF Answerable, Abortable
    <2>q. QED  BY <1>0, <1>2, <2>1, <2>3, OthersListed
  <1>5. y.settings => NotHeld(y, s)
    BY <1>0 DEF NoneHeld, NotHeld
  <1> HIDE DEF m, i, s, a
  <1>6. Stepping(m, k, dg, j, b) /\ (y.settings => OnlyDrops(y, m))
    BY <1>0, <1>2, <1>3, <1>4, <1>5, SessStart
  <1>7. y.settings => NoneHeld(m)
    BY <1>6 DEF NoneHeld, OnlyDrops
  <1>q. QED  BY <1>6, <1>7 DEF m, i

\* The loop over the completed requests.
LEMMA SessStarts ==
  ASSUME NEW k \in Conns, NEW x \in Conns, NEW dg, NEW b \in Nat, Stepping(x, k, dg, 0, b),
         k.settings => NoneHeld(x)
  PROVE  LET m == FoldLeft(srvrun_start_done_resp, x, k.done) IN
         m \in Conns /\ Stepping(m, k, dg, Len(k.done), b) /\ (k.settings => NoneHeld(m))
  <1> DEFINE q == k.done
             V(j) == {y \in Conns : Stepping(y, k, dg, j, b) /\ (k.settings => NoneHeld(y))}
             U == [j \in Nat |-> V(j)]
  <1>0. q \in Seq(ReqSlots)
    BY ConnTyped
  <1>1. Len(q) \in Nat /\ \A j \in 1 .. Len(q) : j \in Nat /\ j - 1 \in Nat /\ q[j] \in ReqSlots
    BY <1>0
  <1>2. ASSUME NEW j \in 1 .. Len(q), NEW y \in Conns, y \in V(j - 1)
        PROVE  srvrun_start_done_resp(y, q[j]) \in V(j)
    <2>1. Stepping(y, k, dg, j - 1, b) /\ (k.settings => NoneHeld(y))
      BY <1>2
    <2>2. y.done = q /\ y.settings = k.settings
      BY <2>1 DEF Stepping, Stages
    <2>3. y.settings => NoneHeld(y)
      BY <2>1, <2>2
    <2>4. j \in 1 .. Len(y.done)
      BY <2>2
    <2>5. /\ Stepping(srvrun_start_done_resp(y, y.done[j]), k, dg, j, b)
          /\ y.settings => NoneHeld(srvrun_start_done_resp(y, y.done[j]))
      BY <2>1, <2>3, <2>4, SessStartDone
    <2>6. srvrun_start_done_resp(y, q[j]) \in Conns
      BY <1>1, StartDoneIs
    <2>q. QED  BY <2>2, <2>5, <2>6
  <1>3. x \in V(0) /\ \A m \in V(Len(q)) :
          m \in Conns /\ Stepping(m, k, dg, Len(q), b) /\ (k.settings => NoneHeld(m))
    OBVIOUS
  <1> HIDE DEF V
  <1>4. x \in U[0] /\ U[Len(q)] = V(Len(q))
    BY <1>1, <1>3
  <1>5. \A j \in 1 .. Len(q) : \A y \in Conns : y \in U[j - 1] => srvrun_start_done_resp(y, q[j]) \in U[j]
    BY <1>1, <1>2
  <1> HIDE DEF U, q
  <1>6. FoldLeft(srvrun_start_done_resp, x, q) \in V(Len(q))
    BY <1>0, <1>4, <1>5, StartFold
  <1>q. QED  BY <1>3, <1>6 DEF q

\* srvrun_sess_on_step.
LEMMA SessGood ==
  ASSUME NEW k \in Conns, NEW dg, Stepping(k, k, dg, 0, 0), NEW acked \in Request,
         acked \notin Named(dg, {"head", "tail"})
  PROVE  LET m == srvrun_sess_on_step(k, acked) IN
         /\ m \in Conns /\ Stepping(m, k, dg, Len(k.done), Len(k.inc))
         /\ k.settings => NoneHeld(m)
  <1> DEFINE a == IF acked = Nil \/ k.resp[acked] = Nil THEN k ELSE srvrun_resp_reap(k, acked)
             b == FoldLeft(srvrun_abort_req, a, k.inc)
             w == IF ~ k.settings THEN b ELSE FoldLeft(srvrun_start_held_resp, b, SlotsInOrder)
             m == FoldLeft(srvrun_start_done_resp, w, k.done)
             n == Len(k.inc)
  <1>0. srvrun_sess_on_step(k, acked) = m
    BY DEF srvrun_sess_on_step
  <1>1. a \in Conns /\ Stepping(a, k, dg, 0, 0)
    <2>1. CASE acked = Nil \/ k.resp[acked] = Nil
      BY <2>1
    <2>2. CASE acked # Nil /\ k.resp[acked] # Nil
      BY <2>2, SessReap DEF Request
    <2>q. QED  BY <2>1, <2>2
  <1> HIDE DEF a
  <1>2. b \in Conns /\ Stepping(b, k, dg, 0, n) /\ n \in Nat
    BY <1>1, SessAborts, ConnTyped
  <1> HIDE DEF b, n
  <1>3. w \in Conns /\ Stepping(w, k, dg, 0, n) /\ (k.settings => NoneHeld(w))
    <2>1. CASE ~ k.settings
      BY <1>2, <2>1
    <2>2. CASE k.settings
      BY <1>2, <2>2, SessWakes
    <2>q. QED  BY <2>1, <2>2
  <1> HIDE DEF w
  <1>4. m \in Conns /\ Stepping(m, k, dg, Len(k.done), n) /\ (k.settings => NoneHeld(m))
    BY <1>2, <1>3, SessStarts
  <1>q. QED  BY <1>0, <1>4 DEF n

-----------------------------------------------------------------------------
\* wired_srvloop_step, loop by loop.

\* The loop answers nobody: of the histories and the answers nothing changes, and a
\* stream that was taken up stays so.
Looped(k, m) ==
  /\ \A f \in {"sess", "held", "settings", "goaway", "sendDone", "resp", "ans", "zero", "busy",
               "unpaid", "early", "limit"} : m[f] = k[f]
  /\ k.next <= m.next /\ k.closed \subseteq m.closed
  /\ \A t \in Requests : Lives(k, t) => Lives(m, t)

\* What the loop changes is nothing to a stream's answer.
LEMMA LoopedAsked ==
  ASSUME NEW k \in Conns, NEW m \in Conns, Looped(k, m), NEW t \in Requests
  PROVE  (Asked(k, t) => Asked(m, t)) /\ (Waiting(k, t) => Waiting(m, t))
  <1>1. /\ m.sess = k.sess /\ m.goaway = k.goaway /\ m.sendDone = k.sendDone /\ m.resp = k.resp
        /\ m.ans = k.ans /\ m.zero = k.zero /\ m.busy = k.busy /\ m.unpaid = k.unpaid
        /\ m.early = k.early
    BY DEF Looped
  <1>2. /\ t \in Nat /\ k.next \in Nat /\ m.next \in Nat /\ k.next <= m.next
        /\ (t \in k.closed => t \in m.closed) /\ (Lives(k, t) => Lives(m, t))
    BY ConnTyped, ReqAssumption DEF Looped
  <1>3. Past(m, t) <=> Past(k, t)
    BY <1>1 DEF Past
  <1>4. t < k.next => t < m.next
    BY <1>2
  <1>q. QED  BY <1>1, <1>2, <1>3, <1>4 DEF Asked, Waiting

\* Two steps of the loop are one.
LEMMA LoopedTwice ==
  ASSUME NEW k \in Conns, NEW n \in Conns, NEW m \in Conns, Looped(k, n), Looped(n, m)
  PROVE  Looped(k, m)
  <1>1. k.next <= m.next
    BY ConnTyped DEF Looped
  <1>q. QED  BY <1>1 DEF Looped

\* While the frames land: the slots past a are those whose turn to complete comes.
Pending(x, dg, a, i) ==
  i > a /\ i \in x.touched /\ x.slot[i].id \in Named(dg, {"head"})
Served(x, dg, a) ==
  /\ \A s \in Requests : Asked(x, s)
  /\ Holding(x)
  /\ \A i \in ReqSlots : x.slot[i].use =>
       /\ x.slot[i].id < x.next
       /\ kind[x.slot[i].id] \in {"connect", "wtbad"} /\ "head" \in x.slot[i].got =>
            x.slot[i].done \/ Pending(x, dg, a, i)
  /\ \A i \in x.touched : i > a => x.slot[i].use /\ x.slot[i].id \in Named(dg, {"head", "tail"})

\* What is listed stays listed, for a slot below a.
Listed(x, dg, a) ==
  /\ \A j \in 1 .. Len(x.done) : /\ x.done[j] <= a /\ Answerable(x, dg, x.done[j])
                                 /\ x.slot[x.done[j]].done
  /\ \A j \in 1 .. Len(x.inc) : /\ x.inc[j] <= a /\ Abortable(x, dg, x.inc[j])
                                /\ x.slot[x.inc[j]].done
  /\ \A j, h \in 1 .. Len(x.done) : x.done[j] = x.done[h] => j = h
  /\ \A j, h \in 1 .. Len(x.inc) : x.inc[j] = x.inc[h] => j = h
\* The lists are empty, as between the steps.
NoneListed(x) == x.done = <<>> /\ x.inc = <<>> /\ x.rs = {} /\ x.slotless = 0 /\ x.owed = 0

\* route_land.
LEMMA LandLoops ==
  ASSUME NEW k \in Conns, NEW f \in Frames, NEW m, Lands(k, f, m)
  PROVE  m \in Conns /\ Looped(k, m) /\ m.closed = k.closed /\ (NoneListed(k) => NoneListed(m))
  <1>1. m \in Conns /\ But(k, m, {"slot", "next", "touched"}) /\ k.next <= m.next
    BY DEF Lands
  <1>2. ASSUME NEW j \in ReqSlots, NEW t, Owns(k, j, t)  PROVE Owns(m, j, t)
    <2>0. k.slot[j] \in Slot /\ LandsIn(k, f, m, j)
      BY ConnTyped DEF Lands
    <2>q. QED  BY <1>2, <2>0 DEF LandsIn, Owns
  <1>3. m.closed = k.closed
    BY <1>1 DEF But, Fields
  <1>4. \A t \in Requests : Lives(k, t) => Lives(m, t)
    BY <1>2, <1>3 DEF Lives
  <1>5. NoneListed(k) => NoneListed(m)
    BY <1>1 DEF But, Fields, NoneListed
  <1>6. Looped(k, m)
    BY <1>1, <1>3, <1>4 DEF But, Fields, Looped
  <1>q. QED  BY <1>1, <1>3, <1>5, <1>6

\* A frame that lands keeps the slots Served.
LEMMA LoopLand ==
  ASSUME NEW k \in Conns, NEW dg \in Seq(Frames), NEW j \in DOMAIN dg, Served(k, dg, 0),
         NEW m, Lands(k, dg[j], m)
  PROVE  Served(m, dg, 0)
  <1> DEFINE f == dg[j]
  <1>0. /\ f \in Frames /\ f[1] \in Requests
        /\ f[2] \in {"head", "tail"} => f[1] \in Named(dg, {"head", "tail"})
        /\ f[2] = "head" => f[1] \in Named(dg, {"head"})
    <2>1. dg[j] \in Frames
      OBVIOUS
    <2>q. QED  BY <2>1 DEF Frames, Named
  <1> HIDE DEF f
  <1>1. m \in Conns /\ Looped(k, m)
    BY <1>0, LandLoops DEF f
  <1>2. \A s \in Requests : Asked(m, s)
    BY <1>1, LoopedAsked DEF Served
  <1>3. \A i \in ReqSlots : k.slot[i] \in Slot /\ LandsIn(k, f, m, i) /\ m.slot[i] \in Slot
    BY <1>1, ConnTyped DEF Lands, f
  <1>4. Holding(m)
    <2>1. ASSUME NEW i \in ReqSlots, m.held[i] # Nil
          PROVE  Owns(m, i, m.held[i]) /\ m.slot[i].req = m.held[i] /\ Waiting(m, m.held[i])
      <3>1. m.held = k.held /\ m.held[i] \in Requests
        BY <1>1, <2>1, ConnTyped DEF Looped, Request
      <3>2. Owns(k, i, m.held[i]) /\ k.slot[i].req = m.held[i] /\ Waiting(k, m.held[i])
        BY <2>1, <3>1 DEF Served, Holding
      <3>3. Waiting(m, m.held[i])
        BY <1>1, <3>1, <3>2, LoopedAsked
      <3>4. Owns(m, i, m.held[i]) /\ m.slot[i].req = m.held[i]
        BY <1>3, <3>2 DEF LandsIn, Owns
      <3>q. QED  BY <3>3, <3>4
    <2>q. QED  BY <2>1 DEF Holding
  <1>5. ASSUME NEW i \in ReqSlots
        PROVE  /\ m.slot[i].use =>
                    /\ m.slot[i].id < m.next
                    /\ kind[m.slot[i].id] \in {"connect", "wtbad"} /\ "head" \in m.slot[i].got =>
                         m.slot[i].done \/ Pending(m, dg, 0, i)
               /\ i \in m.touched => m.slot[i].use /\ m.slot[i].id \in Named(dg, {"head", "tail"})
    <2>0. /\ i > 0 /\ LandsIn(k, f, m, i) /\ k.slot[i] \in Slot /\ k.slot[i].id \in Nat
          /\ k.next \in Nat /\ m.next \in Nat /\ k.next <= m.next
      <3>1. i > 0
        BY ReqAssumption DEF ReqSlots
      <3>2. k.slot[i].id \in Nat
        BY ConnTyped, ReqAssumption
      <3>3. k.next \in Nat /\ m.next \in Nat /\ k.next <= m.next
        BY <1>1, ConnTyped DEF Looped
      <3>q. QED  BY <1>3, <3>1, <3>2, <3>3
    <2>1. /\ k.slot[i].use =>
               /\ k.slot[i].id < k.next
               /\ kind[k.slot[i].id] \in {"connect", "wtbad"} /\ "head" \in k.slot[i].got =>
                    k.slot[i].done \/ Pending(k, dg, 0, i)
          /\ i \in k.touched => k.slot[i].use /\ k.slot[i].id \in Named(dg, {"head", "tail"})
      BY <2>0 DEF Served
    <2>2. CASE m.slot[i] = k.slot[i] /\ (i \in m.touched <=> i \in k.touched)
      BY <2>0, <2>1, <2>2 DEF Pending
    <2>3. CASE /\ i \in m.touched /\ f[2] \in {"head", "tail"} /\ m.slot[i].use /\ m.slot[i].id = f[1]
               /\ Owns(k, i, f[1]) /\ m.slot[i] = [k.slot[i] EXCEPT !.got = @ \cup {f[2]}]
      <3>1. /\ m.slot[i].done = k.slot[i].done /\ k.slot[i].use /\ k.slot[i].id = f[1]
            /\ m.slot[i].got = k.slot[i].got \cup {f[2]}
        BY <2>0, <2>3 DEF Slot, Owns
      <3>2. f[1] < m.next
        BY <2>0, <2>1, <3>1
      <3>3. "head" \in m.slot[i].got => "head" \in k.slot[i].got \/ f[2] = "head"
        BY <3>1
      <3>4. f[2] = "head" => Pending(m, dg, 0, i)
        BY <1>0, <2>0, <2>3 DEF Pending
      <3>5. Pending(k, dg, 0, i) => Pending(m, dg, 0, i)
        BY <2>3, <3>1 DEF Pending
      <3>q. QED  BY <1>0, <2>1, <2>3, <3>1, <3>2, <3>3, <3>4, <3>5
    <2>4. CASE /\ i \in m.touched /\ f[2] \in {"head", "tail"} /\ m.slot[i].use /\ m.slot[i].id = f[1]
               /\ m.slot[i].got = {f[2]} /\ f[1] < m.next
      BY <1>0, <2>0, <2>4 DEF Pending
    <2>q. QED  BY <2>0, <2>2, <2>3, <2>4 DEF LandsIn
  <1>6. m.touched \subseteq ReqSlots
    BY <1>1 DEF Conns, Conn
  <1>q. QED  BY <1>2, <1>4, <1>5, <1>6 DEF Served

\* The loop over the frames.
LEMMA LoopLands ==
  ASSUME NEW k \in Conns, NEW dg \in Seq(Frames), Served(k, dg, 0), NoneListed(k)
  PROVE  LET m == FoldLeft(route_land, k, dg) IN
         /\ m \in Conns /\ Served(m, dg, 0) /\ NoneListed(m)
         /\ Looped(k, m) /\ m.closed = k.closed
  <1> DEFINE V == {y \in Conns : /\ Served(y, dg, 0) /\ NoneListed(y)
                                 /\ Looped(k, y) /\ y.closed = k.closed}
             U == [j \in Nat |-> V]
  <1>1. Looped(k, k)
    BY ConnTyped DEF Looped
  <1>2. ASSUME NEW j \in 1 .. Len(dg), NEW y \in Conns, y \in V
        PROVE  route_land(y, dg[j]) \in V
    <2> DEFINE m == route_land(y, dg[j])
    <2>1. j \in DOMAIN dg /\ dg[j] \in Frames
      OBVIOUS
    <2>2. Lands(y, dg[j], m)
      BY <2>1, LandIs
    <2>3. Served(y, dg, 0) /\ NoneListed(y) /\ Looped(k, y) /\ y.closed = k.closed
      BY <1>2
    <2> HIDE DEF m, V
    <2>4. m \in Conns /\ Looped(y, m) /\ m.closed = y.closed /\ NoneListed(m)
      BY <2>1, <2>2, <2>3, LandLoops
    <2>5. Served(m, dg, 0)
      BY <2>1, <2>2, <2>3, LoopLand
    <2>6. Looped(k, m)
      BY <2>3, <2>4, LoopedTwice
    <2>7. m \in V
      BY <2>3, <2>4, <2>5, <2>6 DEF V
    <2>q. QED  BY <2>7 DEF m
  <1>3. k \in V /\ \A m \in V : /\ m \in Conns /\ Served(m, dg, 0) /\ NoneListed(m)
                                /\ Looped(k, m) /\ m.closed = k.closed
    BY <1>1
  <1> HIDE DEF V
  <1>4. k \in U[0] /\ U[Len(dg)] = V
    BY <1>3
  <1>5. \A j \in 1 .. Len(dg) : \A y \in Conns : y \in U[j - 1] => route_land(y, dg[j]) \in U[j]
    BY <1>2
  <1> HIDE DEF U
  <1>6. FoldLeft(route_land, k, dg) \in V
    BY <1>4, <1>5, LandFold
  <1>q. QED  BY <1>3, <1>6

\* A stream closed while it has no answer to come, or one that cannot go out: its
\* credit is to come.
LEMMA LoopCloses ==
  ASSUME NEW k \in Conns, NEW s \in Requests, NEW m \in Conns, Looped(k, m), Asked(k, s),
         s \notin k.closed, m.closed = k.closed \cup {s}, s \notin k.sess,
         k.resp[s] # Nil => s \in k.sendDone,
         NEW p, NEW r, NEW n, n = 1, AddUp(p, n, r), Balance(k, p)
  PROVE  Balance(m, r)
  <1>1. /\ m.sess = k.sess /\ m.goaway = k.goaway /\ m.sendDone = k.sendDone /\ m.resp = k.resp
        /\ m.ans = k.ans /\ m.zero = k.zero /\ m.busy = k.busy /\ m.unpaid = k.unpaid
        /\ m.early = k.early /\ m.limit = k.limit
    BY DEF Looped
  <1>2. Others(k, s, m)
    BY <1>1 DEF Others, Unmoved
  <1>3. Pays(k, s, m, n)
    <2>1. /\ s \notin k.unpaid /\ s \notin k.early /\ s \notin Over(k) /\ s \notin Doubles(k)
          /\ s \in m.closed /\ (k.resp[s] # Nil => s \in k.busy)
      BY DEF Asked, Over, Doubles
    <2>2. CASE k.resp[s] = Nil
      <3>1. s \in Over(m)
        BY <1>1, <2>1, <2>2 DEF Over
      <3>q. QED  BY <2>1, <3>1 DEF Pays
    <2>3. CASE k.resp[s] # Nil
      <3>1. s \notin Over(m) /\ s \in Doubles(m)
        BY <1>1, <2>1, <2>3 DEF Over, Doubles
      <3>q. QED  BY <2>1, <3>1 DEF Pays
    <2>q. QED  BY <2>2, <2>3
  <1>4. n \in Nat /\ p \in Nat /\ r \in Nat /\ m.limit + r = k.limit + p + n
    <2>1. n \in Nat /\ p \in Nat /\ r \in Nat /\ r = p + n
      BY DEF AddUp
    <2>2. k.limit \in Nat /\ m.limit = k.limit
      BY <1>1, ConnTyped
    <2>q. QED  BY <2>1, <2>2
  <1>q. QED  BY <1>2, <1>3, <1>4, Adds

\* Nothing is closed, so the balance stays.
LEMMA LoopedBalance ==
  ASSUME NEW k \in Conns, NEW m \in Conns, Looped(k, m), m.closed = k.closed, NEW p
  PROVE  Balance(k, p) => Balance(m, p)
  <1>1. /\ m.resp = k.resp /\ m.busy = k.busy /\ m.unpaid = k.unpaid
        /\ m.early = k.early /\ m.limit = k.limit
    BY DEF Looped
  <1>2. Over(m) = Over(k) /\ Doubles(m) = Doubles(k)
    BY <1>1 DEF Over, Doubles
  <1>q. QED  BY <1>1, <1>2 DEF Balance

\* srvloop_route_complete_slot.
LEMMA CompleteLoops ==
  ASSUME NEW k \in Conns, NEW i \in ReqSlots, NEW m, Completes(k, i, m)
  PROVE  /\ m \in Conns /\ Looped(k, m) /\ m.slotless = k.slotless /\ m.next = k.next
         /\ m.touched = k.touched
  <1>1. /\ m \in Conns
        /\ But(k, m, {"slot", "qp", "ends", "began", "closed", "owed", "rs", "done", "inc"})
        /\ \A j \in ReqSlots \ {i} : m.slot[j] = k.slot[j]
        /\ Waits(k, i, m) \/ Ready(k, i, m) \/ Broken(k, i, m) \/ Refused(k, i, m)
    BY DEF Completes
  <1>2. m.slotless = k.slotless /\ m.next = k.next /\ m.touched = k.touched
    BY <1>1 DEF But, Fields
  <1>3. /\ k.closed \subseteq m.closed
        /\ \/ m.slot[i].use = k.slot[i].use /\ m.slot[i].id = k.slot[i].id
           \/ k.slot[i].id \in m.closed
    BY <1>1 DEF Waits, Ready, Broken, Refused
  <1>4. \A t \in Requests : Lives(k, t) => Lives(m, t)
    BY <1>1, <1>3 DEF Lives, Owns
  <1>5. k.next <= m.next
    BY <1>2, ConnTyped
  <1>6. Looped(k, m)
    BY <1>1, <1>3, <1>4, <1>5 DEF Looped, But, Fields
  <1>q. QED  BY <1>1, <1>2, <1>6

\* The slots other than i serve the same requests, and of slot i what is asked is the same.
LEMMA ServedLater ==
  ASSUME NEW k \in Conns, NEW dg, NEW a \in Nat, NEW i \in ReqSlots, i = a + 1,
         Served(k, dg, a), NEW m \in Conns, Looped(k, m), m.next = k.next, m.touched = k.touched,
         \A j \in ReqSlots \ {i} : m.slot[j] = k.slot[j],
         \/ /\ m.slot[i].use = k.slot[i].use /\ m.slot[i].id = k.slot[i].id
            /\ kind[k.slot[i].id] \in {"connect", "wtbad"} =>
                 m.slot[i].req \in {k.slot[i].req, k.slot[i].id}
            /\ kind[m.slot[i].id] \in {"connect", "wtbad"} /\ "head" \in m.slot[i].got =>
                 m.slot[i].done
         \/ ~ m.slot[i].use /\ k.slot[i].id \in k.sendDone
  PROVE  Served(m, dg, i)
  <1>0. a \in Nat /\ i \in Nat /\ \A j \in ReqSlots : j \in Nat
    BY ReqAssumption DEF ReqSlots
  <1>1. \A s \in Requests : Asked(m, s)
    BY LoopedAsked DEF Served
  <1>2. Holding(m)
    <2>1. ASSUME NEW j \in ReqSlots, m.held[j] # Nil
          PROVE  Owns(m, j, m.held[j]) /\ m.slot[j].req = m.held[j] /\ Waiting(m, m.held[j])
      <3>1. m.held = k.held /\ m.held[j] \in Requests
        BY <2>1, ConnTyped DEF Looped, Request
      <3>2. Owns(k, j, m.held[j]) /\ k.slot[j].req = m.held[j] /\ Waiting(k, m.held[j])
        BY <2>1, <3>1 DEF Served, Holding
      <3>3. Waiting(m, m.held[j])
        BY <3>1, <3>2, LoopedAsked
      <3>4. j = i => ~ (~ m.slot[i].use /\ k.slot[i].id \in k.sendDone)
        BY <3>2 DEF Owns, Waiting
      <3>5. kind[k.slot[j].id] \in {"connect", "wtbad"}
        BY <3>2 DEF Owns, Waiting
      <3>6. Owns(m, j, m.held[j]) /\ m.slot[j].req = m.held[j]
        BY <3>2, <3>4, <3>5 DEF Owns
      <3>q. QED  BY <3>3, <3>6
    <2>q. QED  BY <2>1 DEF Holding
  <1>3. ASSUME NEW j \in ReqSlots
        PROVE  /\ m.slot[j].use =>
                    /\ m.slot[j].id < m.next
                    /\ kind[m.slot[j].id] \in {"connect", "wtbad"} /\ "head" \in m.slot[j].got =>
                         m.slot[j].done \/ Pending(m, dg, i, j)
               /\ j \in m.touched /\ j > i =>
                    m.slot[j].use /\ m.slot[j].id \in Named(dg, {"head", "tail"})
    <2>1. /\ k.slot[j].use =>
               /\ k.slot[j].id < k.next
               /\ kind[k.slot[j].id] \in {"connect", "wtbad"} /\ "head" \in k.slot[j].got =>
                    k.slot[j].done \/ Pending(k, dg, a, j)
          /\ j \in k.touched /\ j > a =>
               k.slot[j].use /\ k.slot[j].id \in Named(dg, {"head", "tail"})
      BY DEF Served
    <2>2. CASE j = i
      BY <1>0, <2>1, <2>2
    <2>3. CASE j # i
      <3>0. (j > i => j > a) /\ (j > a => j > i)
        BY <1>0, <2>3, SMT
      <3>1. m.slot[j] = k.slot[j] /\ (j > i => j > a) /\ (j > a => j > i)
        BY <2>3, <3>0
      <3>2. Pending(k, dg, a, j) => Pending(m, dg, i, j)
        BY <3>1 DEF Pending
      <3>q. QED  BY <2>1, <3>1, <3>2
    <2>q. QED  BY <2>2, <2>3
  <1>4. m.touched \subseteq ReqSlots
    BY DEF Conns, Conn
  <1>q. QED  BY <1>1, <1>2, <1>3, <1>4 DEF Served

\* The lists with one slot more.
LEMMA ListedLater ==
  ASSUME NEW k \in Conns, NEW dg, NEW a \in Nat, NEW i \in ReqSlots, i = a + 1,
         Listed(k, dg, a), NEW m \in Conns, \A j \in ReqSlots \ {i} : m.slot[j] = k.slot[j],
         \/ m.done = k.done /\ m.inc = k.inc
         \/ /\ m.done = Append(k.done, i) /\ m.inc = k.inc
            /\ Answerable(m, dg, i) /\ m.slot[i].done
         \/ /\ m.done = k.done /\ m.inc = Append(k.inc, i)
            /\ Abortable(m, dg, i) /\ m.slot[i].done
  PROVE  Listed(m, dg, i)
  <1>0. k.done \in Seq(ReqSlots) /\ k.inc \in Seq(ReqSlots) /\ \A j \in ReqSlots : j \in Nat
    <2>1. \A j \in ReqSlots : j \in Nat
      BY ReqAssumption DEF ReqSlots
    <2>q. QED  BY <2>1, ConnTyped
  <1>1. /\ Len(k.done) \in Nat /\ Len(k.inc) \in Nat
        /\ \A j \in 1 .. Len(k.done) : k.done[j] \in ReqSlots
        /\ \A j \in 1 .. Len(k.inc) : k.inc[j] \in ReqSlots
    BY <1>0
  <1>2. /\ \A j \in 1 .. Len(k.done) : k.done[j] # i /\ k.done[j] <= i
        /\ \A j \in 1 .. Len(k.inc) : k.inc[j] # i /\ k.inc[j] <= i
    <2>1. ASSUME NEW j \in ReqSlots, j <= a  PROVE j # i /\ j <= i
      BY <1>0, <2>1
    <2>2. /\ \A j \in 1 .. Len(k.done) : k.done[j] \in ReqSlots /\ k.done[j] <= a
          /\ \A j \in 1 .. Len(k.inc) : k.inc[j] \in ReqSlots /\ k.inc[j] <= a
      BY <1>1 DEF Listed
    <2>q. QED  BY <2>1, <2>2
  <1>3. /\ \A j \in 1 .. Len(k.done) : Answerable(m, dg, k.done[j]) /\ m.slot[k.done[j]].done
        /\ \A j \in 1 .. Len(k.inc) : Abortable(m, dg, k.inc[j]) /\ m.slot[k.inc[j]].done
    <2>1. ASSUME NEW h \in ReqSlots, h # i
          PROVE  /\ Answerable(k, dg, h) => Answerable(m, dg, h)
                 /\ Abortable(k, dg, h) => Abortable(m, dg, h)
                 /\ k.slot[h].done => m.slot[h].done
      BY <2>1 DEF Answerable, Abortable
    <2>q. QED  BY <1>1, <1>2, <2>1 DEF Listed
  <1>4. /\ \A j, h \in 1 .. Len(k.done) : k.done[j] = k.done[h] => j = h
        /\ \A j, h \in 1 .. Len(k.inc) : k.inc[j] = k.inc[h] => j = h
    BY DEF Listed
  <1>5. ASSUME NEW q, NEW r, q \in Seq(ReqSlots), r = Append(q, i)
        PROVE  /\ Len(r) = Len(q) + 1 /\ r[Len(q) + 1] = i
               /\ \A j \in 1 .. Len(q) : r[j] = q[j]
               /\ \A j \in 1 .. Len(r) : j \in 1 .. Len(q) \/ j = Len(q) + 1
               /\ Len(q) \in Nat
    BY <1>5
  <1>6. i <= i
    BY <1>0
  <1>7. ASSUME m.done = k.done, m.inc = k.inc  PROVE Listed(m, dg, i)
    BY <1>2, <1>3, <1>4, <1>7 DEF Listed
  <1>8. ASSUME m.done = Append(k.done, i), m.inc = k.inc, Answerable(m, dg, i), m.slot[i].done
        PROVE  Listed(m, dg, i)
    <2> DEFINE q == k.done
               r == m.done
    <2>1. /\ \A j \in 1 .. Len(q) : q[j] # i /\ q[j] <= i /\ Answerable(m, dg, q[j]) /\ m.slot[q[j]].done
          /\ \A j, h \in 1 .. Len(q) : q[j] = q[h] => j = h
      BY <1>2, <1>3, <1>4
    <2>2. /\ r[Len(q) + 1] = i /\ (\A j \in 1 .. Len(q) : r[j] = q[j])
          /\ \A j \in 1 .. Len(r) : j \in 1 .. Len(q) \/ j = Len(q) + 1
      BY <1>0, <1>5, <1>8
    <2> HIDE DEF q, r
    <2>3. \A j \in 1 .. Len(r) : r[j] <= i /\ Answerable(m, dg, r[j]) /\ m.slot[r[j]].done
      BY <1>6, <1>8, <2>1, <2>2
    <2>4. \A j, h \in 1 .. Len(r) : r[j] = r[h] => j = h
      BY <2>1, <2>2
    <2>q. QED  BY <1>2, <1>3, <1>4, <1>8, <2>3, <2>4 DEF Listed, r
  <1>9. ASSUME m.done = k.done, m.inc = Append(k.inc, i), Abortable(m, dg, i), m.slot[i].done
        PROVE  Listed(m, dg, i)
    <2> DEFINE q == k.inc
               r == m.inc
    <2>1. /\ \A j \in 1 .. Len(q) : q[j] # i /\ q[j] <= i /\ Abortable(m, dg, q[j]) /\ m.slot[q[j]].done
          /\ \A j, h \in 1 .. Len(q) : q[j] = q[h] => j = h
      BY <1>2, <1>3, <1>4
    <2>2. /\ r[Len(q) + 1] = i /\ (\A j \in 1 .. Len(q) : r[j] = q[j])
          /\ \A j \in 1 .. Len(r) : j \in 1 .. Len(q) \/ j = Len(q) + 1
      BY <1>0, <1>5, <1>9
    <2> HIDE DEF q, r
    <2>3. \A j \in 1 .. Len(r) : r[j] <= i /\ Abortable(m, dg, r[j]) /\ m.slot[r[j]].done
      BY <1>6, <1>9, <2>1, <2>2
    <2>4. \A j, h \in 1 .. Len(r) : r[j] = r[h] => j = h
      BY <2>1, <2>2
    <2>q. QED  BY <1>2, <1>3, <1>4, <1>9, <2>3, <2>4 DEF Listed, r
  <1>q. QED  BY <1>7, <1>8, <1>9

\* While the touched slots complete: those up to a are done.
Completing(x, dg, a) ==
  /\ Served(x, dg, a) /\ Listed(x, dg, a) /\ x.rs = {} /\ x.slotless = 0
  /\ Balance(x, x.owed)

\* The next slot completes or waits.
LEMMA LoopComplete ==
  ASSUME NEW k \in Conns, NEW dg, NEW a \in Nat, NEW i \in ReqSlots, i = a + 1,
         Completing(k, dg, a)
  PROVE  LET m == route_complete_touched(k, i) IN
         m \in Conns /\ Looped(k, m) /\ Completing(m, dg, i)
  <1> DEFINE m == route_complete_touched(k, i)
             s == k.slot[i].id
  <1>0. /\ Served(k, dg, a) /\ Listed(k, dg, a) /\ k.rs = {} /\ k.slotless = 0
        /\ Balance(k, k.owed)
    BY DEF Completing
  <1>1. i > a
    OBVIOUS
  <1>2. CASE i \notin k.touched
    <2>1. m = k
      BY <1>2 DEF route_complete_touched
    <2>2. Looped(k, k)
      BY ConnTyped DEF Looped
    <2>3. k.slot[i].use /\ kind[k.slot[i].id] \in {"connect", "wtbad"} /\ "head" \in k.slot[i].got
            => k.slot[i].done
      BY <1>0, <1>2 DEF Served, Pending
    <2>4. ~ k.slot[i].use => k.slot[i].got = {}
      BY DEF Conns, Told
    <2>5. /\ k.slot[i].use = k.slot[i].use /\ k.slot[i].id = k.slot[i].id
          /\ k.slot[i].req \in {k.slot[i].req, k.slot[i].id}
          /\ kind[k.slot[i].id] \in {"connect", "wtbad"} /\ "head" \in k.slot[i].got =>
               k.slot[i].done
      BY <2>3, <2>4
    <2>6. Served(k, dg, i)
      BY <1>0, <2>2, <2>5, ServedLater
    <2>7. Listed(k, dg, i)
      BY <1>0, ListedLater
    <2> HIDE DEF m
    <2>8. m \in Conns /\ Looped(k, m) /\ Completing(m, dg, i)
      BY <1>0, <2>1, <2>2, <2>6, <2>7 DEF Completing
    <2>q. QED  BY <2>8 DEF m
  <1>3. CASE i \in k.touched
    <2>1. Completes(k, i, m)
      BY <1>3, CompleteIs DEF route_complete_touched
    <2> HIDE DEF m
    <2>2. m \in Conns /\ Looped(k, m) /\ m.slotless = 0 /\ m.next = k.next /\ m.touched = k.touched
      BY <1>0, <2>1, CompleteLoops
    <2>3. /\ \A j \in ReqSlots \ {i} : m.slot[j] = k.slot[j]
          /\ Waits(k, i, m) \/ Ready(k, i, m) \/ Broken(k, i, m) \/ Refused(k, i, m)
      BY <2>1 DEF Completes
    <2>4. k.slot[i].use /\ s \in Named(dg, {"head", "tail"}) /\ s \in Requests /\ Asked(k, s)
      BY <1>0, <1>1, <1>3, ConnTyped DEF Served
    <2>5. kind[s] \in {"connect", "wtbad"} /\ "head" \in k.slot[i].got =>
            k.slot[i].done \/ s \in Named(dg, {"head"})
      BY <1>0, <2>4 DEF Served, Pending
    <2>6. ASSUME m.closed = k.closed, m.owed = k.owed  PROVE Balance(m, m.owed)
      BY <1>0, <2>2, <2>6, LoopedBalance
    <2>7. ASSUME Waits(k, i, m)  PROVE Completing(m, dg, i)
      <3>1. /\ m.slot[i].use = k.slot[i].use /\ m.slot[i].id = k.slot[i].id
            /\ m.slot[i].req \in {k.slot[i].req, k.slot[i].id}
            /\ kind[m.slot[i].id] \in {"connect", "wtbad"} /\ "head" \in m.slot[i].got =>
                 m.slot[i].done
        BY <2>7 DEF Waits
      <3>2. Served(m, dg, i)
        BY <1>0, <2>2, <2>3, <3>1, ServedLater
      <3>3. m.done = k.done /\ m.inc = k.inc /\ m.rs = k.rs /\ m.closed = k.closed /\ m.owed = k.owed
        BY <2>7 DEF Waits
      <3>4. Listed(m, dg, i)
        BY <1>0, <2>2, <2>3, <3>3, ListedLater
      <3>q. QED  BY <1>0, <2>2, <2>6, <3>2, <3>3, <3>4 DEF Completing
    <2>8. ASSUME Ready(k, i, m)  PROVE Completing(m, dg, i)
      <3>1. /\ m.slot[i].use = k.slot[i].use /\ m.slot[i].id = k.slot[i].id
            /\ m.slot[i].req \in {k.slot[i].req, k.slot[i].id} /\ m.slot[i].done
        BY <2>4, <2>8, ConnTyped DEF Ready, Slot
      <3>2. Served(m, dg, i)
        BY <1>0, <2>2, <2>3, <3>1, ServedLater
      <3>3. /\ m.done = Append(k.done, i) /\ m.inc = k.inc /\ m.rs = {} /\ m.closed = k.closed
            /\ m.owed = k.owed
        BY <1>0, <2>8 DEF Ready
      <3>4. Answerable(m, dg, i)
        BY <2>4, <2>5, <2>8 DEF Ready, Answerable
      <3>5. Listed(m, dg, i)
        BY <1>0, <2>2, <2>3, <3>1, <3>3, <3>4, ListedLater
      <3>q. QED  BY <1>0, <2>2, <2>6, <3>2, <3>3, <3>5 DEF Completing
    <2>9. ASSUME Broken(k, i, m)  PROVE Completing(m, dg, i)
      <3>1. /\ m.slot[i].use = k.slot[i].use /\ m.slot[i].id = k.slot[i].id
            /\ kind[k.slot[i].id] \notin {"connect", "wtbad"} /\ m.slot[i].done
        BY <2>4, <2>9, ConnTyped DEF Broken, Slot
      <3>2. Served(m, dg, i)
        BY <1>0, <2>2, <2>3, <3>1, ServedLater
      <3>3. /\ m.inc = Append(k.inc, i) /\ m.done = k.done /\ m.rs = {} /\ m.closed = k.closed
            /\ m.owed = k.owed
        BY <1>0, <2>9 DEF Broken
      <3>4. Abortable(m, dg, i)
        BY <2>4, <2>9 DEF Broken, Abortable
      <3>5. Listed(m, dg, i)
        BY <1>0, <2>2, <2>3, <3>1, <3>3, <3>4, ListedLater
      <3>q. QED  BY <1>0, <2>2, <2>6, <3>2, <3>3, <3>5 DEF Completing
    <2>10. ASSUME Refused(k, i, m)  PROVE Completing(m, dg, i)
      <3>1. ~ m.slot[i].use /\ s \in k.sendDone /\ k.slot[i].id \in k.sendDone
        BY <2>10, ConnTyped, EmptiedTyped DEF Refused
      <3>2. Served(m, dg, i)
        BY <1>0, <2>2, <2>3, <3>1, ServedLater
      <3>3. /\ m.inc = k.inc /\ m.done = k.done /\ m.rs = {} /\ m.closed = k.closed \cup {s}
            /\ m.owed = k.owed + 1
        BY <1>0, <2>10 DEF Refused
      <3>4. Listed(m, dg, i)
        BY <1>0, <2>2, <2>3, <3>3, ListedLater
      <3>5. s \notin k.sess /\ s \notin k.closed
        BY <2>4, <3>1 DEF Asked, Conns, Told, SlotTold
      <3>6. Balance(m, m.owed)
        <4> DEFINE n == 1
        <4>1. AddUp(k.owed, n, m.owed) /\ Balance(k, k.owed)
          BY <1>0, <3>3, ConnTyped DEF AddUp
        <4>2. n = 1
          OBVIOUS
        <4> HIDE DEF n, s
        <4>q. QED  BY <2>2, <2>4, <3>1, <3>3, <3>5, <4>1, <4>2, LoopCloses
      <3>q. QED  BY <2>2, <3>2, <3>3, <3>4, <3>6 DEF Completing
    <2>11. m \in Conns /\ Looped(k, m) /\ Completing(m, dg, i)
      BY <2>2, <2>3, <2>7, <2>8, <2>9, <2>10
    <2>q. QED  BY <2>11 DEF m
  <1>q. QED  BY <1>2, <1>3

\* The loop over the slots with new bytes.
LEMMA LoopCompletes ==
  ASSUME NEW k \in Conns, NEW dg, Completing(k, dg, 0)
  PROVE  LET m == FoldLeft(route_complete_touched, k, SlotsInOrder) IN
         m \in Conns /\ Looped(k, m) /\ Completing(m, dg, Cap)
  <1> DEFINE q == SlotsInOrder
             V(j) == {y \in Conns : Looped(k, y) /\ Completing(y, dg, j)}
             U == [j \in Nat |-> V(j)]
  <1>0. q \in Seq(ReqSlots) /\ Cap \in Nat
    BY InOrder, ReqAssumption
  <1>1. Len(q) = Cap /\ \A j \in 1 .. Cap : j \in Nat /\ j - 1 \in Nat /\ q[j] = j /\ j \in ReqSlots
    BY <1>0 DEF SlotsInOrder, ReqSlots
  <1> HIDE DEF q
  <1>2. ASSUME NEW j \in 1 .. Cap, NEW y \in Conns, y \in V(j - 1)
        PROVE  route_complete_touched(y, j) \in V(j)
    <2> DEFINE m == route_complete_touched(y, j)
               a == j - 1
    <2>1. Looped(k, y) /\ Completing(y, dg, a) /\ j \in ReqSlots /\ a \in Nat /\ j = a + 1
      BY <1>0, <1>1, <1>2
    <2> HIDE DEF a
    <2>2. m \in Conns /\ Looped(y, m) /\ Completing(m, dg, j)
      BY <2>1, LoopComplete
    <2> HIDE DEF m
    <2>3. Looped(k, m)
      BY <2>1, <2>2, LoopedTwice
    <2>4. m \in V(j)
      BY <2>2, <2>3
    <2>q. QED  BY <2>4 DEF m
  <1>3. k \in V(0) /\ \A m \in V(Cap) : m \in Conns /\ Looped(k, m) /\ Completing(m, dg, Cap)
    BY ConnTyped DEF Looped
  <1> HIDE DEF V
  <1>4. k \in U[0] /\ U[Len(q)] = V(Cap)
    BY <1>0, <1>1, <1>3
  <1>5. \A j \in 1 .. Len(q) : \A y \in Conns : y \in U[j - 1] => route_complete_touched(y, q[j]) \in U[j]
    BY <1>1, <1>2
  <1> HIDE DEF U
  <1>6. FoldLeft(route_complete_touched, k, q) \in V(Cap)
    BY <1>0, <1>4, <1>5, CompleteFold
  <1>q. QED  BY <1>3, <1>6 DEF q

\* reset_request_streams.
Noted(x, dg) == \A i \in x.rs : /\ x.slot[i].use /\ x.slot[i].id \in Named(dg, {"reset"})
                                /\ ~ x.slot[i].done
\* While the resets are noted.
Resetting(x, dg) ==
  /\ (\A s \in Requests : Asked(x, s)) /\ Taken(x) /\ Holding(x)
  /\ Listed(x, dg, Cap) /\ Noted(x, dg)
  /\ Balance(x, x.slotless + x.owed)

\* One reset.
LEMMA LoopReset ==
  ASSUME NEW k \in Conns, NEW dg, NEW s \in Requests, s \in Named(dg, {"reset"}),
         Resetting(k, dg)
  PROVE  LET m == reset_request_stream(k, s) IN
         m \in Conns /\ Looped(k, m) /\ Resetting(m, dg)
  <1> DEFINE m == reset_request_stream(k, s)
  <1>1. Resets(k, s, m)
    BY ResetIs
  <1> HIDE DEF m
  <1>2. /\ m \in Conns /\ But(k, m, {"slot", "qp", "ends", "closed", "rs", "slotless"})
        /\ \A j \in ReqSlots : SameSlot(k, m, j)
    BY <1>1 DEF Resets
  <1>3. /\ m.next = k.next /\ m.done = k.done /\ m.inc = k.inc /\ m.owed = k.owed /\ m.held = k.held
    BY <1>2 DEF But, Fields
  <1>4. k.closed \subseteq m.closed
    BY <1>1 DEF Resets
  <1>5. \A j \in ReqSlots : \A t : Owns(m, j, t) <=> Owns(k, j, t)
    BY <1>2 DEF SameSlot, Owns
  <1>6. Looped(k, m)
    <2>1. \A t \in Requests : Lives(k, t) => Lives(m, t)
      BY <1>4, <1>5 DEF Lives
    <2>2. k.next <= m.next
      BY <1>3, ConnTyped
    <2>q. QED  BY <1>2, <1>4, <2>1, <2>2 DEF Looped, But, Fields
  <1>7. \A t \in Requests : Asked(m, t)
    BY <1>2, <1>6, LoopedAsked DEF Resetting
  <1>8. Taken(m)
    BY <1>2, <1>3 DEF Resetting, Taken, SameSlot
  <1>9. Holding(m)
    <2>1. ASSUME NEW j \in ReqSlots, m.held[j] # Nil
          PROVE  Owns(m, j, m.held[j]) /\ m.slot[j].req = m.held[j] /\ Waiting(m, m.held[j])
      <3>1. m.held[j] \in Requests
        BY <1>2, <2>1, ConnTyped DEF Request
      <3>2. Owns(k, j, m.held[j]) /\ k.slot[j].req = m.held[j] /\ Waiting(k, m.held[j])
        BY <1>3, <2>1 DEF Resetting, Holding
      <3>3. Waiting(m, m.held[j])
        BY <1>2, <1>6, <3>1, <3>2, LoopedAsked
      <3>4. Owns(m, j, m.held[j]) /\ m.slot[j].req = m.held[j]
        BY <1>2, <3>2 DEF SameSlot, Owns
      <3>q. QED  BY <3>3, <3>4
    <2>q. QED  BY <2>1 DEF Holding
  <1>10. Listed(m, dg, Cap)
    <2>1. /\ \A j \in 1 .. Len(k.done) : k.done[j] \in ReqSlots
          /\ \A j \in 1 .. Len(k.inc) : k.inc[j] \in ReqSlots
      BY ConnTyped
    <2>2. \A i \in ReqSlots : /\ Answerable(k, dg, i) => Answerable(m, dg, i)
                              /\ Abortable(k, dg, i) => Abortable(m, dg, i)
                              /\ k.slot[i].done => m.slot[i].done
      BY <1>2 DEF SameSlot, Answerable, Abortable
    <2>q. QED  BY <1>3, <2>1, <2>2 DEF Resetting, Listed
  <1>11. Noted(m, dg)
    <2>1. \A i \in k.rs : i \in ReqSlots
      BY ConnTyped
    <2>2. \A i \in m.rs : i \in k.rs \/ (i \in ReqSlots /\ Owns(k, i, s) /\ ~ k.slot[i].done)
      BY <1>1 DEF Resets
    <2>q. QED  BY <1>2, <2>1, <2>2 DEF Noted, Resetting, SameSlot, Owns
  <1>12. Balance(m, m.slotless + m.owed)
    <2>1. CASE m.closed = k.closed /\ m.slotless = k.slotless
      BY <1>2, <1>3, <1>6, <2>1, LoopedBalance DEF Resetting
    <2>2. CASE /\ (\A j \in ReqSlots : ~ Owns(k, j, s)) /\ s \notin k.closed
               /\ m.closed = k.closed \cup {s} /\ m.slotless = k.slotless + 1
      <3> DEFINE n == 1
                 p == k.slotless + k.owed
                 r == m.slotless + m.owed
      <3>1. ~ Lives(k, s) /\ Asked(k, s)
        BY <2>2 DEF Lives, Resetting
      <3>2. s \notin k.sess /\ k.resp[s] = Nil
        BY <3>1 DEF Asked
      <3>3. AddUp(p, n, r) /\ n = 1 /\ Balance(k, p)
        <4>1. k.slotless \in Nat /\ k.owed \in Nat
          BY ConnTyped
        <4>q. QED  BY <1>3, <2>2, <4>1 DEF AddUp, Resetting
      <3> HIDE DEF n, p, r
      <3>4. Balance(m, r)
        BY <1>2, <1>6, <2>2, <3>1, <3>2, <3>3, LoopCloses
      <3>q. QED  BY <3>4 DEF r
    <2>q. QED  BY <1>1, <2>1, <2>2 DEF Resets
  <1>13. m \in Conns /\ Looped(k, m) /\ Resetting(m, dg)
    BY <1>2, <1>6, <1>7, <1>8, <1>9, <1>10, <1>11, <1>12 DEF Resetting
  <1>q. QED  BY <1>13 DEF m

\* The loop over the resets.
LEMMA LoopResets ==
  ASSUME NEW k \in Conns, NEW dg \in Seq(Frames), Resetting(k, dg)
  PROVE  LET m == FoldLeft(reset_frame, k, dg) IN
         m \in Conns /\ Looped(k, m) /\ Resetting(m, dg)
  <1> DEFINE V == {y \in Conns : Looped(k, y) /\ Resetting(y, dg)}
             U == [j \in Nat |-> V]
  <1>1. Looped(k, k)
    BY ConnTyped DEF Looped
  <1>2. ASSUME NEW j \in 1 .. Len(dg), NEW y \in Conns, y \in V
        PROVE  reset_frame(y, dg[j]) \in V
    <2> DEFINE s == dg[j][1]
    <2>1. dg[j] \in Frames /\ j \in DOMAIN dg
      OBVIOUS
    <2>2. s \in Requests
      BY <2>1 DEF Frames
    <2>3. CASE dg[j][2] = "reset"
      <3> DEFINE m == reset_request_stream(y, s)
      <3>1. s \in Named(dg, {"reset"}) /\ Looped(k, y) /\ Resetting(y, dg)
        BY <1>2, <2>1, <2>3 DEF Named
      <3>2. m \in Conns /\ Looped(y, m) /\ Resetting(m, dg)
        BY <2>2, <3>1, LoopReset
      <3>3. reset_frame(y, dg[j]) = m
        BY <2>3 DEF reset_frame
      <3> HIDE DEF m
      <3>4. Looped(k, m)
        BY <3>1, <3>2, LoopedTwice
      <3>q. QED  BY <3>2, <3>3, <3>4
    <2>4. CASE dg[j][2] # "reset"
      BY <1>2, <2>4 DEF reset_frame
    <2>q. QED  BY <2>3, <2>4
  <1>3. k \in V /\ \A m \in V : m \in Conns /\ Looped(k, m) /\ Resetting(m, dg)
    BY <1>1
  <1> HIDE DEF V
  <1>4. k \in U[0] /\ U[Len(dg)] = V
    BY <1>3
  <1>5. \A j \in 1 .. Len(dg) : \A y \in Conns : y \in U[j - 1] => reset_frame(y, dg[j]) \in U[j]
    BY <1>2
  <1> HIDE DEF U
  <1>6. FoldLeft(reset_frame, k, dg) \in V
    BY <1>4, <1>5, ResetFold
  <1>q. QED  BY <1>3, <1>6

\* srvloop_rearm.
LEMMA LoopRearm ==
  ASSUME NEW k \in Conns, NEW dg, Resetting(k, dg), NEW m, Rearms(k, m)
  PROVE  m \in Conns /\ Looped(k, m) /\ Good(m, dg, 0, 0, m.slotless + m.owed)
  <1>1. /\ m \in Conns /\ But(k, m, {"slot"})
        /\ \A j \in ReqSlots : /\ m.slot[j].use = k.slot[j].use /\ m.slot[j].id = k.slot[j].id
                               /\ m.slot[j].req = k.slot[j].req
                               /\ \/ m.slot[j].got = k.slot[j].got /\ m.slot[j].done = k.slot[j].done
                                  \/ m.slot[j].got = {} /\ ~ m.slot[j].done
    BY DEF Rearms
  <1>2. /\ m.next = k.next /\ m.done = k.done /\ m.inc = k.inc /\ m.owed = k.owed /\ m.held = k.held
        /\ m.closed = k.closed /\ m.rs = k.rs /\ m.slotless = k.slotless
    BY <1>1 DEF But, Fields
  <1>3. Looped(k, m)
    <2>1. \A t \in Requests : Lives(k, t) => Lives(m, t)
      BY <1>1, <1>2 DEF Lives, Owns
    <2>2. k.next <= m.next
      BY <1>2, ConnTyped
    <2>q. QED  BY <1>1, <1>2, <2>1, <2>2 DEF Looped, But, Fields
  <1>4. \A t \in Requests : Asked(m, t)
    BY <1>1, <1>3, LoopedAsked DEF Resetting
  <1>5. Taken(m)
    BY <1>1, <1>2 DEF Resetting, Taken
  <1>6. Holding(m)
    <2>1. ASSUME NEW j \in ReqSlots, m.held[j] # Nil
          PROVE  Owns(m, j, m.held[j]) /\ m.slot[j].req = m.held[j] /\ Waiting(m, m.held[j])
      <3>1. m.held[j] \in Requests
        BY <1>1, <2>1, ConnTyped DEF Request
      <3>2. Owns(k, j, m.held[j]) /\ k.slot[j].req = m.held[j] /\ Waiting(k, m.held[j])
        BY <1>2, <2>1 DEF Resetting, Holding
      <3>3. Waiting(m, m.held[j])
        BY <1>1, <1>3, <3>1, <3>2, LoopedAsked
      <3>4. Owns(m, j, m.held[j]) /\ m.slot[j].req = m.held[j]
        BY <1>1, <3>2 DEF Owns
      <3>q. QED  BY <3>3, <3>4
    <2>q. QED  BY <2>1 DEF Holding
  <1>7. Lists(m, dg, 0, 0)
    <2>1. /\ \A j \in 1 .. Len(k.done) : k.done[j] \in ReqSlots
          /\ \A j \in 1 .. Len(k.inc) : k.inc[j] \in ReqSlots
          /\ \A i \in k.rs : i \in ReqSlots
      BY ConnTyped
    <2>2. \A i \in ReqSlots : /\ Answerable(k, dg, i) => Answerable(m, dg, i)
                              /\ Abortable(k, dg, i) => Abortable(m, dg, i)
                              /\ m.slot[i].id = k.slot[i].id
      BY <1>1 DEF Answerable, Abortable
    <2>3. /\ \A j \in 1 .. Len(k.done) : Answerable(m, dg, k.done[j]) /\ k.done[j] \notin k.rs
          /\ \A j \in 1 .. Len(k.inc) : Abortable(m, dg, k.inc[j]) /\ k.inc[j] \notin k.rs
      BY <2>1, <2>2 DEF Resetting, Listed, Noted
    <2>4. /\ \A j, h \in 1 .. Len(k.done) : k.done[j] = k.done[h] => j = h
          /\ \A j, h \in 1 .. Len(k.inc) : k.inc[j] = k.inc[h] => j = h
      BY DEF Resetting, Listed
    <2>5. \A i \in k.rs : m.slot[i].id \in Named(dg, {"reset"})
      BY <2>1, <2>2 DEF Resetting, Noted
    <2>q. QED  BY <1>2, <2>3, <2>4, <2>5 DEF Lists
  <1>8. Balance(m, m.slotless + m.owed)
    BY <1>1, <1>2, <1>3, LoopedBalance DEF Resetting
  <1>q. QED  BY <1>1, <1>3, <1>4, <1>5, <1>6, <1>7, <1>8 DEF Good, Core

\* wired_srvloop_step from rest: sound lists, and the credits that are to come.
Resting(k) ==
  /\ (\A s \in Requests : Asked(k, s)) /\ Taken(k) /\ Holding(k)
  /\ Balance(k, 0)

\* wired_srvloop_step leaves lists that are Good, and the credits it owes to come.
LEMMA LoopGood ==
  ASSUME NEW k \in Conns, NEW dg \in Seq(Frames), Resting(k)
  PROVE  LET m == wired_srvloop_step(k, dg) IN
         m \in Conns /\ Looped(k, m) /\ Good(m, dg, 0, 0, m.slotless + m.owed)
  <1> DEFINE a == srvloop_step_reset(k)
             l == FoldLeft(route_land, a, dg)
             d == FoldLeft(route_complete_touched, l, SlotsInOrder)
             r == FoldLeft(reset_frame, d, dg)
             m == srvloop_rearm(r)
  <1>0. wired_srvloop_step(k, dg) = m /\ Cap \in Nat /\ \A i \in ReqSlots : i \in 1 .. Cap
    BY ReqAssumption DEF wired_srvloop_step, ReqSlots
  <1>1. Clears(k, a)
    BY StepResetIs
  <1> HIDE DEF a
  <1>2. /\ a \in Conns /\ NoneListed(a) /\ a.closed = k.closed /\ a.touched = {} /\ a.slot = k.slot
        /\ a.next = k.next /\ a.held = k.held
    BY <1>1 DEF Clears, NoneListed, But, Fields
  <1>3. Looped(k, a)
    <2>1. \A t \in Requests : Lives(k, t) => Lives(a, t)
      BY <1>2 DEF Lives, Owns
    <2>2. k.next <= a.next
      BY <1>2, ConnTyped
    <2>q. QED  BY <1>1, <1>2, <2>1, <2>2 DEF Clears, Looped, But, Fields
  <1>4. Served(a, dg, 0)
    <2>1. \A s \in Requests : Asked(a, s) /\ (Waiting(k, s) => Waiting(a, s))
      BY <1>2, <1>3, LoopedAsked DEF Resting
    <2>2. \A i \in ReqSlots : k.held[i] \in Requests \cup {Nil}
      BY ConnTyped DEF Request
    <2>3. Holding(a)
      BY <1>2, <2>1, <2>2 DEF Resting, Holding, Owns
    <2>q. QED  BY <1>2, <2>1, <2>3 DEF Served, Resting, Taken
  <1>5. /\ l \in Conns /\ Served(l, dg, 0) /\ NoneListed(l)
        /\ Looped(a, l) /\ l.closed = a.closed
    BY <1>2, <1>4, LoopLands
  <1> HIDE DEF l
  <1>6. Completing(l, dg, 0)
    <2>1. Balance(a, 0)
      BY <1>2, <1>3, LoopedBalance DEF Resting
    <2>2. Balance(l, 0)
      BY <1>2, <1>5, <2>1, LoopedBalance
    <2>3. l.done = <<>> /\ l.inc = <<>> /\ l.rs = {} /\ l.slotless = 0 /\ l.owed = 0
      BY <1>5 DEF NoneListed
    <2>4. Listed(l, dg, 0)
      BY <2>3 DEF Listed
    <2>q. QED  BY <1>5, <2>2, <2>3, <2>4 DEF Completing
  <1>7. d \in Conns /\ Looped(l, d) /\ Completing(d, dg, Cap)
    BY <1>5, <1>6, LoopCompletes
  <1> HIDE DEF d
  <1>8. Resetting(d, dg)
    <2>1. /\ Served(d, dg, Cap) /\ Listed(d, dg, Cap) /\ d.rs = {} /\ d.slotless = 0
          /\ Balance(d, d.owed)
      BY <1>7 DEF Completing
    <2>2. \A i \in ReqSlots : ~ Pending(d, dg, Cap, i)
      BY <1>0 DEF Pending
    <2>3. Taken(d)
      BY <2>1, <2>2 DEF Served, Taken
    <2>4. d.slotless + d.owed = d.owed
      BY <1>7, <2>1, ConnTyped
    <2>q. QED  BY <2>1, <2>3, <2>4 DEF Served, Resetting, Noted
  <1>9. r \in Conns /\ Looped(d, r) /\ Resetting(r, dg)
    BY <1>7, <1>8, LoopResets
  <1> HIDE DEF r
  <1>10. m \in Conns /\ Looped(r, m) /\ Good(m, dg, 0, 0, m.slotless + m.owed)
    BY <1>9, RearmIs, LoopRearm
  <1> HIDE DEF m
  <1>11. Looped(k, m)
    <2>1. Looped(k, l)
      BY <1>2, <1>3, <1>5, LoopedTwice
    <2>2. Looped(k, d)
      BY <1>5, <1>7, <2>1, LoopedTwice
    <2>3. Looped(k, r)
      BY <1>7, <1>9, <2>2, LoopedTwice
    <2>q. QED  BY <1>9, <1>10, <2>3, LoopedTwice
  <1>q. QED  BY <1>0, <1>10, <1>11

-----------------------------------------------------------------------------
\* Between the calls.
Rest(k) == Resting(k) /\ (k.settings => NoneHeld(k))

\* What Resting is about.
Matters == {"slot", "closed", "sess", "held", "sendDone", "resp", "ans", "zero", "busy", "unpaid",
            "early", "limit", "next", "goaway"}

\* Resting is about the fields of Matters only.
LEMMA RestingSame ==
  ASSUME NEW k \in Conns, NEW m \in Conns, \A f \in Matters : m[f] = k[f], Resting(k)
  PROVE  Resting(m)
  <1>1. /\ m.slot = k.slot /\ m.closed = k.closed /\ m.sess = k.sess /\ m.held = k.held
        /\ m.sendDone = k.sendDone /\ m.resp = k.resp /\ m.ans = k.ans /\ m.zero = k.zero
        /\ m.busy = k.busy /\ m.unpaid = k.unpaid /\ m.early = k.early /\ m.limit = k.limit
        /\ m.next = k.next /\ m.goaway = k.goaway
    BY DEF Matters
  <1>2. \A t : (Past(m, t) <=> Past(k, t)) /\ (Lives(m, t) <=> Lives(k, t))
    BY <1>1 DEF Past, Lives, Owns
  <1>3. \A t \in Requests : Asked(m, t)
    BY <1>1, <1>2 DEF Resting, Asked
  <1>4. Taken(m) /\ Holding(m)
    BY <1>1, <1>2 DEF Resting, Taken, Holding, Waiting, Owns
  <1>5. Balance(m, 0)
    <2>1. Over(m) = Over(k) /\ Doubles(m) = Doubles(k)
      BY <1>1 DEF Over, Doubles
    <2>q. QED  BY <1>1, <2>1 DEF Resting, Balance
  <1>q. QED  BY <1>3, <1>4, <1>5 DEF Resting

\* srvloop_step_reset leaves all that matters.
LEMMA RestCleared ==
  ASSUME NEW m \in Conns, Rest(m)
  PROVE  Rest(srvloop_step_reset(m)) /\ NoneListed(srvloop_step_reset(m))
  <1> DEFINE n == srvloop_step_reset(m)
  <1>1. Clears(m, n)
    BY StepResetIs
  <1> HIDE DEF n
  <1>2. n \in Conns /\ (\A f \in Matters : n[f] = m[f]) /\ n.settings = m.settings /\ n.held = m.held
    BY <1>1 DEF Clears, But, Fields, Matters
  <1>3. Resting(n)
    BY <1>2, RestingSame DEF Rest
  <1>4. Rest(n) /\ NoneListed(n)
    BY <1>1, <1>2, <1>3 DEF Rest, NoneHeld, Clears, NoneListed
  <1>q. QED  BY <1>4 DEF n

\* Input that leaves no freed slot on a list.
LEMMA NoStale ==
  ASSUME c \in Conns, NEW dg \in Seq(Frames), NEW acked \in Request, ~ LeavesStaleSlot(dg, acked)
  PROVE  /\ acked \notin Named(dg, {"head", "tail"})
         /\ \A s \in Named(dg, {"stop"}) : s \notin Named(dg, {"head", "tail"})
         /\ \A s \in Named(dg, {"head"}) \cap Named(dg, {"tail", "reset"}) :
              s \notin c.sess /\ \A i \in ReqSlots : c.held[i] # s
         /\ \A s \in Named(dg, {"stop"}) : \A i \in ReqSlots : c.held[i] # s
  <1>1. \A i \in ReqSlots : c.held[i] \in Range(c.held)
    BY ConnTyped DEF Range
  <1>q. QED  BY <1>1 DEF LeavesStaleSlot

\* One datagram.
LEMMA StepRests ==
  ASSUME c \in Conns, Rest(c), NEW dg \in Seq(Frames), NEW acked \in Request,
         NEW b \in BOOLEAN, b => dg = <<>>, ~ LeavesStaleSlot(dg, acked)
  PROVE  LET k == [c EXCEPT !.settings = @ \/ b]
             m == srvrun_sess_on_step(srvrun_live_streams(wired_srvloop_step(k, dg), dg), acked)
         IN m \in Conns /\ Rest(m)
  <1> DEFINE v == c.settings \/ b
             k == [c EXCEPT !.settings = c.settings \/ b]
             w == wired_srvloop_step(k, dg)
             l == srvrun_live_streams(w, dg)
             m == srvrun_sess_on_step(l, acked)
  <1>0. c.settings \in BOOLEAN /\ 0 \in Nat
    BY ConnTyped
  <1>1. k \in Conns /\ Resting(k) /\ k.settings = (c.settings \/ b) /\ k.sess = c.sess /\ k.held = c.held
    <2>0. v \in BOOLEAN /\ k = SetSettings(c, v)
      BY <1>0 DEF SetSettings
    <2> HIDE DEF v, k
    <2>1. Kept(c, k, {"settings"}) /\ k.settings = v
      BY <2>0, SetSettingsIs
    <2>2. k \in Conns /\ (\A f \in Matters : k[f] = c[f]) /\ k.sess = c.sess /\ k.held = c.held
      BY <2>1 DEF Kept, But, Fields, Matters
    <2>3. Resting(k)
      BY <2>2, RestingSame DEF Rest
    <2>q. QED  BY <2>1, <2>2, <2>3 DEF v
  <1> HIDE DEF k
  <1>2. w \in Conns /\ Looped(k, w) /\ Good(w, dg, 0, 0, w.slotless + w.owed)
    BY <1>1, LoopGood
  <1> HIDE DEF w
  <1>3. w.sess = c.sess /\ w.held = c.held /\ w.settings = (c.settings \/ b)
    BY <1>1, <1>2 DEF Looped
  <1>4. Clear(w, dg)
    <2>1. ASSUME w.settings  PROVE w.done = <<>> \/ \A i \in ReqSlots : w.held[i] = Nil
      <3>1. CASE c.settings
        BY <1>3, <3>1 DEF Rest, NoneHeld
      <3>2. CASE b
        <4>1. Named(dg, {"head", "tail"}) = {}
          BY <3>2 DEF Named
        <4>2. w.done \in Seq(ReqSlots) /\ \A j \in 1 .. Len(w.done) : j > 0 => Answerable(w, dg, w.done[j])
          BY <1>2, ConnTyped DEF Good, Core, Lists
        <4>3. \A j \in 1 .. Len(w.done) : FALSE
          BY <4>1, <4>2 DEF Answerable
        <4>4. Len(w.done) = 0
          BY <4>2, <4>3
        <4>q. QED  BY <4>2, <4>4
      <3>q. QED  BY <1>3, <2>1, <3>1, <3>2
    <2>q. QED  BY <1>3, <2>1, NoStale DEF Clear
  <1>5. /\ l \in Conns /\ Good(l, dg, 0, 0, 0) /\ Clear(l, dg)
        /\ \A f \in Stages : l[f] = w[f]
    BY <1>2, <1>4, LiveGood
  <1> HIDE DEF l
  <1>6. Stepping(l, l, dg, 0, 0)
    BY <1>5 DEF Stepping, Clear
  <1>7. /\ m \in Conns /\ Stepping(m, l, dg, Len(l.done), Len(l.inc))
        /\ l.settings => NoneHeld(m)
    BY <1>5, <1>6, NoStale, SessGood
  <1> HIDE DEF m
  <1>8. Resting(m) /\ m.settings = l.settings
    BY <1>7 DEF Stepping, Good, Core, Resting, Stages
  <1>9. m \in Conns /\ Rest(m)
    BY <1>7, <1>8 DEF Rest
  <1>q. QED  BY <1>9 DEF m, l, w, k

\* srvrun_send_goaway: every stream taken up is below the limit it announces.
LEMMA GoAwayRests ==
  ASSUME NEW k \in Conns, Rest(k), NoneListed(k)
  PROVE  LET m == SetGoaway(k, k.next) IN m \in Conns /\ Rest(m) /\ NoneListed(m)
  <1> DEFINE m == SetGoaway(k, k.next)
  <1>0. k.next \in Nat
    BY ConnTyped
  <1>1. Kept(k, m, {"goaway"}) /\ m.goaway = k.next
    BY <1>0, SetGoawayIs
  <1> HIDE DEF m
  <1>2. /\ m.slot = k.slot /\ m.closed = k.closed /\ m.sess = k.sess /\ m.held = k.held
        /\ m.sendDone = k.sendDone /\ m.resp = k.resp /\ m.ans = k.ans /\ m.zero = k.zero
        /\ m.busy = k.busy /\ m.unpaid = k.unpaid /\ m.early = k.early /\ m.limit = k.limit
        /\ m.next = k.next /\ m.settings = k.settings
    BY <1>1 DEF Kept, But, Fields
  <1>3. m \in Conns /\ NoneListed(m)
    BY <1>1 DEF Kept, But, Fields, NoneListed
  <1>4. \A t \in Requests : (t < k.next => ~ Past(m, t)) /\ (Lives(m, t) <=> Lives(k, t))
    BY <1>0, <1>1, <1>2, ReqAssumption DEF Past, Lives, Owns
  <1>5. \A t \in Requests : Asked(m, t)
    BY <1>2, <1>4 DEF Rest, Resting, Asked
  <1>6. Taken(m)
    BY <1>2 DEF Rest, Resting, Taken
  <1>7. Holding(m)
    <2>1. ASSUME NEW i \in ReqSlots, m.held[i] # Nil
          PROVE  Owns(m, i, m.held[i]) /\ m.slot[i].req = m.held[i] /\ Waiting(m, m.held[i])
      <3>1. Owns(k, i, m.held[i]) /\ k.slot[i].req = m.held[i] /\ Waiting(k, m.held[i])
        BY <1>2, <2>1 DEF Rest, Resting, Holding
      <3>2. m.held[i] < k.next /\ m.held[i] \in Requests
        BY <3>1, ConnTyped DEF Rest, Resting, Taken, Owns
      <3>q. QED  BY <1>2, <1>4, <3>1, <3>2 DEF Owns, Waiting
    <2>q. QED  BY <2>1 DEF Holding
  <1>8. Balance(m, 0)
    <2>1. Over(m) = Over(k) /\ Doubles(m) = Doubles(k)
      BY <1>2 DEF Over, Doubles
    <2>q. QED  BY <1>2, <2>1 DEF Rest, Resting, Balance
  <1>9. m \in Conns /\ Rest(m) /\ NoneListed(m)
    BY <1>2, <1>3, <1>5, <1>6, <1>7, <1>8 DEF Rest, Resting, NoneHeld
  <1>q. QED  BY <1>9 DEF m

\* srvrun_drain_wt_close_one.
LEMMA CloseRests ==
  ASSUME NEW k \in Conns, Rest(k), NoneListed(k), NEW s \in Requests, s \in k.sess
  PROVE  LET m == close_wt_session_slot(k, s) IN m \in Conns /\ Rest(m)
  <1> DEFINE m == close_wt_session_slot(k, s)
             z == 0
             n == 0
             dg == <<>>
  <1>1. Closes(k, s, m) /\ Asked(k, s) /\ z \in Nat /\ n \in Nat /\ z <= z
    BY CloseIs DEF Rest, Resting
  <1>2. k.done = <<>> /\ k.inc = <<>> /\ k.rs = {}
    BY DEF NoneListed
  <1>3. Good(k, dg, z, z, z)
    <2>1. Lists(k, dg, 0, 0)
      BY <1>2 DEF Lists
    <2>q. QED  BY <2>1 DEF Good, Core, Rest, Resting
  <1>4. /\ Touches(k, s, m) /\ Asked(m, s) /\ Freed(k, s, m) /\ m.held = k.held
        /\ Pays(k, s, m, 0) /\ m.limit = k.limit
    BY <1>1, ClosesAsked
  <1> HIDE DEF m
  <1>5. Pays(k, s, m, n) /\ m.limit = k.limit + n /\ NotListed(k, s, z, z)
    BY <1>2, <1>4, ConnTyped DEF NotListed
  <1> HIDE DEF z, n, dg
  <1>6. Unheld(k, m, s)
    <2>1. \A i \in ReqSlots : k.held[i] # s
      BY <1>3, HeldWaits DEF Good, Waiting
    <2>q. QED  BY <1>4, <2>1 DEF Unheld
  <1>7. Good(m, dg, z, z, z) /\ m \in Conns /\ m.settings = k.settings
    <2>1. m \in Conns /\ m.settings = k.settings
      BY <1>4 DEF Touches, Stages
    <2>q. QED  BY <1>1, <1>3, <1>4, <1>5, <1>6, <2>1, GoodFreed
  <1>8. m \in Conns /\ Rest(m)
    BY <1>4, <1>7 DEF Good, Core, Rest, Resting, NoneHeld, z
  <1>q. QED  BY <1>8 DEF m

\* wired_srvloop_init.
LEMMA NewRests ==
  ASSUME NEW b \in BOOLEAN
  PROVE  Rest(NewConn(b)) /\ NoneListed(NewConn(b))
  <1> DEFINE k == NewConn(b)
  <1>1. /\ \A i \in ReqSlots : ~ k.slot[i].use /\ k.held[i] = Nil
        /\ \A s \in Requests : k.ans[s] = <<>> /\ k.resp[s] = Nil
        /\ k.sess = {} /\ k.zero = {} /\ k.unpaid = {} /\ k.early = {} /\ k.closed = {} /\ k.busy = {}
        /\ k.limit = Base /\ NoneListed(k)
    BY DEF NewConn, FreeSlot, NoneListed
  <1> HIDE DEF k
  <1>2. Over(k) = {} /\ Doubles(k) = {} /\ Base \in Nat /\ Cardinality({}) = 0
    BY <1>1, ReqAssumption, FS_EmptySet DEF Over, Doubles
  <1>3. Balance(k, 0)
    BY <1>1, <1>2 DEF Balance
  <1>4. Taken(k) /\ Holding(k) /\ NoneHeld(k) /\ \A s \in Requests : Asked(k, s)
    BY <1>1 DEF Taken, Holding, NoneHeld, Asked
  <1>5. Rest(k) /\ NoneListed(k)
    BY <1>1, <1>3, <1>4 DEF Rest, Resting
  <1>q. QED  BY <1>5 DEF k

\* The inductive invariant of AnsweredOnce, NoFrameAfterReset and CreditBounded.
ReqRest == ~ StaleSlots /\ ReqInv /\ Rest(c) /\ NoneListed(c)

\* Rest is about the requests that the client means.
LEMMA RestStays ==
  ASSUME kind' = kind, Rest(c'), NoneListed(c')
  PROVE  (Rest(c) /\ NoneListed(c))'
  <1>1. \A t : (Past(c, t)' <=> Past(c', t)) /\ (Lives(c, t)' <=> Lives(c', t))
    BY DEF Past, Lives, Owns
  <1>2. \A t : (Asked(c', t) => Asked(c, t)') /\ (Waiting(c', t) => Waiting(c, t)')
    BY <1>1 DEF Asked, Waiting
  <1>3. (Taken(c') => Taken(c)') /\ (Holding(c') => Holding(c)')
    BY <1>2 DEF Taken, Holding, Owns
  <1>4. (Balance(c, 0))' <=> Balance(c', 0)
    BY DEF Balance, Over, Doubles
  <1>6. Resting(c') => Resting(c)'
    BY <1>2, <1>3, <1>4 DEF Resting
  <1>7. (NoneHeld(c') <=> NoneHeld(c)') /\ (NoneListed(c') <=> NoneListed(c)')
    BY DEF NoneHeld, NoneListed
  <1>q. QED  BY <1>6, <1>7 DEF Rest

\* ReqRest holds initially.
LEMMA ReqRestStarts == ReqInit /\ ~ StaleSlots => ReqRest
  <1> SUFFICES ASSUME ReqInit, ~ StaleSlots  PROVE ReqRest
    OBVIOUS
  <1>1. PICK x \in Cases : kind = x.kind /\ c = NewConn(x.streamed)
    BY DEF ReqInit
  <1>2. x.streamed \in BOOLEAN
    BY <1>1, ReqAssumption
  <1>3. Rest(c) /\ NoneListed(c)
    BY <1>1, <1>2, NewRests
  <1>q. QED  BY <1>3, ReqStarts DEF ReqRest

\* A datagram leaves the connection at rest.
LEMMA ReqStepRests ==
  ASSUME ReqRest, NEW dg \in Seq(Frames),
         NEW acked \in Request, NEW b \in BOOLEAN, b => dg = <<>>, ReqStep(dg, acked, b)
  PROVE  kind' = kind /\ Rest(c') /\ NoneListed(c')
  <1> DEFINE k == [c EXCEPT !.settings = @ \/ b]
             m == srvrun_sess_on_step(srvrun_live_streams(wired_srvloop_step(k, dg), dg), acked)
  <1>1. kind' = kind /\ Settle(m) /\ ~ LeavesStaleSlot(dg, acked)
    BY DEF ReqStep, ReqRest
  <1>2. m \in Conns /\ Rest(m)
    BY <1>1, StepRests DEF ReqRest, ReqInv
  <1> HIDE DEF m
  <1>3. c' = srvloop_step_reset(m)
    BY <1>1 DEF Settle
  <1>q. QED  BY <1>1, <1>2, <1>3, RestCleared

\* Every step keeps ReqRest.
LEMMA ReqRestKeeps == ReqRest /\ [ReqNext]_reqVars => ReqRest'
  <1> SUFFICES ASSUME ReqRest, [ReqNext]_reqVars  PROVE ReqRest'
    OBVIOUS
  <1>0. c \in Conns /\ ReqInv /\ Rest(c) /\ NoneListed(c)
    BY DEF ReqRest, ReqInv
  <1>1. ASSUME NEW dg \in Datagrams, NEW acked \in Request, ReqStep(dg, acked, FALSE)
        PROVE  kind' = kind /\ Rest(c') /\ NoneListed(c')
    <2> DEFINE b == FALSE
    <2>1. dg \in Seq(Frames) /\ b \in BOOLEAN /\ ReqStep(dg, acked, b) /\ (b => dg = <<>>)
      BY <1>1, ReqAssumption
    <2> HIDE DEF b
    <2>q. QED  BY <2>1, ReqStepRests
  <1>2. ASSUME ReqStep(<<>>, Nil, TRUE)  PROVE kind' = kind /\ Rest(c') /\ NoneListed(c')
    <2> DEFINE b == TRUE
               dg == <<>>
    <2>1. dg \in Seq(Frames) /\ b \in BOOLEAN /\ Nil \in Request /\ (b => dg = <<>>)
      BY DEF Request
    <2>2. ReqStep(dg, Nil, b)
      BY <1>2, Zenon
    <2> HIDE DEF b, dg
    <2>3. kind' = kind /\ Rest(c') /\ NoneListed(c')
      BY <2>1, <2>2, ReqStepRests
    <2>q. QED  BY <2>3
  <1>3. ASSUME GoAway  PROVE kind' = kind /\ Rest(c') /\ NoneListed(c')
    <2>1. c' = SetGoaway(c, c.next) /\ kind' = kind
      BY <1>3 DEF GoAway, SetGoaway
    <2>q. QED  BY <1>0, <2>1, GoAwayRests
  <1>4. ASSUME NEW s \in Requests, CloseSession(s)
        PROVE  kind' = kind /\ Rest(c') /\ NoneListed(c')
    <2> DEFINE m == close_wt_session_slot(c, s)
    <2>1. s \in c.sess /\ c' = srvloop_step_reset(m) /\ kind' = kind
      BY <1>4 DEF CloseSession, Settle
    <2>2. m \in Conns /\ Rest(m)
      BY <1>0, <2>1, CloseRests
    <2> HIDE DEF m
    <2>q. QED  BY <2>1, <2>2, RestCleared
  <1>5. ASSUME GrantRetry  PROVE kind' = kind /\ Rest(c') /\ NoneListed(c')
    <2>1. c' = SetRetries(c, c.retries - 1) /\ kind' = kind /\ c.retries - 1 \in Nat
      BY <1>0, <1>5, ConnTyped DEF GrantRetry, SetRetries
    <2>2. Kept(c, c', {"retries"})
      BY <1>0, <2>1, SetRetriesIs
    <2> DEFINE m == c'
    <2>3. /\ m \in Conns /\ (\A f \in Matters : m[f] = c[f]) /\ m.settings = c.settings
          /\ m.held = c.held /\ NoneListed(m)
      BY <1>0, <2>2 DEF Kept, But, Fields, Matters, NoneListed
    <2> HIDE DEF m
    <2>4. Resting(m)
      BY <1>0, <2>3, RestingSame DEF Rest
    <2>5. Rest(m)
      BY <1>0, <2>3, <2>4 DEF Rest, NoneHeld
    <2>q. QED  BY <2>1, <2>3, <2>5 DEF m
  <1>6. ASSUME Reannounce \/ Deliver \/ Lose \/ UNCHANGED reqVars
        PROVE  kind' = kind /\ Rest(c') /\ NoneListed(c')
    <2>1. c' = c /\ kind' = kind
      BY <1>6 DEF Reannounce, Deliver, Lose, reqVars
    <2>q. QED  BY <1>0, <2>1
  <1>7. kind' = kind /\ Rest(c') /\ NoneListed(c')
    BY <1>1, <1>2, <1>3, <1>4, <1>5, <1>6 DEF ReqNext
  <1>8. ReqInv'
    BY <1>0, ReqKeeps
  <1>q. QED  BY <1>7, <1>8, RestStays DEF ReqRest

\* AnsweredOnce: if no input leaves a freed slot on a list (the run req_stale shows what
\* happens then), srvrun_start_resp answers a request at most once and on its own stream,
\* however often it completes again, and however it is reset, stopped, held or refused.
THEOREM AnswersKept == ReqSpec /\ ~ StaleSlots => []AnsweredOnce
  <1>1. ReqRest => AnsweredOnce
    BY DEF ReqRest, Rest, Resting, Asked, AnsweredOnce
  <1>q. QED  BY <1>1, ReqRestKeeps, ReqRestStarts, PTL DEF ReqSpec

\* NoFrameAfterReset: for the same input, no stream with a response in flight has been
\* reset at final size 0, but for the 429 of srvrun_reject_wt_busy.
THEOREM NothingAfterReset == ReqSpec /\ ~ StaleSlots => []NoFrameAfterReset
  <1>1. ReqRest => NoFrameAfterReset
    BY DEF ReqRest, Rest, Resting, Asked, NoFrameAfterReset
  <1>q. QED  BY <1>1, ReqRestKeeps, ReqRestStarts, PTL DEF ReqSpec

\* CreditBounded: for the same input, whatever ends in one datagram, every path that ends
\* a stream gives its credit, and gives it once; only a CONNECT, refused with a 429 or paid
\* for when its 200 was acknowledged, may be paid for once more.
THEOREM CreditKept == ReqSpec /\ ~ StaleSlots => []CreditBounded
  <1>1. ReqRest => CreditBounded
    <2> SUFFICES ASSUME ReqRest  PROVE CreditBounded
      OBVIOUS
    <2> DEFINE x == c.busy \cup c.early
    <2>1. c \in Conns /\ Balance(c, 0)
      BY DEF ReqRest, ReqInv, Rest, Resting
    <2>2. c.limit \in Nat /\ Base \in Nat /\ IsFiniteSet(Requests)
      BY <2>1, ConnTyped, ReqAssumption
    <2>3. /\ Over(c) \in SUBSET Requests /\ x \in SUBSET Requests
          /\ Doubles(c) \in SUBSET x
      BY <2>1, ConnTyped DEF Over, Doubles
    <2> HIDE DEF x
    <2>4. /\ IsFiniteSet(Over(c)) /\ IsFiniteSet(x) /\ IsFiniteSet(Doubles(c))
          /\ Cardinality(Doubles(c)) <= Cardinality(x)
      BY <2>2, <2>3, FS_Subset
    <2>5. Cardinality(Over(c)) \in Nat /\ Cardinality(x) \in Nat /\ Cardinality(Doubles(c)) \in Nat
      BY <2>4, FS_CardinalityType
    <2>6. c.limit - Base - Cardinality(Over(c)) \in 0 .. Cardinality(x)
      BY <2>1, <2>2, <2>4, <2>5 DEF Balance
    <2>q. QED  BY <2>6 DEF CreditBounded, Over, x
  <1>q. QED  BY <1>1, ReqRestKeeps, ReqRestStarts, PTL DEF ReqSpec
====
