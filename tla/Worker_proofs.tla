----------------------------- MODULE Worker_proofs -----------------------------
(***************************************************************************)
(* Two parts of a worker, for every value of their constants.              *)
(*   The connection table (ConnTable), for every size of the table, of the *)
(*   ring and of the timeouts: sessions, table entries and queued          *)
(*   datagrams stay with the connection they belong to while slots are     *)
(*   freed, evicted and claimed again.                                     *)
(*   The boot (BootFlight), for every flight, Initial size and opening:    *)
(*   every path that sends before the client's address is validated stays  *)
(*   within three times the bytes received (RFC 9000 8.1).                 *)
(***************************************************************************)
EXTENDS ConnTable, BootFlight, ModLemmas, TLAPS

-----------------------------------------------------------------------------
\* The connection table.

Entry ==
  [live : BOOLEAN, who : 0 .. MaxClaims, odcid : Clients \cup {None}, gen : Nat, up : BOOLEAN,
   boot : BOOLEAN, conf : BOOLEAN, closing : BOOLEAN, until : Nat, last : Nat,
   since : Nat, sess : BOOLEAN]
Queued == [slot : TableSlots, gen : Nat, who : Claims]
Table ==
  [now : 1 .. MaxTime, done : BOOLEAN, down : BOOLEAN, slot : [TableSlots -> Entry],
   ring : [Cells -> {None} \cup Queued], n : 0 .. MaxClaims, opened : SUBSET Claims,
   told : [Claims -> Nat], wrong : SUBSET Cells]

\* One slot: a generation for every claim at most, times that have been; a session only
\* on a connection that is up and not closing, and a claim that had a session and is
\* not closing still has it.
SlotSound(v, s) ==
  /\ s.gen <= v.n /\ s.last <= v.now /\ s.since <= v.now
  /\ (s.up \/ s.boot) => s.live
  /\ s.live => s.who \in 1 .. v.n
  /\ s.sess => (s.up /\ ~ s.closing /\ s.who \in v.opened)
  /\ (s.live /\ ~ s.closing /\ ~ s.sess) => s.who \notin v.opened

\* Two slots in use: of two claims, and of two clients.
Apart(v) ==
  \A i, j \in TableSlots : (i # j /\ v.slot[i].live /\ v.slot[j].live) =>
    (v.slot[i].who # v.slot[j].who /\ v.slot[i].odcid # v.slot[j].odcid)

\* The history of the sessions.
Open(v, k) == \E i \in TableSlots : v.slot[i].who = k /\ v.slot[i].sess
ToldSound(v) ==
  /\ v.opened \subseteq 1 .. v.n
  /\ \A k \in Claims : v.told[k] = IF k \in v.opened /\ ~ Open(v, k) THEN 1 ELSE 0

\* A queued datagram names a generation its slot has had, and the claim that has the
\* slot if it is the present one.
CellSound(v, e) ==
  /\ e.gen <= v.slot[e.slot].gen
  /\ (e.gen = v.slot[e.slot].gen /\ v.slot[e.slot].live) => v.slot[e.slot].who = e.who
QueueSound(v) == \A c \in Cells : v.ring[c] # None => CellSound(v, v.ring[c])

Sound(v) ==
  /\ v \in Table
  /\ \A i \in TableSlots : SlotSound(v, v.slot[i])
  /\ Apart(v) /\ ToldSound(v) /\ QueueSound(v)
  /\ v.wrong = {}

\* A live entry is one that has come up or is booting, except I while a call serves it.
BusyBut(v, I) == \A i \in TableSlots \ I : v.slot[i].live => srvrun_slot_busy(v.slot[i])

TableInv ==
  /\ Sound(t) /\ BusyBut(t, {})
  /\ t.done => \A i \in TableSlots : ~ t.slot[i].sess

-----------------------------------------------------------------------------
\* Steps that end slots, and steps that leave every slot with its claim.

Closed(s, r) ==
  /\ r.gen = s.gen /\ ~ r.sess
  /\ \/ ~ r.live /\ ~ r.up /\ ~ r.boot /\ r.last = 0 /\ r.since = 0
     \/ /\ r.live = s.live /\ r.who = s.who /\ r.odcid = s.odcid /\ r.up = s.up
        /\ r.boot = s.boot /\ r.closing /\ r.last = s.last /\ r.since = s.since

Ended(v, w, I) ==
  /\ w \in Table
  /\ w.now = v.now /\ w.n = v.n /\ w.opened = v.opened /\ w.ring = v.ring
  /\ w.wrong = v.wrong
  /\ \A i \in TableSlots \ I : w.slot[i] = v.slot[i]
  /\ \A i \in I : Closed(v.slot[i], w.slot[i])
  /\ \A k \in Claims : w.told[k] = IF \E i \in I : v.slot[i].sess /\ v.slot[i].who = k
                                   THEN v.told[k] + 1 ELSE v.told[k]

\* Slots that are ended take nothing from the others; their sessions are told once, since
\* no other slot has the same claim.
LEMMA EndedSound ==
  ASSUME NEW v, Sound(v), NEW I \in SUBSET TableSlots, NEW w, Ended(v, w, I)
  PROVE  Sound(w)
  <1>1. v \in Table /\ w \in Table
    BY DEF Sound, Ended
  <1>2. /\ v.slot \in [TableSlots -> Entry] /\ w.slot \in [TableSlots -> Entry]
        /\ v.now \in Nat /\ v.n \in Nat /\ v.told \in [Claims -> Nat]
    BY <1>1, TableAssumption DEF Table
  <1>3. /\ w.now = v.now /\ w.n = v.n /\ w.opened = v.opened /\ w.ring = v.ring
        /\ w.wrong = {}
    BY DEF Ended, Sound
  <1>4. \A i \in TableSlots : w.slot[i] = v.slot[i] \/ Closed(v.slot[i], w.slot[i])
    BY DEF Ended
  <1>5. \A i \in TableSlots : SlotSound(v, v.slot[i])
    BY DEF Sound
  <1>6. ASSUME NEW i \in TableSlots
        PROVE  SlotSound(w, w.slot[i])
    <2>1. CASE w.slot[i] = v.slot[i]
      BY <1>3, <1>5, <2>1 DEF SlotSound
    <2>2. CASE Closed(v.slot[i], w.slot[i])
      <3>1. v.slot[i] \in Entry /\ w.slot[i] \in Entry
        BY <1>2
      <3>2. SlotSound(v, v.slot[i])
        BY <1>5
      <3>3. w.slot[i].gen <= w.n /\ w.slot[i].last <= w.now /\ w.slot[i].since <= w.now
        BY <1>2, <1>3, <2>2, <3>1, <3>2 DEF SlotSound, Closed, Entry
      <3>4. /\ (w.slot[i].up \/ w.slot[i].boot) => w.slot[i].live
            /\ w.slot[i].live => w.slot[i].who \in 1 .. w.n
            /\ ~ w.slot[i].sess /\ (w.slot[i].live => w.slot[i].closing)
        BY <1>3, <2>2, <3>2 DEF SlotSound, Closed
      <3>q. QED  BY <3>3, <3>4 DEF SlotSound
    <2>q. QED  BY <1>4, <2>1, <2>2
  <1>7. \A i \in TableSlots : w.slot[i].live =>
          (v.slot[i].live /\ w.slot[i].who = v.slot[i].who /\ w.slot[i].odcid = v.slot[i].odcid)
    BY <1>4 DEF Closed
  <1>8. Apart(w)
    BY <1>7 DEF Sound, Apart
  <1>9. \A i \in TableSlots : v.slot[i].sess => v.slot[i].live
    BY <1>5 DEF SlotSound
  <1>10. ASSUME NEW k \in Claims
         PROVE  w.told[k] = IF k \in w.opened /\ ~ Open(w, k) THEN 1 ELSE 0
    <2>1. v.told[k] = IF k \in v.opened /\ ~ Open(v, k) THEN 1 ELSE 0
      BY DEF Sound, ToldSound
    <2>2. CASE \E i \in I : v.slot[i].sess /\ v.slot[i].who = k
      <3>1. PICK i \in I : v.slot[i].sess /\ v.slot[i].who = k
        BY <2>2
      <3>2. Open(v, k) /\ k \in v.opened
        BY <1>5, <3>1 DEF Open, SlotSound
      <3>3. ~ Open(w, k)
        <4> SUFFICES ASSUME NEW j \in TableSlots, w.slot[j].who = k, w.slot[j].sess
                     PROVE  FALSE
          BY DEF Open
        <4>1. j \notin I
          BY DEF Ended, Closed
        <4>2. v.slot[j].who = k /\ v.slot[j].sess
          BY <4>1 DEF Ended
        <4>q. QED  BY <1>9, <3>1, <4>1, <4>2 DEF Sound, Apart
      <3>4. w.told[k] = v.told[k] + 1
        BY <2>2 DEF Ended
      <3>q. QED  BY <1>3, <2>1, <3>2, <3>3, <3>4
    <2>3. CASE ~ \E i \in I : v.slot[i].sess /\ v.slot[i].who = k
      <3>1. w.told[k] = v.told[k]
        BY <2>3 DEF Ended
      <3>2. Open(w, k) <=> Open(v, k)
        <4>1. \A j \in TableSlots : (v.slot[j].who = k /\ v.slot[j].sess) <=>
                                    (w.slot[j].who = k /\ w.slot[j].sess)
          BY <2>3 DEF Ended, Closed
        <4>q. QED  BY <4>1 DEF Open
      <3>q. QED  BY <1>3, <2>1, <3>1, <3>2
    <2>q. QED  BY <2>2, <2>3
  <1>11. ToldSound(w)
    BY <1>3, <1>10 DEF ToldSound, Sound
  <1>12. QueueSound(w)
    <2> SUFFICES ASSUME NEW c \in Cells, w.ring[c] # None
                 PROVE  CellSound(w, w.ring[c])
      BY DEF QueueSound
    <2>1. CellSound(v, v.ring[c]) /\ v.ring[c] = w.ring[c]
      BY <1>3 DEF Sound, QueueSound
    <2>2. w.ring[c].slot \in TableSlots
      BY <1>1 DEF Table, Queued
    <2>3. w.slot[w.ring[c].slot].gen = v.slot[w.ring[c].slot].gen
      BY <1>4, <2>2 DEF Closed
    <2>q. QED  BY <1>7, <2>1, <2>2, <2>3 DEF CellSound
  <1>q. QED  BY <1>1, <1>3, <1>6, <1>8, <1>11, <1>12 DEF Sound

LEMMA FreedIs ==
  ASSUME NEW s \in Entry
  PROVE  /\ Freed(s) \in Entry /\ Closed(s, Freed(s)) /\ Freed(s).gen = s.gen
         /\ ~ Freed(s).live /\ ~ Freed(s).up /\ ~ Freed(s).boot /\ ~ Freed(s).sess
  <1>1. 0 \in 0 .. MaxClaims
    BY TableAssumption
  <1>q. QED  BY <1>1 DEF Freed, FreeSlot, Entry, Closed

\* What every session hears.
LEMMA ToldIs ==
  ASSUME NEW v \in Table, NEW I \in SUBSET TableSlots
  PROVE  [k \in Claims |-> IF \E i \in I : v.slot[i].sess /\ v.slot[i].who = k
                           THEN v.told[k] + 1 ELSE v.told[k]] \in [Claims -> Nat]
  <1>1. v.told \in [Claims -> Nat]
    BY DEF Table
  <1>2. \A k \in Claims : v.told[k] \in Nat /\ v.told[k] + 1 \in Nat
    BY <1>1
  <1>q. QED  BY <1>2

LEMMA FreeSlotSound ==
  ASSUME NEW v, Sound(v), NEW I \in SUBSET TableSlots
  PROVE  LET w == srvrun_free_slot(v, I) IN
         /\ Sound(w)
         /\ w.now = v.now /\ w.n = v.n /\ w.down = v.down /\ w.done = v.done
         /\ w.opened = v.opened
         /\ \A i \in TableSlots \ I : w.slot[i] = v.slot[i]
         /\ \A i \in I : ~ w.slot[i].live /\ ~ w.slot[i].up /\ ~ w.slot[i].boot
                         /\ ~ w.slot[i].sess /\ w.slot[i].gen = v.slot[i].gen
  <1> DEFINE f    == [i \in TableSlots |-> IF i \in I THEN Freed(v.slot[i]) ELSE v.slot[i]]
             told == [k \in Claims |-> IF \E i \in I : v.slot[i].sess /\ v.slot[i].who = k
                                       THEN v.told[k] + 1 ELSE v.told[k]]
             w    == srvrun_free_slot(v, I)
  <1>1. v \in Table /\ v.slot \in [TableSlots -> Entry]
    BY DEF Sound, Table
  <1>2. f \in [TableSlots -> Entry]
    BY <1>1, FreedIs
  <1>3. told \in [Claims -> Nat]
    BY <1>1, ToldIs
  <1>4. /\ \A i \in I : Closed(v.slot[i], f[i]) /\ ~ f[i].live /\ ~ f[i].up /\ ~ f[i].boot
                        /\ ~ f[i].sess /\ f[i].gen = v.slot[i].gen
        /\ \A i \in TableSlots \ I : f[i] = v.slot[i]
    BY <1>1, FreedIs
  <1>5. \A k \in Claims : told[k] = IF \E i \in I : v.slot[i].sess /\ v.slot[i].who = k
                                    THEN v.told[k] + 1 ELSE v.told[k]
    BY Zenon
  <1> DEFINE z == [i \in TableSlots |-> IF i \in I THEN [v.slot[i] EXCEPT !.sess = FALSE]
                                       ELSE v.slot[i]]
  <1>6. w = [[v EXCEPT !.told = told, !.slot = z] EXCEPT !.slot = f]
    BY Zenon DEF srvrun_free_slot, srvrun_close_all_wt
  <1> HIDE DEF f, told, w, z
  <1>7. /\ w \in Table /\ w.slot = f /\ w.told = told
        /\ w.now = v.now /\ w.n = v.n /\ w.down = v.down /\ w.done = v.done
        /\ w.opened = v.opened /\ w.ring = v.ring /\ w.wrong = v.wrong
    BY <1>1, <1>2, <1>3, <1>6 DEF Table
  <1>8. Ended(v, w, I)
    BY <1>4, <1>5, <1>7 DEF Ended
  <1>9. Sound(w)
    BY <1>8, EndedSound
  <1>q. QED  BY <1>4, <1>7, <1>9 DEF w

LEMMA CloseSendSound ==
  ASSUME NEW v, Sound(v), NEW I \in SUBSET TableSlots
  PROVE  LET w == srvrun_close_send(v, I) IN
         /\ Sound(w)
         /\ w.now = v.now /\ w.n = v.n /\ w.down = v.down /\ w.done = v.done
         /\ \A i \in TableSlots \ I : w.slot[i] = v.slot[i]
         /\ \A i \in TableSlots : w.slot[i].live = v.slot[i].live /\ w.slot[i].up = v.slot[i].up
                                  /\ w.slot[i].boot = v.slot[i].boot
         /\ \A i \in I : ~ w.slot[i].sess
  <1> DEFINE J    == {i \in I : ~ v.slot[i].closing}
             g    == [i \in TableSlots |-> IF i \in J THEN [v.slot[i] EXCEPT !.sess = FALSE]
                                           ELSE v.slot[i]]
             f    == [i \in TableSlots |->
                        IF i \in J THEN [g[i] EXCEPT !.closing = TRUE, !.until = v.now + Closing]
                        ELSE g[i]]
             told == [k \in Claims |-> IF \E i \in J : v.slot[i].sess /\ v.slot[i].who = k
                                       THEN v.told[k] + 1 ELSE v.told[k]]
             u    == [v EXCEPT !.told = told, !.slot = g]
             w    == srvrun_close_send(v, I)
  <1>1. v \in Table /\ v.slot \in [TableSlots -> Entry] /\ v.now + Closing \in Nat
    BY TableAssumption DEF Sound, Table
  <1>2. J \in SUBSET TableSlots
    OBVIOUS
  <1>3. told \in [Claims -> Nat]
    BY <1>1, <1>2, ToldIs
  <1>4. \A k \in Claims : told[k] = IF \E i \in J : v.slot[i].sess /\ v.slot[i].who = k
                                    THEN v.told[k] + 1 ELSE v.told[k]
    BY Zenon
  <1>5. u.slot = g
    BY <1>1 DEF Table
  <1>6. w = [u EXCEPT !.slot = [i \in TableSlots |->
               IF i \in J THEN [u.slot[i] EXCEPT !.closing = TRUE, !.until = v.now + Closing]
               ELSE u.slot[i]]]
    BY DEF srvrun_close_send, srvrun_close_all_wt
  <1>7. w = [u EXCEPT !.slot = f]
    BY <1>5, <1>6
  <1>8. ASSUME NEW i \in TableSlots
        PROVE  /\ f[i] \in Entry
               /\ i \in J => Closed(v.slot[i], f[i])
               /\ i \notin J => f[i] = v.slot[i]
               /\ f[i].live = v.slot[i].live /\ f[i].up = v.slot[i].up
               /\ f[i].boot = v.slot[i].boot
    <2>1. v.slot[i] \in Entry
      BY <1>1
    <2>2. CASE i \in J
      <3>1. f[i] = [[v.slot[i] EXCEPT !.sess = FALSE]
                      EXCEPT !.closing = TRUE, !.until = v.now + Closing]
        BY <2>2
      <3> HIDE DEF f, J
      <3>2. f[i] \in Entry
        BY <1>1, <2>1, <3>1 DEF Entry
      <3>3. /\ f[i].live = v.slot[i].live /\ f[i].up = v.slot[i].up /\ f[i].boot = v.slot[i].boot
            /\ f[i].gen = v.slot[i].gen /\ f[i].who = v.slot[i].who
            /\ f[i].odcid = v.slot[i].odcid /\ f[i].last = v.slot[i].last
            /\ f[i].since = v.slot[i].since /\ f[i].closing /\ ~ f[i].sess
        BY <2>1, <3>1 DEF Entry
      <3>q. QED  BY <2>2, <3>2, <3>3 DEF Closed
    <2>3. CASE i \notin J
      <3>a. f[i] = g[i]
        BY <2>3
      <3>b. g[i] = v.slot[i]
        BY <2>3
      <3> HIDE DEF f, g, J
      <3>1. f[i] = v.slot[i]
        BY ZenonT(60), <3>a, <3>b
      <3>q. QED  BY Zenon, <2>1, <2>3, <3>1
    <2>q. QED  BY <2>2, <2>3
  <1>9. f \in [TableSlots -> Entry]
    BY <1>8
  <1>10. \A i \in I : i \notin J => ~ v.slot[i].sess
    BY DEF Sound, SlotSound
  <1> HIDE DEF f, told, w, J, g
  <1>11. /\ w \in Table /\ w.slot = f /\ w.told = told
         /\ w.now = v.now /\ w.n = v.n /\ w.down = v.down /\ w.done = v.done
         /\ w.opened = v.opened /\ w.ring = v.ring /\ w.wrong = v.wrong
    BY <1>1, <1>3, <1>7, <1>9 DEF Table
  <1>12. Ended(v, w, J)
    BY <1>2, <1>4, <1>8, <1>11 DEF Ended
  <1>13. Sound(w)
    BY <1>2, <1>12, EndedSound
  <1>14. \A i \in I : ~ w.slot[i].sess
    BY <1>8, <1>10, <1>11 DEF Closed
  <1>15. \A i \in TableSlots \ I : i \notin J
    BY DEF J
  <1>q. QED  BY <1>8, <1>11, <1>13, <1>14, <1>15 DEF w

\* Every slot stays with its claim and keeps its session.
SameClaim(s, r) ==
  /\ r.live = s.live /\ r.who = s.who /\ r.odcid = s.odcid /\ r.gen = s.gen
  /\ r.closing = s.closing /\ r.sess = s.sess

Marked(v, w) ==
  /\ w \in Table
  /\ v.now <= w.now /\ w.n = v.n /\ w.opened = v.opened /\ w.told = v.told
  /\ w.ring = v.ring /\ w.wrong = v.wrong
  /\ \A i \in TableSlots :
       LET r == w.slot[i] IN
       /\ SameClaim(v.slot[i], r)
       /\ r.last <= w.now /\ r.since <= w.now
       /\ (r.up \/ r.boot) => r.live
       /\ r.sess => r.up

LEMMA MarkedSound ==
  ASSUME NEW v, Sound(v), NEW w, Marked(v, w)
  PROVE  Sound(w)
  <1>1. v \in Table /\ w \in Table /\ w.wrong = {} /\ w.opened = v.opened /\ w.n = v.n
    BY DEF Sound, Marked
  <1>2. \A i \in TableSlots : SlotSound(w, w.slot[i])
    BY <1>1 DEF Marked, SameClaim, SlotSound, Sound
  <1>3. Apart(w)
    BY DEF Sound, Apart, Marked, SameClaim
  <1>4. \A k \in Claims : Open(w, k) <=> Open(v, k)
    BY DEF Marked, SameClaim, Open
  <1>5. ToldSound(w)
    BY <1>1, <1>4 DEF ToldSound, Sound, Marked
  <1>6. QueueSound(w)
    <2> SUFFICES ASSUME NEW c \in Cells, w.ring[c] # None
                 PROVE  CellSound(w, w.ring[c])
      BY DEF QueueSound
    <2>1. CellSound(v, v.ring[c]) /\ v.ring[c] = w.ring[c]
      BY DEF Sound, QueueSound, Marked
    <2>2. w.ring[c].slot \in TableSlots
      BY <1>1 DEF Table, Queued
    <2>q. QED  BY <2>1, <2>2 DEF CellSound, Marked, SameClaim
  <1>q. QED  BY <1>1, <1>2, <1>3, <1>5, <1>6 DEF Sound

\* A slot is given new values of the fields that are its own.
LEMMA SlotMarked ==
  ASSUME NEW v, Sound(v), NEW i \in TableSlots, NEW r \in Entry, SameClaim(v.slot[i], r),
         r.last <= v.now, r.since <= v.now, (r.up \/ r.boot) => r.live, r.sess => r.up
  PROVE  LET w == [v EXCEPT !.slot = [@ EXCEPT ![i] = r]] IN
         /\ Sound(w) /\ w.slot = [v.slot EXCEPT ![i] = r]
         /\ w.now = v.now /\ w.n = v.n /\ w.down = v.down /\ w.done = v.done
         /\ w.opened = v.opened
  <1> DEFINE f == [v.slot EXCEPT ![i] = r]
             w == [v EXCEPT !.slot = f]
  <1>1. v \in Table /\ v.slot \in [TableSlots -> Entry] /\ v.now \in Nat
    BY DEF Sound, Table
  <1>2. f \in [TableSlots -> Entry] /\ f[i] = r /\ \A j \in TableSlots : j # i => f[j] = v.slot[j]
    BY <1>1
  <1> HIDE DEF f
  <1>3. /\ w \in Table /\ w.slot = f
        /\ w.now = v.now /\ w.n = v.n /\ w.down = v.down /\ w.done = v.done
        /\ w.opened = v.opened /\ w.told = v.told /\ w.ring = v.ring /\ w.wrong = v.wrong
    BY <1>1, <1>2 DEF Table
  <1> HIDE DEF w
  <1>4. ASSUME NEW j \in TableSlots
        PROVE  /\ SameClaim(v.slot[j], f[j])
               /\ f[j].last <= w.now /\ f[j].since <= w.now
               /\ (f[j].up \/ f[j].boot) => f[j].live
               /\ f[j].sess => f[j].up
    <2>1. CASE j = i
      BY <1>2, <1>3, <2>1
    <2>2. CASE j # i
      BY <1>2, <1>3, <2>2 DEF Sound, SlotSound, SameClaim
    <2>q. QED  BY <2>1, <2>2
  <1>5. Marked(v, w)
    BY <1>1, <1>3, <1>4 DEF Marked
  <1>6. Sound(w)
    BY <1>5, MarkedSound
  <1>q. QED  BY <1>3, <1>6 DEF f, w

\* The time of the last datagram.
LEMMA TouchSound ==
  ASSUME NEW v, Sound(v), NEW i \in TableSlots
  PROVE  LET w == [v EXCEPT !.slot[i].last = v.now] IN
         /\ Sound(w) /\ w.slot = [v.slot EXCEPT ![i] = [v.slot[i] EXCEPT !.last = v.now]]
         /\ w.now = v.now /\ w.n = v.n /\ w.down = v.down /\ w.done = v.done
         /\ w.opened = v.opened
  <1> DEFINE r == [v.slot[i] EXCEPT !.last = v.now]
  <1>1. v.slot[i] \in Entry /\ v.slot \in [TableSlots -> Entry] /\ v \in Table /\ v.now \in Nat
    BY DEF Sound, Table
  <1>2. r \in Entry
    BY <1>1 DEF Entry
  <1>3. SameClaim(v.slot[i], r) /\ r.last = v.now /\ r.since = v.slot[i].since
        /\ r.up = v.slot[i].up /\ r.boot = v.slot[i].boot
    BY <1>1 DEF Entry, SameClaim
  <1>4. SlotSound(v, v.slot[i])
    BY DEF Sound
  <1>5. r.last <= v.now /\ r.since <= v.now /\ ((r.up \/ r.boot) => r.live) /\ (r.sess => r.up)
    BY <1>1, <1>3, <1>4 DEF SlotSound, SameClaim
  <1>6. [v EXCEPT !.slot[i].last = v.now] = [v EXCEPT !.slot = [@ EXCEPT ![i] = r]]
    BY <1>1 DEF Table, Entry
  <1> HIDE DEF r
  <1>7. LET w == [v EXCEPT !.slot = [@ EXCEPT ![i] = r]] IN
         /\ Sound(w) /\ w.slot = [v.slot EXCEPT ![i] = r]
         /\ w.now = v.now /\ w.n = v.n /\ w.down = v.down /\ w.done = v.done
         /\ w.opened = v.opened
    BY <1>2, <1>3, <1>5, SlotMarked
  <1>q. QED  BY <1>6, <1>7 DEF r

-----------------------------------------------------------------------------
\* Routing.

LEMMA LeastIs ==
  ASSUME NEW S \in SUBSET Nat, S # {}
  PROVE  \E i \in S : \A j \in S : i <= j
  BY MinIs

\* What the table has besides its slots.
SameLoop(v, w) == w.now = v.now /\ w.down = v.down /\ w.done = v.done

LEMMA OpenSlotSound ==
  ASSUME NEW v, Sound(v), BusyBut(v, {}), ~ TableFull(v), v.n < MaxClaims, NEW p \in Clients,
         \A i \in TableSlots : v.slot[i].live => v.slot[i].odcid # p
  PROVE  LET w == srvrun_open_slot(v, p) IN
         /\ Sound(w) /\ SameLoop(v, w)
         /\ BusyBut(w, {i \in TableSlots : w.slot[i].live /\ w.slot[i].odcid = p})
  <1> DEFINE free == {i \in TableSlots : ~ v.slot[i].live}
             i    == CHOOSE j \in free : \A h \in free : j <= h
             s    == [FreeSlot EXCEPT !.live = TRUE, !.who = v.n + 1, !.odcid = p,
                                      !.gen = v.slot[i].gen + 1, !.since = v.now]
             f    == [v.slot EXCEPT ![i] = s]
             w    == srvrun_open_slot(v, p)
  <1>1. /\ v \in Table /\ v.slot \in [TableSlots -> Entry] /\ v.n \in Nat /\ v.now \in Nat
        /\ v.n + 1 \in 0 .. MaxClaims /\ v.n + 1 \in Claims
    <2>1. v \in Table /\ v.slot \in [TableSlots -> Entry] /\ v.n \in 0 .. MaxClaims /\ v.now \in Nat
      BY DEF Sound, Table
    <2>q. QED  BY <2>1, TableAssumption DEF Claims
  <1>2. i \in free
    <2>1. free \in SUBSET Nat /\ free # {}
      BY TableAssumption DEF TableFull
    <2> HIDE DEF free
    <2>q. QED  BY <2>1, LeastIs
  <1>3. i \in TableSlots /\ ~ v.slot[i].live
    BY <1>2
  <1>4. w = [v EXCEPT !.slot[i] = s, !.n = @ + 1]
    BY DEF srvrun_open_slot
  <1> HIDE DEF free, i, w
  <1>5. v.slot[i] \in Entry /\ v.slot[i].gen \in Nat
    BY <1>1, <1>3 DEF Entry
  <1>6. s \in Entry
    <2>1. PICK who \in 0 .. MaxClaims, gen \in Nat : who = v.n + 1 /\ gen = v.slot[i].gen + 1
      BY <1>1, <1>5
    <2>2. s = [FreeSlot EXCEPT !.live = TRUE, !.who = who, !.odcid = p, !.gen = gen,
                               !.since = v.now]
      BY <2>1
    <2>3. FreeSlot \in Entry
      <3>1. 0 \in 0 .. MaxClaims
        BY TableAssumption
      <3>q. QED  BY <3>1 DEF Entry, FreeSlot
    <2> HIDE DEF s
    <2>q. QED  BY <1>1, <2>2, <2>3 DEF Entry
  <1>7. /\ s.live /\ s.who = v.n + 1 /\ s.odcid = p /\ s.gen = v.slot[i].gen + 1
        /\ s.since = v.now /\ s.last = 0 /\ ~ s.up /\ ~ s.boot /\ ~ s.sess /\ ~ s.closing
    BY DEF FreeSlot
  <1> HIDE DEF s
  <1>8. f \in [TableSlots -> Entry] /\ f[i] = s /\ \A j \in TableSlots : j # i => f[j] = v.slot[j]
    BY <1>1, <1>3, <1>6
  <1>9. w = [v EXCEPT !.slot = f, !.n = v.n + 1]
    BY <1>1, <1>4 DEF Table
  <1> HIDE DEF f
  <1>10. /\ w \in Table /\ w.slot = f /\ w.n = v.n + 1 /\ SameLoop(v, w)
         /\ w.opened = v.opened /\ w.told = v.told /\ w.ring = v.ring /\ w.wrong = v.wrong
    BY <1>1, <1>8, <1>9 DEF Table, SameLoop
  <1>11. w.now = v.now /\ v.opened \subseteq 1 .. v.n
    BY <1>10 DEF SameLoop, Sound, ToldSound
  <1>12. \A j \in TableSlots : SlotSound(v, v.slot[j])
    BY DEF Sound
  <1>13. ASSUME NEW j \in TableSlots
         PROVE  SlotSound(w, f[j])
    <2>1. CASE j = i
      <3>1. s.gen <= w.n /\ s.last <= w.now /\ s.since <= w.now
        BY <1>1, <1>3, <1>5, <1>7, <1>10, <1>11, <1>12 DEF SlotSound
      <3>2. s.who \in 1 .. w.n /\ s.who \notin w.opened
        BY <1>1, <1>7, <1>10, <1>11
      <3>q. QED  BY <1>7, <1>8, <2>1, <3>1, <3>2 DEF SlotSound
    <2>2. CASE j # i
      <3>1. f[j] = v.slot[j] /\ v.slot[j] \in Entry
        BY <1>1, <1>8, <2>2
      <3>2. f[j].gen <= w.n
        BY <1>1, <1>10, <1>12, <3>1 DEF SlotSound, Entry
      <3>3. f[j].live => f[j].who \in 1 .. w.n
        BY <1>1, <1>10, <1>12, <3>1 DEF SlotSound, Entry
      <3>q. QED  BY <1>10, <1>11, <1>12, <3>1, <3>2, <3>3 DEF SlotSound
    <2>q. QED  BY <2>1, <2>2
  <1>14. \A j \in TableSlots : v.slot[j].live => v.slot[j].who # v.n + 1
    <2>1. \A j \in TableSlots : v.slot[j].live => v.slot[j].who \in 1 .. v.n
      BY <1>12 DEF SlotSound
    <2>2. v.n + 1 \notin 1 .. v.n
      BY <1>1
    <2>q. QED  BY <2>1, <2>2
  <1>15. Apart(w)
    <2>1. \A j \in TableSlots : (j # i /\ f[j].live) => (f[j].who # f[i].who /\ f[j].odcid # f[i].odcid)
      BY <1>7, <1>8, <1>14
    <2>2. \A j, k \in TableSlots : (j # i /\ k # i /\ j # k /\ f[j].live /\ f[k].live) =>
             (f[j].who # f[k].who /\ f[j].odcid # f[k].odcid)
      BY <1>8 DEF Sound, Apart
    <2>q. QED  BY <1>10, <2>1, <2>2 DEF Apart
  <1>16. \A k \in Claims : Open(w, k) <=> Open(v, k)
    <2>1. ~ v.slot[i].sess /\ ~ f[i].sess
      BY <1>3, <1>7, <1>8, <1>12 DEF SlotSound
    <2>2. \A j \in TableSlots : j # i => f[j] = v.slot[j]
      BY <1>8
    <2>3. \A k : Open(w, k) => Open(v, k)
      BY <1>10, <2>1, <2>2 DEF Open
    <2>4. \A k : Open(v, k) => Open(w, k)
      BY <1>10, <2>1, <2>2 DEF Open
    <2>q. QED  BY <2>3, <2>4
  <1>17. ToldSound(w)
    <2>1. w.opened \subseteq 1 .. w.n
      BY <1>1, <1>10, <1>11
    <2>q. QED  BY <1>10, <1>16, <2>1 DEF ToldSound, Sound
  <1>18. QueueSound(w)
    <2> SUFFICES ASSUME NEW c \in Cells, w.ring[c] # None
                 PROVE  CellSound(w, w.ring[c])
      BY DEF QueueSound
    <2> DEFINE e == w.ring[c]
    <2>1. CellSound(v, e)
      BY <1>10 DEF Sound, QueueSound
    <2>2. e \in Queued
      BY <1>10 DEF Table
    <2>3. e.slot \in TableSlots /\ e.gen \in Nat
      BY <2>2 DEF Queued
    <2> HIDE DEF e
    <2>4. CASE e.slot = i
      <3>1. e.gen <= v.slot[i].gen
        BY <2>1, <2>4 DEF CellSound
      <3>2. e.gen <= f[i].gen /\ e.gen # f[i].gen
        BY <1>5, <1>7, <1>8, <2>3, <3>1
      <3>q. QED  BY <1>10, <2>4, <3>2 DEF CellSound, e
    <2>5. CASE e.slot # i
      BY <1>8, <1>10, <2>1, <2>3, <2>5 DEF CellSound, e
    <2>q. QED  BY <2>4, <2>5
  <1>19. Sound(w)
    BY <1>10, <1>13, <1>15, <1>17, <1>18 DEF Sound
  <1>20. BusyBut(w, {j \in TableSlots : w.slot[j].live /\ w.slot[j].odcid = p})
    <2>1. \A j \in TableSlots : j # i /\ f[j].live => srvrun_slot_busy(f[j])
      BY <1>8 DEF BusyBut
    <2>2. f[i].live /\ f[i].odcid = p
      BY <1>7, <1>8
    <2>q. QED  BY <1>3, <1>10, <2>1, <2>2 DEF BusyBut
  <1>q. QED  BY <1>10, <1>19, <1>20 DEF w

\* The slot that is evicted is one of the table.
LEMMA CandidateIs ==
  ASSUME NEW v, Sound(v), srvrun_evict_candidate(v) # 0
  PROVE  srvrun_evict_candidate(v) \in TableSlots
  <1> DEFINE busy == {i \in TableSlots : srvrun_slot_busy(v.slot[i])}
             Best(i) == \A j \in busy : v.slot[i].last < v.slot[j].last
                                        \/ (v.slot[i].last = v.slot[j].last /\ i <= j)
             L    == {v.slot[i].last : i \in busy}
  <1>1. \A i \in busy : v.slot[i].last \in Nat /\ i \in Nat
    <2>1. \A i \in TableSlots : v.slot[i] \in Entry
      BY DEF Sound, Table
    <2>q. QED  BY <2>1, TableAssumption DEF Entry
  <1>2. busy # {} /\ srvrun_evict_candidate(v) = CHOOSE i \in busy : Best(i)
    BY DEF srvrun_evict_candidate
  <1>3. \E i \in busy : Best(i)
    <2> HIDE DEF busy
    <2>1. L \in SUBSET Nat /\ L # {}
      BY <1>1, <1>2
    <2>2. PICK m \in L : \A x \in L : m <= x
      <3> HIDE DEF L
      <3>q. QED  BY <2>1, LeastIs
    <2> DEFINE T == {i \in busy : v.slot[i].last = m}
    <2>3. T \in SUBSET Nat /\ T # {}
      BY <1>1, <2>2
    <2>4. PICK i \in T : \A j \in T : i <= j
      <3> HIDE DEF T
      <3>q. QED  BY <2>3, LeastIs
    <2>5. \A j \in busy : v.slot[j].last \in L /\ m <= v.slot[j].last
      BY <2>2
    <2>6. i \in busy /\ v.slot[i].last = m
      BY <2>4
    <2>7. ASSUME NEW j \in busy
          PROVE  v.slot[i].last < v.slot[j].last \/ (v.slot[i].last = v.slot[j].last /\ i <= j)
      <3>1. m \in Nat /\ v.slot[j].last \in Nat /\ m <= v.slot[j].last
        BY <1>1, <2>5, <2>6
      <3>2. CASE v.slot[j].last = m
        BY <2>4, <2>6, <3>2
      <3>3. CASE v.slot[j].last # m
        BY <2>6, <3>1, <3>3
      <3>q. QED  BY <3>2, <3>3
    <2>q. QED  BY <2>6, <2>7
  <1> HIDE DEF Best
  <1>4. (CHOOSE i \in busy : Best(i)) \in busy
    <2> HIDE DEF busy
    <2>q. QED  BY <1>3
  <1>q. QED  BY <1>2, <1>4

\* A call that leaves the table as it should be between two calls.
Call(v, w) == Sound(w) /\ BusyBut(w, {}) /\ SameLoop(v, w)

LEMMA FreeSlotCall ==
  ASSUME NEW v, Sound(v), NEW I \in SUBSET TableSlots, BusyBut(v, I)
  PROVE  Call(v, srvrun_free_slot(v, I))
  <1> DEFINE w == srvrun_free_slot(v, I)
  <1>1. /\ Sound(w) /\ SameLoop(v, w)
        /\ \A i \in TableSlots \ I : w.slot[i] = v.slot[i]
        /\ \A i \in I : ~ w.slot[i].live
    BY FreeSlotSound DEF SameLoop
  <1> HIDE DEF w
  <1>2. BusyBut(w, {})
    BY <1>1 DEF BusyBut
  <1>q. QED  BY <1>1, <1>2 DEF Call, w

LEMMA CloseSendCall ==
  ASSUME NEW v, Sound(v), NEW I \in SUBSET TableSlots, BusyBut(v, {})
  PROVE  Call(v, srvrun_close_send(v, I))
  <1> DEFINE w == srvrun_close_send(v, I)
  <1>1. /\ Sound(w) /\ SameLoop(v, w)
        /\ \A i \in TableSlots : w.slot[i].live = v.slot[i].live /\ w.slot[i].up = v.slot[i].up
                                 /\ w.slot[i].boot = v.slot[i].boot
    BY CloseSendSound DEF SameLoop
  <1> HIDE DEF w
  <1>2. BusyBut(w, {})
    BY <1>1 DEF BusyBut, srvrun_slot_busy
  <1>q. QED  BY <1>1, <1>2 DEF Call, w

LEMMA SweepCall ==
  ASSUME NEW v, Sound(v), BusyBut(v, {})
  PROVE  Call(v, srvrun_sweep_idle(v)) /\ srvrun_sweep_idle(v).n = v.n
  <1> DEFINE I == {i \in TableSlots : srvrun_reap_due(v, v.slot[i])}
  <1>1. I \in SUBSET TableSlots /\ srvrun_sweep_idle(v) = srvrun_free_slot(v, I)
    BY DEF srvrun_sweep_idle
  <1> HIDE DEF I
  <1>2. BusyBut(v, I)
    BY DEF BusyBut
  <1>3. srvrun_free_slot(v, I).n = v.n
    BY <1>1, FreeSlotSound
  <1>q. QED  BY <1>1, <1>2, <1>3, FreeSlotCall

\* An Initial finds or opens a slot; only that one may be live and not yet booting.
LEMMA RouteSound ==
  ASSUME NEW v, Sound(v), BusyBut(v, {}), v.n < MaxClaims, NEW p \in Clients
  PROVE  LET w == srvrun_route_or_evict(v, p) IN
         /\ Sound(w) /\ SameLoop(v, w) /\ (w.down => BusyBut(w, {}))
         /\ BusyBut(w, {i \in TableSlots : w.slot[i].live /\ w.slot[i].odcid = p})
  <1> DEFINE w    == srvrun_route_or_evict(v, p)
             cand == srvrun_evict_candidate(v)
             u    == srvrun_free_slot(v, {cand})
             Goal(x) == /\ Sound(x) /\ SameLoop(v, x) /\ (x.down => BusyBut(x, {}))
                        /\ BusyBut(x, {i \in TableSlots : x.slot[i].live /\ x.slot[i].odcid = p})
  <1>1. Goal(v)
    <2>1. BusyBut(v, {i \in TableSlots : v.slot[i].live /\ v.slot[i].odcid = p})
      BY DEF BusyBut
    <2>q. QED  BY <2>1 DEF SameLoop
  <1>2. CASE v.down \/ \E i \in TableSlots : v.slot[i].live /\ v.slot[i].odcid = p
    BY <1>1, <1>2 DEF srvrun_route_or_evict
  <1>3. CASE ~ (v.down \/ \E i \in TableSlots : v.slot[i].live /\ v.slot[i].odcid = p)
    <2>1. CASE ~ TableFull(v)
      <3>1. w = srvrun_open_slot(v, p)
        BY <1>3, <2>1 DEF srvrun_route_or_evict
      <3>2. \A i \in TableSlots : v.slot[i].live => v.slot[i].odcid # p
        BY <1>3
      <3>3. /\ Sound(w) /\ SameLoop(v, w)
            /\ BusyBut(w, {i \in TableSlots : w.slot[i].live /\ w.slot[i].odcid = p})
        BY <2>1, <3>1, <3>2, OpenSlotSound
      <3>4. ~ w.down
        BY <1>3, <3>3 DEF SameLoop
      <3>q. QED  BY <3>3, <3>4
    <2>2. CASE TableFull(v) /\ cand # 0 /\ v.now - v.slot[cand].last >= Grace
      <3>1. w = srvrun_open_slot(u, p)
        BY <1>3, <2>2 DEF srvrun_route_or_evict
      <3>2. cand \in TableSlots
        BY <2>2, CandidateIs
      <3> HIDE DEF cand
      <3>3. {cand} \in SUBSET TableSlots /\ BusyBut(v, {cand})
        BY <3>2 DEF BusyBut
      <3>4. Call(v, u)
        BY <3>3, FreeSlotCall
      <3>5. /\ u.n = v.n
            /\ \A i \in TableSlots \ {cand} : u.slot[i] = v.slot[i]
            /\ ~ u.slot[cand].live
        BY <3>3, FreeSlotSound
      <3> HIDE DEF u
      <3>6. ~ TableFull(u)
        BY <3>2, <3>5 DEF TableFull
      <3>7. \A i \in TableSlots : u.slot[i].live => u.slot[i].odcid # p
        BY <1>3, <3>5
      <3>8. Sound(u) /\ BusyBut(u, {}) /\ u.n < MaxClaims
        BY <3>4, <3>5 DEF Call
      <3>9. /\ Sound(w) /\ SameLoop(u, w)
            /\ BusyBut(w, {i \in TableSlots : w.slot[i].live /\ w.slot[i].odcid = p})
        BY <3>1, <3>6, <3>7, <3>8, OpenSlotSound
      <3> HIDE DEF w
      <3>10. SameLoop(v, w) /\ ~ w.down
        BY <1>3, <3>4, <3>9 DEF SameLoop, Call
      <3>q. QED  BY <3>9, <3>10 DEF w
    <2>3. CASE TableFull(v) /\ ~ (cand # 0 /\ v.now - v.slot[cand].last >= Grace)
      <3>1. w = v
        BY <1>3, <2>3 DEF srvrun_route_or_evict
      <3>q. QED  BY <1>1, <3>1
    <2>q. QED  BY <2>1, <2>2, <2>3
  <1>q. QED  BY <1>2, <1>3

\* The answer to a ClientHello.
LEMMA OpenDoneCall ==
  ASSUME NEW v, Sound(v), NEW i \in TableSlots, v.slot[i].live, BusyBut(v, {i}),
         NEW boot \in {"ok", "pending", "failed"}
  PROVE  Call(v, srvrun_open_done(v, i, boot))
  <1> DEFINE w == srvrun_open_done(v, i, boot)
             s == v.slot[i]
  <1>1. s \in Entry /\ v \in Table /\ v.slot \in [TableSlots -> Entry] /\ SlotSound(v, s)
    BY DEF Sound, Table
  <1>2. ASSUME NEW r \in Entry, w = [v EXCEPT !.slot = [@ EXCEPT ![i] = r]], SameClaim(s, r),
               r.last = s.last, r.since = s.since, r.up \/ r.boot, s.up => r.up
        PROVE  Call(v, w)
    <2>1. r.last <= v.now /\ r.since <= v.now /\ ((r.up \/ r.boot) => r.live) /\ (r.sess => r.up)
      BY <1>1, <1>2 DEF SlotSound, SameClaim
    <2>2. Sound(w) /\ w.slot = [v.slot EXCEPT ![i] = r] /\ SameLoop(v, w)
      BY <1>2, <2>1, SlotMarked DEF SameLoop
    <2> HIDE DEF w
    <2>3. BusyBut(w, {})
      BY <1>1, <1>2, <2>2 DEF BusyBut, srvrun_slot_busy
    <2>q. QED  BY <2>2, <2>3 DEF Call
  <1>3. CASE boot = "ok"
    <2> DEFINE r == [s EXCEPT !.up = TRUE, !.boot = FALSE]
    <2>1. r \in Entry /\ SameClaim(s, r) /\ r.last = s.last /\ r.since = s.since /\ r.up
      BY <1>1 DEF Entry, SameClaim
    <2>2. w = [v EXCEPT !.slot = [@ EXCEPT ![i] = r]]
      BY <1>1, <1>3 DEF srvrun_open_done, Table, Entry
    <2> HIDE DEF r, w
    <2>q. QED  BY <1>2, <2>1, <2>2 DEF w
  <1>4. CASE boot = "pending"
    <2> DEFINE r == [s EXCEPT !.boot = TRUE]
    <2>1. r \in Entry /\ SameClaim(s, r) /\ r.last = s.last /\ r.since = s.since /\ r.boot
          /\ r.up = s.up
      BY <1>1 DEF Entry, SameClaim
    <2>2. w = [v EXCEPT !.slot = [@ EXCEPT ![i] = r]]
      BY <1>1, <1>4 DEF srvrun_open_done, Table, Entry
    <2> HIDE DEF r, w
    <2>q. QED  BY <1>2, <2>1, <2>2 DEF w
  <1>5. CASE boot = "failed"
    <2>1. w = srvrun_free_slot(v, {i})
      BY <1>5 DEF srvrun_open_done
    <2>q. QED  BY <2>1, FreeSlotCall
  <1>q. QED  BY <1>3, <1>4, <1>5

LEMMA ServeInitialCall ==
  ASSUME NEW v, Sound(v), NEW p \in Clients, v.down => BusyBut(v, {}),
         BusyBut(v, {i \in TableSlots : v.slot[i].live /\ v.slot[i].odcid = p}),
         NEW boot \in {"ok", "pending", "failed"}
  PROVE  Call(v, ServeSlotInitial(v, p, boot))
  <1> DEFINE at == {i \in TableSlots : v.slot[i].live /\ v.slot[i].odcid = p}
             i  == CHOOSE j \in at : TRUE
             u  == [v EXCEPT !.slot[i].last = v.now]
             w  == ServeSlotInitial(v, p, boot)
  <1>1. CASE at = {}
    <2>1. w = v
      BY <1>1 DEF ServeSlotInitial
    <2>2. BusyBut(v, {})
      BY <1>1
    <2>q. QED  BY <2>1, <2>2 DEF Call, SameLoop
  <1>2. CASE at # {}
    <2>1. w = IF u.slot[i].up \/ u.down THEN u ELSE srvrun_open_done(u, i, boot)
      BY <1>2 DEF ServeSlotInitial
    <2>2. i \in at
      BY <1>2
    <2>3. i \in TableSlots /\ v.slot[i].live /\ at = {i} /\ BusyBut(v, at)
      BY <2>2 DEF Sound, Apart
    <2>4. BusyBut(v, {i})
      BY <2>3
    <2> HIDE DEF i, at, w
    <2>5. /\ Sound(u) /\ SameLoop(v, u)
          /\ u.slot = [v.slot EXCEPT ![i] = [v.slot[i] EXCEPT !.last = v.now]]
      BY <2>3, TouchSound DEF SameLoop
    <2>6. v.slot \in [TableSlots -> Entry] /\ v.slot[i] \in Entry
      BY <2>3 DEF Sound, Table
    <2> HIDE DEF u
    <2>7. /\ \A j \in TableSlots : j # i => u.slot[j] = v.slot[j]
          /\ u.slot[i].live = v.slot[i].live /\ u.slot[i].up = v.slot[i].up
          /\ u.slot[i].boot = v.slot[i].boot
      <3>1. /\ u.slot[i] = [v.slot[i] EXCEPT !.last = v.now]
            /\ \A j \in TableSlots : j # i => u.slot[j] = v.slot[j]
        BY <2>3, <2>5, <2>6
      <3>2. [v.slot[i] EXCEPT !.last = v.now].live = v.slot[i].live
            /\ [v.slot[i] EXCEPT !.last = v.now].up = v.slot[i].up
            /\ [v.slot[i] EXCEPT !.last = v.now].boot = v.slot[i].boot
        BY <2>6 DEF Entry
      <3>q. QED  BY <3>1, <3>2
    <2>8. BusyBut(u, {i}) /\ u.slot[i].live
      BY <2>3, <2>4, <2>7 DEF BusyBut
    <2>9. CASE u.slot[i].up \/ u.down
      <3>1. srvrun_slot_busy(u.slot[i])
        <4>1. CASE u.slot[i].up
          BY <4>1 DEF srvrun_slot_busy
        <4>2. CASE u.down
          BY <2>3, <2>5, <2>7, <4>2 DEF SameLoop, BusyBut, srvrun_slot_busy
        <4>q. QED  BY <2>9, <4>1, <4>2
      <3>2. BusyBut(u, {})
        BY <2>8, <3>1 DEF BusyBut
      <3>q. QED  BY <2>1, <2>5, <2>9, <3>2 DEF Call, w
    <2>10. CASE ~ (u.slot[i].up \/ u.down)
      <3>1. Call(u, srvrun_open_done(u, i, boot))
        BY <2>3, <2>5, <2>8, OpenDoneCall
      <3>q. QED  BY <2>1, <2>5, <2>10, <3>1 DEF Call, SameLoop, w
    <2>q. QED  BY <2>9, <2>10
  <1>q. QED  BY <1>1, <1>2

-----------------------------------------------------------------------------
\* Packets of an open connection.

\* A session opens: the claim has had none before, since it would still have it.
LEMMA SessionCall ==
  ASSUME NEW v, Sound(v), BusyBut(v, {}), NEW i \in TableSlots, v.slot[i].up,
         ~ v.slot[i].closing
  PROVE  Call(v, [v EXCEPT !.slot[i].sess = TRUE, !.opened = @ \cup {v.slot[i].who}])
  <1> DEFINE s == v.slot[i]
             r == [s EXCEPT !.sess = TRUE]
             f == [v.slot EXCEPT ![i] = r]
             O == v.opened \cup {s.who}
             w == [v EXCEPT !.slot[i].sess = TRUE, !.opened = @ \cup {v.slot[i].who}]
  <1>1. v \in Table /\ v.slot \in [TableSlots -> Entry] /\ s \in Entry /\ v.n \in 0 .. MaxClaims
    BY DEF Sound, Table
  <1>2. \A j \in TableSlots : SlotSound(v, v.slot[j])
    BY DEF Sound
  <1>3. s.live /\ s.who \in 1 .. v.n /\ s.who \in Claims
    <2>1. s.live /\ s.who \in 1 .. v.n
      BY <1>2 DEF SlotSound
    <2>q. QED  BY <1>1, <2>1, TableAssumption DEF Claims
  <1>4. O \subseteq Claims /\ O \subseteq 1 .. v.n
    <2>1. v.opened \subseteq Claims /\ v.opened \subseteq 1 .. v.n
      BY <1>1 DEF Table, Sound, ToldSound
    <2>q. QED  BY <1>3, <2>1
  <1>5. r \in Entry /\ r.sess
        /\ r.live = s.live /\ r.who = s.who /\ r.odcid = s.odcid /\ r.gen = s.gen
        /\ r.closing = s.closing /\ r.up = s.up /\ r.boot = s.boot /\ r.last = s.last
        /\ r.since = s.since
    BY <1>1 DEF Entry
  <1>6. w = [v EXCEPT !.slot = f, !.opened = O]
    BY <1>1 DEF Table, Entry
  <1> HIDE DEF r, w
  <1>7. f \in [TableSlots -> Entry] /\ f[i] = r /\ \A j \in TableSlots : j # i => f[j] = v.slot[j]
    BY <1>1, <1>5
  <1> HIDE DEF f, O
  <1>8. /\ w \in Table /\ w.slot = f /\ w.opened = O /\ w.n = v.n /\ SameLoop(v, w)
        /\ w.told = v.told /\ w.ring = v.ring /\ w.wrong = v.wrong
    BY <1>1, <1>4, <1>6, <1>7 DEF Table, SameLoop
  <1>9. w.now = v.now /\ w.wrong = {}
    BY <1>8 DEF SameLoop, Sound
  <1>10. \A j \in TableSlots : (j # i /\ v.slot[j].live) => v.slot[j].who # s.who
    BY <1>3 DEF Sound, Apart
  <1>11. ASSUME NEW j \in TableSlots
         PROVE  SlotSound(w, f[j])
    <2>1. CASE j = i
      <3>1. s.who \in O
        BY DEF O
      <3>q. QED  BY <1>2, <1>5, <1>7, <1>8, <1>9, <2>1, <3>1 DEF SlotSound
    <2>2. CASE j # i
      <3>1. f[j] = v.slot[j] /\ SlotSound(v, v.slot[j])
        BY <1>2, <1>7, <2>2
      <3>2. v.slot[j].live => (v.slot[j].who \in O <=> v.slot[j].who \in v.opened)
        BY <1>10, <2>2 DEF O
      <3>3. v.slot[j].sess => v.slot[j].live
        BY <3>1 DEF SlotSound
      <3>q. QED  BY <1>8, <1>9, <3>1, <3>2, <3>3 DEF SlotSound
    <2>q. QED  BY <2>1, <2>2
  <1>12. \A j \in TableSlots : f[j].live = v.slot[j].live /\ f[j].who = v.slot[j].who
           /\ f[j].odcid = v.slot[j].odcid /\ f[j].gen = v.slot[j].gen
           /\ f[j].up = v.slot[j].up /\ f[j].boot = v.slot[j].boot
    BY <1>5, <1>7
  <1>13. Apart(w)
    BY <1>8, <1>12 DEF Sound, Apart
  <1>14. ASSUME NEW k \in Claims
         PROVE  w.told[k] = IF k \in w.opened /\ ~ Open(w, k) THEN 1 ELSE 0
    <2>1. w.told[k] = IF k \in v.opened /\ ~ Open(v, k) THEN 1 ELSE 0
      BY <1>8 DEF Sound, ToldSound
    <2>2. CASE k = s.who
      <3>1. Open(w, k)
        BY <1>5, <1>7, <1>8, <2>2 DEF Open
      <3>2. s.sess => Open(v, k)
        BY <2>2 DEF Open
      <3>3. ~ s.sess => k \notin v.opened
        BY <1>2, <1>3, <2>2 DEF SlotSound
      <3>q. QED  BY <2>1, <3>1, <3>2, <3>3
    <2>3. CASE k # s.who
      <3>1. k \in w.opened <=> k \in v.opened
        BY <1>8, <2>3 DEF O
      <3>2. \A j \in TableSlots : (f[j].who = k /\ f[j].sess) <=> (v.slot[j].who = k /\ v.slot[j].sess)
        BY <1>5, <1>7, <2>3
      <3>3. Open(w, k) <=> Open(v, k)
        BY <1>8, <3>2 DEF Open
      <3>q. QED  BY <2>1, <3>1, <3>3
    <2>q. QED  BY <2>2, <2>3
  <1>15. ToldSound(w)
    BY <1>4, <1>8, <1>14 DEF ToldSound
  <1>16. QueueSound(w)
    <2> SUFFICES ASSUME NEW c \in Cells, w.ring[c] # None
                 PROVE  CellSound(w, w.ring[c])
      BY DEF QueueSound
    <2>1. CellSound(v, w.ring[c]) /\ w.ring[c].slot \in TableSlots
      BY <1>8 DEF Sound, QueueSound, Table, Queued
    <2>q. QED  BY <1>8, <1>12, <2>1 DEF CellSound
  <1>17. Sound(w)
    BY <1>8, <1>9, <1>11, <1>13, <1>15, <1>16 DEF Sound
  <1>18. BusyBut(w, {})
    BY <1>8, <1>12 DEF BusyBut, srvrun_slot_busy
  <1>q. QED  BY <1>8, <1>17, <1>18 DEF Call, w

LEMMA ConfirmCall ==
  ASSUME NEW v, Sound(v), BusyBut(v, {}), NEW i \in TableSlots
  PROVE  Call(v, [v EXCEPT !.slot[i].conf = TRUE])
  <1> DEFINE s == v.slot[i]
             r == [s EXCEPT !.conf = TRUE]
             w == [v EXCEPT !.slot[i].conf = TRUE]
  <1>1. s \in Entry /\ v \in Table /\ v.slot \in [TableSlots -> Entry] /\ SlotSound(v, s)
    BY DEF Sound, Table
  <1>2. /\ r \in Entry /\ SameClaim(s, r) /\ r.last = s.last /\ r.since = s.since
        /\ r.up = s.up /\ r.boot = s.boot
    BY <1>1 DEF Entry, SameClaim
  <1>3. w = [v EXCEPT !.slot = [@ EXCEPT ![i] = r]]
    BY <1>1 DEF Table, Entry
  <1> HIDE DEF r, w
  <1>4. r.last <= v.now /\ r.since <= v.now /\ ((r.up \/ r.boot) => r.live) /\ (r.sess => r.up)
    BY <1>1, <1>2 DEF SlotSound, SameClaim
  <1>5. Sound(w) /\ w.slot = [v.slot EXCEPT ![i] = r] /\ SameLoop(v, w)
    BY <1>2, <1>3, <1>4, SlotMarked DEF SameLoop
  <1>6. BusyBut(w, {})
    BY <1>1, <1>2, <1>5 DEF BusyBut, srvrun_slot_busy, SameClaim
  <1>q. QED  BY <1>5, <1>6 DEF Call, w

LEMMA StepCall ==
  ASSUME NEW v, Sound(v), BusyBut(v, {}), NEW i \in TableSlots, v.slot[i].up,
         ~ v.slot[i].closing, NEW eff \in Effects
  PROVE  Call(v, srvrun_step_and_reap(v, i, eff))
  <1> DEFINE w == srvrun_step_and_reap(v, i, eff)
  <1>1. CASE eff = "confirm"
    <2>1. w = [v EXCEPT !.slot[i].conf = TRUE]
      BY <1>1 DEF srvrun_step_and_reap
    <2>2. Call(v, [v EXCEPT !.slot[i].conf = TRUE])
      BY ConfirmCall
    <2>q. QED  BY Zenon, <2>1, <2>2
  <1>2. CASE eff = "session" /\ v.slot[i].conf
    <2>1. w = [v EXCEPT !.slot[i].sess = TRUE, !.opened = @ \cup {v.slot[i].who}]
      BY <1>2 DEF srvrun_step_and_reap
    <2>2. Call(v, [v EXCEPT !.slot[i].sess = TRUE, !.opened = @ \cup {v.slot[i].who}])
      BY <1>2, SessionCall
    <2>q. QED  BY Zenon, <2>1, <2>2
  <1>3. CASE eff = "peer close"
    <2>1. w = srvrun_free_slot(v, {i})
      BY <1>3 DEF srvrun_step_and_reap
    <2>2. BusyBut(v, {i})
      BY DEF BusyBut
    <2>3. Call(v, srvrun_free_slot(v, {i}))
      BY <2>2, FreeSlotCall
    <2>q. QED  BY Zenon, <2>1, <2>3
  <1>4. CASE eff = "error"
    <2>1. w = srvrun_close_send(v, {i})
      BY <1>4 DEF srvrun_step_and_reap
    <2>2. Call(v, srvrun_close_send(v, {i}))
      BY CloseSendCall
    <2>q. QED  BY Zenon, <2>1, <2>2
  <1>5. CASE eff = "nothing" \/ (eff = "session" /\ ~ v.slot[i].conf)
    <2>1. w = v
      BY <1>5 DEF srvrun_step_and_reap
    <2>q. QED  BY <2>1 DEF Call, SameLoop
  <1>q. QED  BY <1>1, <1>2, <1>3, <1>4, <1>5 DEF Effects

LEMMA ServePacketCall ==
  ASSUME NEW v, Sound(v), BusyBut(v, {}), NEW k, NEW eff \in Effects
  PROVE  Call(v, ServePacket(v, k, eff))
  <1> DEFINE at == {i \in TableSlots : v.slot[i].live /\ v.slot[i].who = k}
             i  == CHOOSE j \in at : TRUE
             u  == [v EXCEPT !.slot[i].last = v.now]
             w  == ServePacket(v, k, eff)
  <1>1. CASE at = {}
    <2>1. w = v
      BY <1>1 DEF ServePacket
    <2>q. QED  BY <2>1 DEF Call, SameLoop
  <1>2. CASE at # {}
    <2>1. w = IF u.slot[i].up /\ ~ u.slot[i].closing THEN srvrun_step_and_reap(u, i, eff) ELSE u
      BY <1>2 DEF ServePacket
    <2>2. i \in TableSlots
      BY <1>2
    <2> HIDE DEF i, at, w
    <2>3. /\ Sound(u) /\ SameLoop(v, u)
          /\ u.slot = [v.slot EXCEPT ![i] = [v.slot[i] EXCEPT !.last = v.now]]
      BY <2>2, TouchSound DEF SameLoop
    <2>4. v.slot \in [TableSlots -> Entry] /\ v.slot[i] \in Entry
      BY <2>2 DEF Sound, Table
    <2>5. /\ [v.slot[i] EXCEPT !.last = v.now].live = v.slot[i].live
          /\ [v.slot[i] EXCEPT !.last = v.now].up = v.slot[i].up
          /\ [v.slot[i] EXCEPT !.last = v.now].boot = v.slot[i].boot
      BY <2>4 DEF Entry
    <2> HIDE DEF u
    <2>6. /\ u.slot[i] = [v.slot[i] EXCEPT !.last = v.now]
          /\ \A j \in TableSlots : j # i => u.slot[j] = v.slot[j]
      BY <2>2, <2>3, <2>4
    <2>7. BusyBut(u, {})
      BY <2>2, <2>5, <2>6 DEF BusyBut, srvrun_slot_busy
    <2>8. CASE u.slot[i].up /\ ~ u.slot[i].closing
      <3>1. Call(u, srvrun_step_and_reap(u, i, eff))
        BY <2>2, <2>3, <2>7, <2>8, StepCall
      <3>q. QED  BY <2>1, <2>3, <2>8, <3>1 DEF Call, SameLoop, w
    <2>9. CASE ~ (u.slot[i].up /\ ~ u.slot[i].closing)
      BY <2>1, <2>3, <2>7, <2>9 DEF Call, w
    <2>q. QED  BY <2>8, <2>9
  <1>q. QED  BY <1>1, <1>2

-----------------------------------------------------------------------------
\* The ring.

LEMMA DrainCall ==
  ASSUME NEW v, Sound(v), BusyBut(v, {}), NEW held \in SUBSET Cells
  PROVE  Call(v, srvrun_dgring_drain(v, held))
  <1> DEFINE queued  == {c \in Cells : v.ring[c] # None}
             to(c)   == v.slot[v.ring[c].slot]
             live(c) == srvrun_conn_gen_live(to(c), v.ring[c].gen)
             f       == [c \in Cells |-> IF c \in queued /\ live(c) /\ c \in held
                                         THEN v.ring[c] ELSE None]
             X       == {c \in queued \ held : live(c) /\ ~ to(c).closing
                                               /\ to(c).who # v.ring[c].who}
             w       == srvrun_dgring_drain(v, held)
  <1>1. w = [v EXCEPT !.ring = f, !.wrong = @ \cup X]
    BY DEF srvrun_dgring_drain
  <1>2. v \in Table /\ v.ring \in [Cells -> {None} \cup Queued] /\ v.wrong = {}
    BY DEF Sound, Table
  <1>3. X = {}
    <2> SUFFICES ASSUME NEW c \in Cells, v.ring[c] # None, live(c), to(c).who # v.ring[c].who
                 PROVE  FALSE
      OBVIOUS
    <2>1. CellSound(v, v.ring[c]) /\ v.ring[c].slot \in TableSlots
      BY <1>2 DEF Sound, QueueSound, Queued
    <2>2. to(c).up /\ to(c).gen = v.ring[c].gen
      BY DEF srvrun_conn_gen_live
    <2>3. to(c).live
      BY <2>1, <2>2 DEF Sound, SlotSound
    <2>q. QED  BY <2>1, <2>2, <2>3 DEF CellSound
  <1>4. f \in [Cells -> {None} \cup Queued] /\ \A c \in Cells : f[c] = None \/ f[c] = v.ring[c]
    BY <1>2
  <1> HIDE DEF f, X, w
  <1>5. /\ w \in Table /\ w.ring = f /\ w.wrong = {} /\ w.slot = v.slot /\ w.n = v.n
        /\ w.opened = v.opened /\ w.told = v.told /\ SameLoop(v, w)
    BY <1>1, <1>2, <1>3, <1>4 DEF Table, SameLoop
  <1>6. w.now = v.now
    BY <1>5 DEF SameLoop
  <1>7. \A i \in TableSlots : SlotSound(w, w.slot[i])
    BY <1>5, <1>6 DEF Sound, SlotSound
  <1>8. Apart(w) /\ ToldSound(w) /\ BusyBut(w, {})
    BY <1>5 DEF Sound, Apart, ToldSound, Open, BusyBut
  <1>9. QueueSound(w)
    BY <1>4, <1>5 DEF Sound, QueueSound, CellSound
  <1>10. Sound(w)
    BY <1>5, <1>7, <1>8, <1>9 DEF Sound
  <1>q. QED  BY <1>5, <1>8, <1>10 DEF Call, w

\* A datagram is queued for the claim that has the slot now.
LEMMA PushCall ==
  ASSUME NEW v, Sound(v), BusyBut(v, {}), NEW i \in TableSlots, v.slot[i].up, NEW c \in Cells
  PROVE  Call(v, [v EXCEPT !.ring[c] = [slot |-> i, gen |-> v.slot[i].gen,
                                         who |-> v.slot[i].who]])
  <1> DEFINE e == [slot |-> i, gen |-> v.slot[i].gen, who |-> v.slot[i].who]
             f == [v.ring EXCEPT ![c] = e]
             w == [v EXCEPT !.ring[c] = e]
  <1>1. v \in Table /\ v.ring \in [Cells -> {None} \cup Queued] /\ v.wrong = {}
        /\ v.slot[i] \in Entry /\ v.n \in 0 .. MaxClaims
    BY DEF Sound, Table
  <1>2. v.slot[i].live /\ v.slot[i].who \in 1 .. v.n
    BY DEF Sound, SlotSound
  <1>3. v.slot[i].who \in Claims /\ v.slot[i].gen \in Nat
    <2>1. v.slot[i].gen \in Nat
      BY <1>1 DEF Entry
    <2>2. \A x \in 1 .. v.n : x \in Claims
      BY <1>1, TableAssumption DEF Claims
    <2>q. QED  BY <1>2, <2>1, <2>2
  <1>4. e \in Queued /\ e.slot = i /\ e.gen = v.slot[i].gen /\ e.who = v.slot[i].who
    BY <1>3 DEF Queued
  <1> HIDE DEF e
  <1>5. w = [v EXCEPT !.ring = f]
    BY <1>1 DEF Table
  <1>6. f \in [Cells -> {None} \cup Queued] /\ f[c] = e /\ \A d \in Cells : d # c => f[d] = v.ring[d]
    BY <1>1, <1>4
  <1> HIDE DEF f, w
  <1>7. /\ w \in Table /\ w.ring = f /\ w.wrong = {} /\ w.slot = v.slot /\ w.n = v.n
        /\ w.opened = v.opened /\ w.told = v.told /\ SameLoop(v, w)
    BY <1>1, <1>5, <1>6 DEF Table, SameLoop
  <1>8. w.now = v.now
    BY <1>7 DEF SameLoop
  <1>9. \A j \in TableSlots : SlotSound(w, w.slot[j])
    BY <1>7, <1>8 DEF Sound, SlotSound
  <1>10. Apart(w) /\ ToldSound(w) /\ BusyBut(w, {})
    BY <1>7 DEF Sound, Apart, ToldSound, Open, BusyBut
  <1>11. QueueSound(w)
    <2>1. CellSound(v, e)
      BY <1>3, <1>4 DEF CellSound
    <2>2. \A d \in Cells : f[d] # None => CellSound(v, f[d])
      BY <1>6, <2>1 DEF Sound, QueueSound
    <2>q. QED  BY <1>7, <2>2 DEF QueueSound, CellSound
  <1>12. Sound(w)
    BY <1>7, <1>9, <1>10, <1>11 DEF Sound
  <1>13. Call(v, w)
    BY <1>7, <1>10, <1>12 DEF Call
  <1>q. QED  BY <1>13 DEF w, e

-----------------------------------------------------------------------------
\* The actions.

LEMMA InvOfNext ==
  ASSUME Sound(t'), BusyBut(t', {}), t'.done => \A i \in TableSlots : ~ t'.slot[i].sess
  PROVE  TableInv'
  <1>1. Sound(t)'
    BY DEF Sound, SlotSound, Apart, ToldSound, Open, QueueSound, CellSound
  <1>2. BusyBut(t, {})'
    BY DEF BusyBut, srvrun_slot_busy
  <1>q. QED  BY <1>1, <1>2 DEF TableInv

LEMMA CallInv ==
  ASSUME Running, Call(t, t')
  PROVE  TableInv'
  <1>1. Sound(t') /\ BusyBut(t', {}) /\ ~ t'.done
    BY DEF Call, SameLoop, Running
  <1>q. QED  BY <1>1, InvOfNext

LEMMA TableInitInv ==
  ASSUME TableInit
  PROVE  TableInv
  <1>1. FreeSlot \in Entry
    <2>1. 0 \in 0 .. MaxClaims
      BY TableAssumption
    <2>q. QED  BY <2>1 DEF FreeSlot, Entry
  <1>2. t \in Table
    <2>1. 1 \in 1 .. MaxTime /\ 0 \in 0 .. MaxClaims
      BY TableAssumption
    <2>q. QED  BY <1>1, <2>1 DEF TableInit, Table
  <1>3. /\ t.now = 1 /\ ~ t.done /\ t.n = 0 /\ t.opened = {} /\ t.wrong = {}
        /\ \A i \in TableSlots : t.slot[i] = FreeSlot
        /\ \A c \in Cells : t.ring[c] = None
        /\ \A k \in Claims : t.told[k] = 0
    BY DEF TableInit
  <1>4. /\ ~ FreeSlot.live /\ ~ FreeSlot.up /\ ~ FreeSlot.boot /\ ~ FreeSlot.sess
        /\ FreeSlot.gen = 0 /\ FreeSlot.last = 0 /\ FreeSlot.since = 0
    BY DEF FreeSlot
  <1>5. \A i \in TableSlots : SlotSound(t, t.slot[i])
    BY <1>3, <1>4 DEF SlotSound
  <1>6. Apart(t) /\ ToldSound(t) /\ QueueSound(t) /\ BusyBut(t, {})
    BY <1>3, <1>4 DEF Apart, ToldSound, QueueSound, BusyBut
  <1>q. QED  BY <1>2, <1>3, <1>5, <1>6 DEF TableInv, Sound

LEMMA ServeIInv ==
  ASSUME TableInv, NEW p \in Clients, NEW boot \in {"ok", "pending", "failed"}, ServeI(p, boot)
  PROVE  TableInv'
  <1> DEFINE u == srvrun_sweep_idle(t)
             v == srvrun_route_or_evict(u, p)
  <1>1. Running /\ t.n < MaxClaims /\ t' = ServeSlotInitial(v, p, boot)
    BY DEF ServeI
  <1>2. Call(t, u) /\ u.n = t.n
    BY SweepCall DEF TableInv
  <1> HIDE DEF u
  <1>3. /\ Sound(v) /\ SameLoop(u, v) /\ (v.down => BusyBut(v, {}))
        /\ BusyBut(v, {i \in TableSlots : v.slot[i].live /\ v.slot[i].odcid = p})
    BY <1>1, <1>2, RouteSound DEF Call
  <1> HIDE DEF v
  <1>4. Call(v, t')
    BY <1>1, <1>3, ServeInitialCall
  <1>5. Call(t, t')
    BY <1>2, <1>3, <1>4 DEF Call, SameLoop
  <1>q. QED  BY <1>1, <1>5, CallInv

LEMMA ServePInv ==
  ASSUME TableInv, NEW k, NEW eff \in Effects, ServeP(k, eff)
  PROVE  TableInv'
  <1> DEFINE u == srvrun_sweep_idle(t)
  <1>1. Running /\ t' = ServePacket(u, k, eff)
    BY DEF ServeP
  <1>2. Call(t, u)
    BY SweepCall DEF TableInv
  <1> HIDE DEF u
  <1>3. Call(u, t')
    BY <1>1, <1>2, ServePacketCall DEF Call
  <1>4. Call(t, t')
    BY <1>2, <1>3 DEF Call, SameLoop
  <1>q. QED  BY <1>1, <1>4, CallInv

LEMMA FirePtosInv ==
  ASSUME TableInv, NEW spent, NEW held \in SUBSET Cells, srvrun_fire_ptos(spent, held)
  PROVE  TableInv'
  <1> DEFINE u == srvrun_tick_slot(t, spent)
             I == {i \in TableSlots :
                     IF t.slot[i].closing THEN srvrun_close_reap_due(t, t.slot[i])
                     ELSE i \in spent /\ srvrun_slot_busy(t.slot[i])}
  <1>1. Running /\ t' = srvrun_dgring_drain(u, held)
    BY DEF srvrun_fire_ptos
  <1>2. I \in SUBSET TableSlots /\ u = srvrun_free_slot(t, I)
    BY DEF srvrun_tick_slot
  <1> HIDE DEF u, I
  <1>3. BusyBut(t, I) /\ Sound(t)
    BY DEF TableInv, BusyBut
  <1>4. Call(t, u)
    BY <1>2, <1>3, FreeSlotCall
  <1>5. Call(u, t')
    BY <1>1, <1>4, DrainCall DEF Call
  <1>6. Call(t, t')
    BY <1>4, <1>5 DEF Call, SameLoop
  <1>q. QED  BY <1>1, <1>6, CallInv

LEMMA PushInv ==
  ASSUME TableInv, NEW i \in TableSlots, srvrun_dgring_push(i)
  PROVE  TableInv'
  <1>1. PICK c \in Cells : t' = [t EXCEPT !.ring[c] = [slot |-> i, gen |-> t.slot[i].gen,
                                                       who |-> t.slot[i].who]]
    BY DEF srvrun_dgring_push
  <1>2. Running /\ t.slot[i].up /\ Sound(t) /\ BusyBut(t, {})
    BY DEF srvrun_dgring_push, TableInv
  <1>3. Call(t, t')
    BY <1>1, <1>2, PushCall
  <1>q. QED  BY <1>2, <1>3, CallInv

LEMMA AppCloseInv ==
  ASSUME TableInv, NEW i \in TableSlots, srvrun_send_app_close(i)
  PROVE  TableInv'
  <1>1. Running /\ t' = srvrun_close_send(t, {i}) /\ Sound(t) /\ BusyBut(t, {})
    BY DEF srvrun_send_app_close, TableInv
  <1>2. Call(t, t')
    BY <1>1, CloseSendCall
  <1>q. QED  BY <1>1, <1>2, CallInv

\* Only the flags of the loop or its clock change.
LEMMA LoopInv ==
  ASSUME NEW v, Sound(v), BusyBut(v, {}), NEW w \in Table, v.now <= w.now, w.slot = v.slot,
         w.ring = v.ring, w.n = v.n, w.opened = v.opened, w.told = v.told, w.wrong = v.wrong
  PROVE  Sound(w) /\ BusyBut(w, {})
  <1>1. v.now \in Nat /\ w.now \in Nat /\ \A i \in TableSlots : v.slot[i] \in Entry
    BY TableAssumption DEF Sound, Table
  <1>2. \A i \in TableSlots : SlotSound(v, v.slot[i])
    BY DEF Sound
  <1>3. \A i \in TableSlots : w.slot[i].last <= w.now /\ w.slot[i].since <= w.now
    BY <1>1, <1>2 DEF SlotSound, Entry
  <1>4. Marked(v, w)
    BY <1>2, <1>3 DEF Marked, SameClaim, SlotSound
  <1>q. QED  BY <1>4, MarkedSound DEF BusyBut

LEMMA ShutdownInv ==
  ASSUME TableInv, Shutdown
  PROVE  TableInv'
  <1>1. Running /\ t' = [t EXCEPT !.down = TRUE] /\ Sound(t) /\ BusyBut(t, {}) /\ t \in Table
    BY DEF Shutdown, TableInv, Sound
  <1>2. /\ t' \in Table /\ t'.now = t.now /\ t'.slot = t.slot /\ t'.ring = t.ring /\ t'.n = t.n
        /\ t'.opened = t.opened /\ t'.told = t.told /\ t'.wrong = t.wrong /\ t'.done = t.done
    BY <1>1 DEF Table
  <1>3. t.now <= t'.now
    BY <1>1, <1>2, TableAssumption DEF Table
  <1>4. Sound(t') /\ BusyBut(t', {})
    BY <1>1, <1>2, <1>3, LoopInv
  <1>q. QED  BY <1>1, <1>2, <1>4, InvOfNext DEF Running

LEMMA TickInv ==
  ASSUME TableInv, Tick
  PROVE  TableInv'
  <1>1. Running /\ t.now < MaxTime /\ Sound(t) /\ BusyBut(t, {}) /\ t \in Table
    BY DEF Tick, TableInv, Sound
  <1>2. PICK m \in 1 .. MaxTime : m = t.now + 1
    BY <1>1, TableAssumption DEF Table
  <1>3. t' = [t EXCEPT !.now = m]
    BY <1>2 DEF Tick
  <1>4. /\ t' \in Table /\ t'.now = m /\ t'.slot = t.slot /\ t'.ring = t.ring /\ t'.n = t.n
        /\ t'.opened = t.opened /\ t'.told = t.told /\ t'.wrong = t.wrong /\ t'.done = t.done
    BY <1>1, <1>3 DEF Table
  <1>5. t.now <= t'.now
    <2>1. t.now \in 1 .. MaxTime
      BY <1>1 DEF Table
    <2>q. QED  BY <1>2, <1>4, <2>1, TableAssumption
  <1>6. Sound(t') /\ BusyBut(t', {})
    BY <1>1, <1>4, <1>5, LoopInv
  <1>q. QED  BY <1>1, <1>4, <1>6, InvOfNext DEF Running

\* Every session is on a slot that is up, and so is closed.
LEMMA CloseDrainedInv ==
  ASSUME TableInv, srvrun_close_drained
  PROVE  TableInv'
  <1> DEFINE I == {i \in TableSlots : t.slot[i].up}
             u == srvrun_close_send(t, I)
  <1>1. I \in SUBSET TableSlots /\ t' = [u EXCEPT !.done = TRUE] /\ Sound(t) /\ BusyBut(t, {})
    BY DEF srvrun_close_drained, TableInv
  <1>2. \A i \in TableSlots \ I : ~ t.slot[i].sess
    BY <1>1 DEF Sound, SlotSound
  <1> HIDE DEF I
  <1>3. Call(t, u)
    BY <1>1, CloseSendCall
  <1>4. \A i \in TableSlots : ~ u.slot[i].sess
    <2>1. (\A i \in TableSlots \ I : u.slot[i] = t.slot[i]) /\ \A i \in I : ~ u.slot[i].sess
      BY <1>1, CloseSendSound
    <2>q. QED  BY <1>1, <1>2, <2>1
  <1> HIDE DEF u
  <1>5. Sound(u) /\ BusyBut(u, {}) /\ u \in Table
    BY <1>3 DEF Call, Sound
  <1>6. /\ t' \in Table /\ t'.now = u.now /\ t'.slot = u.slot /\ t'.ring = u.ring /\ t'.n = u.n
        /\ t'.opened = u.opened /\ t'.told = u.told /\ t'.wrong = u.wrong
    BY <1>1, <1>5 DEF Table
  <1>7. u.now <= t'.now
    BY <1>5, <1>6, TableAssumption DEF Table
  <1>8. Sound(t') /\ BusyBut(t', {})
    BY <1>5, <1>6, <1>7, LoopInv
  <1>q. QED  BY <1>4, <1>6, <1>8, InvOfNext

\* The inductive invariant: one step per action.
LEMMA TableInvKept ==
  ASSUME TableInv, [TableNext]_tableVars
  PROVE  TableInv'
  <1>1. CASE UNCHANGED tableVars
    <2>1. t' = t
      BY <1>1 DEF tableVars
    <2>q. QED  BY <2>1, InvOfNext DEF TableInv
  <1>2. CASE \E p \in Clients, boot \in {"ok", "pending", "failed"} : ServeI(p, boot)
    BY <1>2, ServeIInv
  <1>3. CASE \E k \in Claims, eff \in Effects : ServeP(k, eff)
    BY <1>3, ServePInv
  <1>4. CASE \E spent \in SUBSET TableSlots, held \in SUBSET Cells : srvrun_fire_ptos(spent, held)
    BY <1>4, FirePtosInv
  <1>5. CASE \E i \in TableSlots : srvrun_dgring_push(i) \/ srvrun_send_app_close(i)
    BY <1>5, PushInv, AppCloseInv
  <1>6. CASE Shutdown \/ srvrun_close_drained \/ Tick
    BY <1>6, ShutdownInv, CloseDrainedInv, TickInv
  <1>q. QED  BY <1>1, <1>2, <1>3, <1>4, <1>5, <1>6 DEF TableNext

-----------------------------------------------------------------------------
\* The results.

\* The invariant of the connection table: every slot in use belongs to one claim of one
\* client, sessions live on slots that are up and not closing, and a queued datagram
\* names a generation of its slot (srvrun_free_slot, srvrun_open_slot, srvrun_close_send).
THEOREM TableInvariant == TableSpec => []TableInv
  <1>1. TableInit => TableInv
    BY TableInitInv
  <1>2. TableInv /\ [TableNext]_tableVars => TableInv'
    BY TableInvKept
  <1>q. QED  BY <1>1, <1>2, PTL DEF TableSpec

\* The types: generations and claim numbers stay within the number of claims, and a queued
\* datagram names a slot, a generation and a claim.
THEOREM TableTypeCorrect == TableSpec => []TableTypeOK
  <1>1. TableInv => TableTypeOK
    <2> SUFFICES ASSUME TableInv PROVE TableTypeOK
      OBVIOUS
    <2>1. t \in Table /\ \A i \in TableSlots : SlotSound(t, t.slot[i])
      BY DEF TableInv, Sound
    <2>2. t.now \in 1 .. MaxTime /\ {t.done, t.down} \subseteq BOOLEAN /\ t.n \in 0 .. MaxClaims
      BY <2>1 DEF Table
    <2> DEFINE E == [live : BOOLEAN, who : 0 .. MaxClaims,
                     odcid : Clients \cup {None}, gen : 0 .. MaxClaims, up : BOOLEAN,
                     boot : BOOLEAN, conf : BOOLEAN, closing : BOOLEAN, until : Nat,
                     last : 0 .. MaxTime, since : 0 .. MaxTime, sess : BOOLEAN]
    <2>3. ASSUME NEW i \in TableSlots
          PROVE  t.slot[i] \in E /\ t.slot[i].gen \in 0 .. MaxClaims
      <3>1. t.slot[i] \in Entry
        BY <2>1 DEF Table
      <3>2. t.slot[i].gen <= t.n /\ t.slot[i].last <= t.now /\ t.slot[i].since <= t.now
        BY <2>1 DEF SlotSound
      <3>3. t.slot[i].gen \in Nat /\ t.slot[i].last \in Nat /\ t.slot[i].since \in Nat
        BY <3>1 DEF Entry
      <3>4. /\ t.slot[i].gen \in 0 .. MaxClaims /\ t.slot[i].last \in 0 .. MaxTime
            /\ t.slot[i].since \in 0 .. MaxTime
        BY <2>2, <3>2, <3>3, TableAssumption
      <3>q. QED  BY <3>1, <3>4 DEF Entry
    <2>4. t.slot \in [TableSlots -> E]
      BY <2>1, <2>3 DEF Table
    <2> HIDE DEF E
    <2>5. ASSUME NEW c \in Cells, t.ring[c] # None
          PROVE  t.ring[c] \in [slot : TableSlots, gen : 0 .. MaxClaims, who : Claims]
      <3>1. t.ring[c] \in Queued /\ CellSound(t, t.ring[c])
        BY <2>1, <2>5 DEF Table, TableInv, Sound, QueueSound
      <3>2. t.ring[c].gen \in Nat /\ t.ring[c].slot \in TableSlots
        BY <3>1 DEF Queued
      <3>3. t.ring[c].gen <= t.slot[t.ring[c].slot].gen
        BY <3>1 DEF CellSound
      <3>4. t.ring[c].gen \in 0 .. MaxClaims
        <4>1. t.slot[t.ring[c].slot].gen \in 0 .. MaxClaims
          BY <2>3, <3>2
        <4>q. QED  BY <3>2, <3>3, <4>1, TableAssumption
      <3>q. QED  BY <3>1, <3>4 DEF Queued
    <2>6. t.ring \in [Cells -> {None} \cup [slot : TableSlots, gen : 0 .. MaxClaims, who : Claims]]
      BY <2>1, <2>5 DEF Table
    <2>q. QED  BY <2>2, <2>4, <2>6 DEF TableTypeOK, E
  <1>q. QED  BY <1>1, TableInvariant, PTL

\* Each session hears of its end exactly once, whether its connection is closed by either
\* side, times out, is evicted or is still open when the server stops
\* (srvrun_close_all_wt in srvrun_free_slot and srvrun_close_send).
THEOREM SessionsHearOnce == TableSpec => []SessionToldOnce
  <1>1. TableInv => SessionToldOnce
    <2> SUFFICES ASSUME TableInv, NEW k \in t.opened
                 PROVE  /\ t.told[k] = (IF Open(t, k) THEN 0 ELSE 1)
                        /\ t.done => ~ Open(t, k)
      BY DEF SessionToldOnce, Open
    <2>1. k \in Claims
      BY DEF TableInv, Sound, Table
    <2>2. t.told[k] = IF k \in t.opened /\ ~ Open(t, k) THEN 1 ELSE 0
      BY <2>1 DEF TableInv, Sound, ToldSound
    <2>3. t.done => ~ Open(t, k)
      BY DEF TableInv, Open
    <2>q. QED  BY <2>2, <2>3
  <1>q. QED  BY <1>1, TableInvariant, PTL

\* A queued datagram is never sent to another connection than the one it was queued for,
\* however often its slot was claimed since: the generation tells them apart
\* (srvrun_conn_gen_live).
THEOREM DatagramsToTheirOwner == TableSpec => []RingToOwner
  <1>1. TableInv => RingToOwner
    BY DEF TableInv, Sound, RingToOwner
  <1>q. QED  BY <1>1, TableInvariant, PTL

\* No entry of the table is left behind by a boot that failed or was refused, and no client
\* has two (srvrun_open_done, srvrun_route_or_evict).
THEOREM NoEntryLeaks == TableSpec => []NoLeakedEntry
  <1>1. TableInv => NoLeakedEntry
    <2> SUFFICES ASSUME TableInv PROVE NoLeakedEntry
      OBVIOUS
    <2>1. \A i \in TableSlots : (srvrun_slot_busy(t.slot[i]) => t.slot[i].live)
      BY DEF TableInv, Sound, SlotSound, srvrun_slot_busy
    <2>2. \A i \in TableSlots : (t.slot[i].live => srvrun_slot_busy(t.slot[i]))
      BY DEF TableInv, BusyBut
    <2>3. Apart(t) /\ \A i \in TableSlots : t.slot[i].live \in BOOLEAN
      BY DEF TableInv, Sound, Table, Entry
    <2>q. QED  BY <2>1, <2>2, <2>3 DEF NoLeakedEntry, Apart, srvrun_slot_busy
  <1>q. QED  BY <1>1, TableInvariant, PTL

-----------------------------------------------------------------------------
\* The boot and its anti-amplification limit.

Tags == {"none", "hrr", "ini", "ack", "ping", "ping1", "done", "bye"}
ToClient == {<<x>> : x \in Tags} \cup ({"hs"} \X Nat)
ToServer == {<<"hs">>, <<"fin">>, <<"one">>} \cup ({"ch"} \X (1 .. 3) \X BOOLEAN)

Boot ==
  [open : Openings, up : BOOLEAN, hello : SUBSET (1 .. 3), alt : BOOLEAN,
   ini : {"none", "hrr", "ini"}, sent : Nat, flip : BOOLEAN, hsSeen : BOOLEAN,
   conf : BOOLEAN, onertt : BOOLEAN, count : 0 .. PtoMax - 1, credit : Int, out : Nat,
   gone : BOOLEAN, toServer : SUBSET ToServer, toClient : SUBSET ToClient, drops : Nat,
   has : SUBSET ToClient, done : BOOLEAN, bye : Nat]

\* The server has sent no more of the flight than there is, and is within its budget as
\* long as it has one.
Good(v) ==
  v \in Boot /\ v.sent <= FlightLen(v) /\ (~ srvrun_path_validated(v) => v.credit >= 0)

\* One part of a call turns v into w.
Same(v, w) == w.open = v.open /\ w.has = v.has /\ w.bye = v.bye
To(v, w) == Good(w) /\ Same(v, w)

LEMMA Reflexive == \A v : Good(v) => To(v, v)
  BY DEF To, Same

LEMMA Transitive == \A u, v, w : To(u, v) /\ To(v, w) => To(u, w)
  BY DEF To, Same

\* srvrun_boot_send, of datagrams that the gate lets through.
LEMMA SendGood ==
  ASSUME NEW v, Good(v), NEW D \in SUBSET ToClient, Cardinality(D) \in Nat,
         NEW size \in Int, srvrun_path_validated(v) \/ size <= v.credit
  PROVE  /\ To(v, srvrun_boot_send(v, D, size))
         /\ srvrun_boot_send(v, D, size).sent = v.sent
         /\ srvrun_path_validated(srvrun_boot_send(v, D, size)) = srvrun_path_validated(v)
  <1> DEFINE c == IF srvrun_path_validated(v) THEN v.credit ELSE v.credit - size
             w == [v EXCEPT !.toClient = @ \cup D, !.out = @ + Cardinality(D), !.credit = c]
  <1>1. srvrun_boot_send(v, D, size) = w
    BY DEF srvrun_boot_send
  <1>2. v \in Boot /\ v.credit \in Int /\ v.out \in Nat /\ v.toClient \subseteq ToClient
    BY DEF Good, Boot
  <1>3. c \in Int /\ v.out + Cardinality(D) \in Nat /\ v.toClient \cup D \subseteq ToClient
    BY <1>2
  <1>4. ~ srvrun_path_validated(v) => c >= 0
    BY <1>2
  <1> HIDE DEF c
  <1>5. w \in Boot
    BY <1>2, <1>3 DEF Boot
  <1>6. /\ w.open = v.open /\ w.has = v.has /\ w.bye = v.bye /\ w.sent = v.sent /\ w.conf = v.conf
        /\ w.hsSeen = v.hsSeen /\ w.credit = c
    BY <1>2 DEF Boot
  <1> HIDE DEF w
  <1>7. FlightLen(w) = FlightLen(v) /\ srvrun_path_validated(w) = srvrun_path_validated(v)
    BY <1>6 DEF FlightLen, srvrun_path_validated
  <1>8. Good(w)
    BY <1>4, <1>5, <1>6, <1>7 DEF Good
  <1>q. QED  BY <1>1, <1>6, <1>7, <1>8 DEF To, Same

LEMMA GatedGood ==
  ASSUME NEW v, Good(v), NEW m \in ToClient, NEW size \in Nat
  PROVE  To(v, Gated(v, m, size))
  <1>0. v.credit \in Int
    BY DEF Good, Boot
  <1>1. CASE srvrun_boot_gate_blocks(v, size)
    BY <1>1, Reflexive DEF Gated
  <1>2. CASE ~ srvrun_boot_gate_blocks(v, size)
    <2>1. srvrun_path_validated(v) \/ size <= v.credit
      BY <1>0, <1>2 DEF srvrun_boot_gate_blocks
    <2>2. {m} \in SUBSET ToClient /\ Cardinality({m}) \in Nat
      BY FS_Singleton
    <2>3. To(v, srvrun_boot_send(v, {m}, size))
      BY <2>1, <2>2, SendGood
    <2>q. QED  BY <1>2, <2>3 DEF Gated
  <1>q. QED  BY <1>1, <1>2

LEMMA Tagged == \A x \in Tags : <<x>> \in ToClient
  BY DEF ToClient

LEMMA InitialGood ==
  ASSUME NEW v, Good(v)
  PROVE  To(v, srvrun_boot_send_initial(v))
  <1>1. v.ini \in Tags
    BY DEF Good, Boot, Tags
  <1>2. <<v.ini>> \in ToClient /\ Initial \in Nat
    BY <1>1, Tagged, BootAssumption
  <1>3. To(v, Gated(v, <<v.ini>>, Initial))
    BY <1>2, GatedGood
  <1>q. QED  BY <1>3, Reflexive DEF srvrun_boot_send_initial

\* The flight is sent as far as the budget reaches.
LEMMA FlightGood ==
  ASSUME NEW v, Good(v)
  PROVE  To(v, srvrun_boot_send_hs_gated(v))
  <1> DEFINE bytes(k) == srvrun_boot_sent_off(v, k) - srvrun_boot_sent_off(v, v.sent)
             S        == {k \in v.sent .. FlightLen(v) :
                            k = v.sent \/ ~ srvrun_boot_gate_blocks(v, bytes(k))}
             next     == Max(S)
             D        == {"hs"} \X (v.sent + 1 .. next)
             u        == srvrun_boot_send(v, D, bytes(next))
  <1>0. v \in Boot /\ v.sent \in Nat /\ FlightLen(v) \in Nat /\ v.sent <= FlightLen(v) /\ v.credit \in Int
        /\ v.open.flight \in Seq(Nat)
    <2>1. v \in Boot /\ v.sent \in Nat /\ v.sent <= FlightLen(v) /\ v.credit \in Int /\ v.open \in Opening
      BY BootAssumption DEF Good, Boot
    <2>2. v.open.flight \in Seq(Nat)
      BY <2>1 DEF Opening
    <2>3. FlightLen(v) \in Nat
      BY <2>2 DEF FlightLen
    <2>q. QED  BY <2>1, <2>2, <2>3
  <1>1. \A k \in 0 .. FlightLen(v) : srvrun_boot_sent_off(v, k) \in Nat
    BY <1>0 DEF srvrun_boot_sent_off, FlightLen
  <1>2. S \in SUBSET (0 .. FlightLen(v)) /\ v.sent \in S
    BY <1>0
  <1>3. next \in S
    <2> HIDE DEF S
    <2>q. QED  BY <1>0, <1>2, MaxIs
  <1>4. next \in Nat /\ v.sent <= next /\ next <= FlightLen(v) /\ bytes(next) \in Int /\ bytes(v.sent) = 0
    <2>1. next \in v.sent .. FlightLen(v)
      BY <1>3
    <2> HIDE DEF next
    <2>q. QED  BY <1>0, <1>1, <2>1
  <1>5. srvrun_path_validated(v) \/ bytes(next) <= v.credit
    <2>1. next = v.sent \/ ~ srvrun_boot_gate_blocks(v, bytes(next))
      BY <1>3
    <2>2. ~ srvrun_path_validated(v) => v.credit >= 0
      BY DEF Good
    <2> DEFINE size == bytes(next)
    <2>3. next = v.sent => size = 0
      BY <1>4
    <2>4. size \in Int
      BY <1>4
    <2> HIDE DEF next, size
    <2>5. next # v.sent => srvrun_path_validated(v) \/ ~ (size > v.credit)
      BY <2>1 DEF srvrun_boot_gate_blocks, size
    <2>6. srvrun_path_validated(v) \/ size <= v.credit
      BY <1>0, <2>2, <2>3, <2>4, <2>5
    <2>q. QED  BY <2>6 DEF size
  <1>6. D \in SUBSET ToClient /\ Cardinality(D) \in Nat
    <2> HIDE DEF next
    <2>1. \A i \in v.sent + 1 .. next : i \in Nat
      BY <1>0, <1>4
    <2>2. D \in SUBSET ToClient
      BY <2>1 DEF ToClient
    <2>3. v.sent + 1 \in Int /\ next \in Int
      BY <1>0, <1>4
    <2>4. IsFiniteSet(v.sent + 1 .. next) /\ IsFiniteSet({"hs"})
      BY <2>3, FS_Interval, FS_Singleton
    <2>5. IsFiniteSet(D)
      BY <2>4, FS_Product
    <2>q. QED  BY <2>2, <2>5, FS_CardinalityType
  <1> HIDE DEF bytes, D, next
  <1>7. /\ To(v, u) /\ u.sent = v.sent
        /\ srvrun_path_validated(u) = srvrun_path_validated(v)
    BY <1>4, <1>5, <1>6, SendGood
  <1> HIDE DEF u
  <1> DEFINE w == [u EXCEPT !.sent = next]
  <1>8. u \in Boot /\ u.open = v.open
    BY <1>7 DEF To, Same, Good
  <1>9. w \in Boot
    BY <1>4, <1>8 DEF Boot
  <1>10. /\ w.open = u.open /\ w.has = u.has /\ w.bye = u.bye /\ w.sent = next /\ w.conf = u.conf
         /\ w.hsSeen = u.hsSeen /\ w.credit = u.credit
    BY <1>8 DEF Boot
  <1> HIDE DEF w
  <1>11. FlightLen(w) = FlightLen(v) /\ srvrun_path_validated(w) = srvrun_path_validated(u)
    BY <1>8, <1>10 DEF FlightLen, srvrun_path_validated
  <1>12. To(v, w)
    BY <1>4, <1>7, <1>9, <1>10, <1>11 DEF To, Same, Good
  <1>13. srvrun_boot_send_hs_gated(v) = IF ~ v.up THEN v ELSE w
    BY DEF srvrun_boot_send_hs_gated, w, u, D, next, bytes
  <1>q. QED  BY <1>12, <1>13, Reflexive

\* A field that the budget does not depend on may change.
LEMMA OtherFields ==
  ASSUME NEW v, Good(v), NEW w \in Boot,
         w.open = v.open, w.has = v.has, w.bye = v.bye, w.credit = v.credit,
         w.sent = v.sent \/ w.sent = 0,
         v.conf => w.conf, v.hsSeen => w.hsSeen
  PROVE  To(v, w)
  <1>0. v.conf \in BOOLEAN /\ v.hsSeen \in BOOLEAN /\ w.conf \in BOOLEAN /\ w.hsSeen \in BOOLEAN
    BY DEF Good, Boot
  <1>1. srvrun_path_validated(v) => srvrun_path_validated(w)
    BY <1>0 DEF srvrun_path_validated
  <1>2. FlightLen(w) = FlightLen(v) /\ FlightLen(v) \in Nat
    <2>1. v.open.flight \in Seq(Nat)
      BY BootAssumption DEF Good, Boot, Opening
    <2>q. QED  BY <2>1 DEF FlightLen
  <1>3. w.sent <= FlightLen(w)
    BY <1>2 DEF Good
  <1>q. QED  BY <1>1, <1>3 DEF To, Same, Good

-----------------------------------------------------------------------------
\* Resending.

LEMMA ResendHsGood ==
  ASSUME NEW v, Good(v)
  PROVE  To(v, srvrun_resend_hs(v))
  <1> DEFINE n == IF v.sent = FlightLen(v) THEN 0 ELSE v.sent
             w == [v EXCEPT !.sent = n]
  <1>1. v \in Boot /\ n \in Nat
    BY DEF Good, Boot
  <1>2. n = v.sent \/ n = 0
    OBVIOUS
  <1> HIDE DEF n
  <1>3. /\ w \in Boot /\ w.open = v.open /\ w.has = v.has /\ w.bye = v.bye
        /\ w.credit = v.credit /\ w.sent = n
        /\ w.conf = v.conf /\ w.hsSeen = v.hsSeen
    BY <1>1 DEF Boot
  <1>4. srvrun_resend_hs(v) = srvrun_boot_send_hs_gated(w)
    BY DEF srvrun_resend_hs, n
  <1> HIDE DEF w
  <1>5. To(v, w)
    BY <1>2, <1>3, OtherFields
  <1>6. To(w, srvrun_boot_send_hs_gated(w))
    BY <1>5, FlightGood DEF To
  <1>q. QED  BY <1>4, <1>5, <1>6, Transitive

LEMMA ProbeGood ==
  ASSUME NEW v, Good(v)
  PROVE  To(v, srvrun_boot_hs_probe(v))
  <1>1. <<"ping">> \in ToClient /\ 1 \in Nat
    BY Tagged DEF Tags
  <1>2. To(v, Gated(v, <<"ping">>, 1))
    BY <1>1, GatedGood
  <1>q. QED  BY <1>2, Reflexive DEF srvrun_boot_hs_probe

\* The bookkeeping at the start and at the end of a call.
LEMMA OutReset ==
  ASSUME NEW v, Good(v)
  PROVE  To(v, [v EXCEPT !.out = 0])
  <1> DEFINE w == [v EXCEPT !.out = 0]
  <1>1. v \in Boot
    BY DEF Good
  <1>2. /\ w \in Boot /\ w.open = v.open /\ w.has = v.has /\ w.bye = v.bye /\ w.credit = v.credit
        /\ w.sent = v.sent /\ w.conf = v.conf /\ w.hsSeen = v.hsSeen
    BY <1>1 DEF Boot
  <1> HIDE DEF w
  <1>3. To(v, w)
    BY <1>2, OtherFields
  <1>q. QED  BY <1>3 DEF w

LEMMA CountSet ==
  ASSUME NEW v, Good(v), NEW n \in 0 .. PtoMax - 1
  PROVE  To(v, [v EXCEPT !.count = n])
  <1> DEFINE w == [v EXCEPT !.count = n]
  <1>1. v \in Boot
    BY DEF Good
  <1>2. /\ w \in Boot /\ w.open = v.open /\ w.has = v.has /\ w.bye = v.bye /\ w.credit = v.credit
        /\ w.sent = v.sent /\ w.conf = v.conf /\ w.hsSeen = v.hsSeen
    BY <1>1 DEF Boot
  <1> HIDE DEF w
  <1>3. To(v, w)
    BY <1>2, OtherFields
  <1>q. QED  BY <1>3 DEF w

LEMMA FlipSet ==
  ASSUME NEW v, Good(v), NEW f \in BOOLEAN, NEW n \in 0 .. PtoMax - 1
  PROVE  To(v, [v EXCEPT !.flip = f, !.count = n])
  <1> DEFINE w == [v EXCEPT !.flip = f, !.count = n]
  <1>1. v \in Boot
    BY DEF Good
  <1>2. /\ w \in Boot /\ w.open = v.open /\ w.has = v.has /\ w.bye = v.bye /\ w.credit = v.credit
        /\ w.sent = v.sent /\ w.conf = v.conf /\ w.hsSeen = v.hsSeen
    BY <1>1 DEF Boot
  <1> HIDE DEF w
  <1>3. To(v, w)
    BY <1>2, OtherFields
  <1>q. QED  BY <1>3 DEF w

LEMMA ResendGood ==
  ASSUME NEW v, Good(v)
  PROVE  To(v, srvrun_resend_boot_flight(v))
  <1> DEFINE w     == [v EXCEPT !.out = 0]
             parts == IF v.flip THEN srvrun_boot_send_initial(srvrun_resend_hs(w))
                      ELSE srvrun_resend_hs(srvrun_boot_send_initial(w))
             any   == IF parts.out > 0 THEN parts ELSE srvrun_boot_hs_probe(parts)
             n     == IF any.out > 0 THEN 0 ELSE any.count
  <1>1. srvrun_resend_boot_flight(v) = [any EXCEPT !.flip = ~ any.flip, !.count = n]
    BY DEF srvrun_resend_boot_flight
  <1>2. To(v, w)
    BY OutReset
  <1> HIDE DEF w
  <1>3. To(w, srvrun_boot_send_initial(srvrun_resend_hs(w)))
    <2>1. To(w, srvrun_resend_hs(w))
      BY <1>2, ResendHsGood DEF To
    <2>2. To(srvrun_resend_hs(w), srvrun_boot_send_initial(srvrun_resend_hs(w)))
      BY <2>1, InitialGood DEF To
    <2>q. QED  BY <2>1, <2>2, Transitive
  <1>4. To(w, srvrun_resend_hs(srvrun_boot_send_initial(w)))
    <2>1. To(w, srvrun_boot_send_initial(w))
      BY <1>2, InitialGood DEF To
    <2>2. To(srvrun_boot_send_initial(w), srvrun_resend_hs(srvrun_boot_send_initial(w)))
      BY <2>1, ResendHsGood DEF To
    <2>q. QED  BY <2>1, <2>2, Transitive
  <1>5. To(w, parts)
    BY <1>3, <1>4
  <1> HIDE DEF parts
  <1>6. To(parts, any)
    BY <1>5, ProbeGood, Reflexive DEF To
  <1> HIDE DEF any
  <1>7. any \in Boot
    BY <1>6 DEF To, Good
  <1>8. (~ any.flip) \in BOOLEAN /\ n \in 0 .. PtoMax - 1
    <2>1. any.count \in 0 .. PtoMax - 1 /\ 0 \in 0 .. PtoMax - 1 /\ any.out \in Nat
      BY <1>7, BootAssumption DEF Boot
    <2>q. QED  BY <2>1
  <1> HIDE DEF n
  <1>9. To(any, [any EXCEPT !.flip = ~ any.flip, !.count = n])
    BY <1>6, <1>8, FlipSet DEF To
  <1>q. QED  BY <1>1, <1>2, <1>5, <1>6, <1>9, Transitive

LEMMA ReplayGood ==
  ASSUME NEW v, Good(v)
  PROVE  To(v, srvrun_boot_probe_or_replay(v))
  <1>1. CASE ~ (v.onertt /\ ~ srvrun_boot_gate_blocks(v, 1))
    BY <1>1, ResendGood DEF srvrun_boot_probe_or_replay
  <1>2. CASE v.onertt /\ ~ srvrun_boot_gate_blocks(v, 1)
    <2> DEFINE w == [v EXCEPT !.out = 0]
               u == srvrun_boot_send(w, {<<"ping1">>}, 1)
    <2>1. srvrun_boot_probe_or_replay(v) = [u EXCEPT !.count = 0]
      BY <1>2 DEF srvrun_boot_probe_or_replay
    <2>2. To(v, w)
      BY OutReset
    <2>3. v \in Boot /\ v.credit \in Int
      BY DEF Good, Boot
    <2>4. w.credit = v.credit /\ srvrun_path_validated(w) = srvrun_path_validated(v)
      BY <2>3 DEF srvrun_path_validated, Boot
    <2> HIDE DEF w
    <2>5. srvrun_path_validated(w) \/ 1 <= w.credit
      BY <1>2, <2>3, <2>4 DEF srvrun_boot_gate_blocks
    <2>6. {<<"ping1">>} \in SUBSET ToClient /\ Cardinality({<<"ping1">>}) \in Nat
      <3>1. <<"ping1">> \in ToClient
        BY Tagged DEF Tags
      <3>2. \A m \in ToClient : {m} \in SUBSET ToClient /\ Cardinality({m}) = 1
        BY FS_Singleton
      <3>q. QED  BY <3>1, <3>2
    <2>7. To(w, u)
      BY <2>2, <2>5, <2>6, SendGood DEF To
    <2> HIDE DEF u
    <2>8. 0 \in 0 .. PtoMax - 1
      BY BootAssumption
    <2>9. To(u, [u EXCEPT !.count = 0])
      BY <2>7, <2>8, CountSet DEF To
    <2>q. QED  BY <2>1, <2>2, <2>7, <2>9, Transitive
  <1>q. QED  BY <1>1, <1>2

-----------------------------------------------------------------------------
\* The ClientHello.

LEMMA PartialAckGood ==
  ASSUME NEW v, Good(v)
  PROVE  To(v, srvrun_boot_partial_ack(v))
  <1>1. CASE srvrun_boot_gate_blocks(v, 1)
    BY <1>1, Reflexive DEF srvrun_boot_partial_ack
  <1>2. CASE ~ srvrun_boot_gate_blocks(v, 1)
    <2> DEFINE w == [v EXCEPT !.alt = TRUE]
    <2>1. srvrun_boot_partial_ack(v) = srvrun_boot_send(w, {<<"ack">>}, 1)
      BY <1>2 DEF srvrun_boot_partial_ack
    <2>2. v \in Boot /\ v.credit \in Int
      BY DEF Good, Boot
    <2>3. /\ w \in Boot /\ w.open = v.open /\ w.has = v.has /\ w.bye = v.bye /\ w.credit = v.credit
          /\ w.sent = v.sent /\ w.conf = v.conf /\ w.hsSeen = v.hsSeen
      BY <2>2 DEF Boot
    <2> HIDE DEF w
    <2>4. To(v, w) /\ srvrun_path_validated(w) = srvrun_path_validated(v)
      BY <2>3, OtherFields DEF srvrun_path_validated
    <2>5. srvrun_path_validated(w) \/ 1 <= w.credit
      BY <1>2, <2>2, <2>3, <2>4 DEF srvrun_boot_gate_blocks
    <2>6. {<<"ack">>} \in SUBSET ToClient /\ Cardinality({<<"ack">>}) \in Nat
      <3>1. <<"ack">> \in ToClient
        BY Tagged DEF Tags
      <3>2. \A m \in ToClient : {m} \in SUBSET ToClient /\ Cardinality({m}) = 1
        BY FS_Singleton
      <3>q. QED  BY <3>1, <3>2
    <2>7. To(w, srvrun_boot_send(w, {<<"ack">>}, 1))
      BY <2>4, <2>5, <2>6, SendGood DEF To
    <2>q. QED  BY <2>1, <2>4, <2>7, Transitive
  <1>q. QED  BY <1>1, <1>2

LEMMA HrrGood ==
  ASSUME NEW v, Good(v)
  PROVE  To(v, srvrun_boot_hrr_sent(v))
  <1> DEFINE w == [v EXCEPT !.ini = "hrr"]
             u == srvrun_boot_send_initial(w)
  <1>1. srvrun_boot_hrr_sent(v) = [u EXCEPT !.count = 0]
    BY DEF srvrun_boot_hrr_sent
  <1>2. v \in Boot
    BY DEF Good
  <1>3. /\ w \in Boot /\ w.open = v.open /\ w.has = v.has /\ w.bye = v.bye /\ w.credit = v.credit
        /\ w.sent = v.sent /\ w.conf = v.conf /\ w.hsSeen = v.hsSeen
    BY <1>2 DEF Boot
  <1> HIDE DEF w
  <1>4. To(v, w)
    BY <1>3, OtherFields
  <1>5. To(w, u)
    BY <1>4, InitialGood DEF To
  <1> HIDE DEF u
  <1>6. 0 \in 0 .. PtoMax - 1
    BY BootAssumption
  <1>7. To(u, [u EXCEPT !.count = 0])
    BY <1>5, <1>6, CountSet DEF To
  <1>q. QED  BY <1>1, <1>4, <1>5, <1>7, Transitive

LEMMA UpGood ==
  ASSUME NEW v, Good(v)
  PROVE  To(v, srvrun_boot_up(v))
  <1> DEFINE w == [v EXCEPT !.up = TRUE, !.ini = "ini", !.sent = 0]
             u == srvrun_boot_send_initial(w)
             x == srvrun_boot_send_hs_gated(u)
             y == [x EXCEPT !.count = 0, !.hello = {}, !.alt = FALSE]
  <1>1. srvrun_boot_up(v) = y
    BY DEF srvrun_boot_up
  <1>2. v \in Boot
    BY DEF Good
  <1>3. /\ w \in Boot /\ w.open = v.open /\ w.has = v.has /\ w.bye = v.bye /\ w.credit = v.credit
        /\ w.sent = 0 /\ w.conf = v.conf /\ w.hsSeen = v.hsSeen
    BY <1>2 DEF Boot
  <1> HIDE DEF w
  <1>4. To(v, w)
    BY <1>3, OtherFields
  <1>5. To(w, u)
    BY <1>4, InitialGood DEF To
  <1> HIDE DEF u
  <1>6. To(u, x)
    BY <1>5, FlightGood DEF To
  <1> HIDE DEF x
  <1>7. 0 \in 0 .. PtoMax - 1 /\ x \in Boot
    BY <1>6, BootAssumption DEF To, Good
  <1>8. /\ y \in Boot /\ y.open = x.open /\ y.has = x.has /\ y.bye = x.bye /\ y.credit = x.credit
        /\ y.sent = x.sent /\ y.conf = x.conf /\ y.hsSeen = x.hsSeen
    BY <1>7 DEF Boot
  <1> HIDE DEF y
  <1>9. To(x, y)
    BY <1>6, <1>8, OtherFields DEF To
  <1>q. QED  BY <1>1, <1>4, <1>5, <1>6, <1>9, Transitive

LEMMA ColdGood ==
  ASSUME NEW v, Good(v), NEW part \in 1 .. 3, NEW toScid
  PROVE  To(v, srvrun_cold_start(v, part, toScid))
  <1> DEFINE had  == v.ini = "hrr"
             fits == ~ toScid \/ v.alt
             more == [v EXCEPT !.hello = @ \cup {part}]
             fed  == IF fits THEN more ELSE v
             done == fits /\ wired_srvboot_acc_complete(fed)
             w    == IF done THEN srvrun_boot_hrr_sent(fed) ELSE fed
  <1>1. srvrun_cold_start(v, part, toScid) =
          IF done /\ (had \/ ~ v.open.retry) THEN srvrun_boot_up(fed)
          ELSE IF had THEN srvrun_resend_boot_flight(w) ELSE srvrun_boot_partial_ack(w)
    BY DEF srvrun_cold_start
  <1>2. v \in Boot
    BY DEF Good
  <1>3. /\ more \in Boot /\ more.open = v.open /\ more.has = v.has /\ more.bye = v.bye
        /\ more.credit = v.credit
        /\ more.sent = v.sent /\ more.conf = v.conf /\ more.hsSeen = v.hsSeen
    BY <1>2 DEF Boot
  <1> HIDE DEF more
  <1>4. To(v, fed)
    BY <1>3, OtherFields, Reflexive
  <1> HIDE DEF fed, fits, had, done
  <1>5. To(fed, w)
    BY <1>4, HrrGood, Reflexive DEF To
  <1> HIDE DEF w
  <1>6. /\ To(fed, srvrun_boot_up(fed))
        /\ To(w, srvrun_resend_boot_flight(w)) /\ To(w, srvrun_boot_partial_ack(w))
    BY <1>4, <1>5, UpGood, ResendGood, PartialAckGood DEF To
  <1>q. QED  BY <1>1, <1>4, <1>5, <1>6, Transitive

-----------------------------------------------------------------------------
\* A datagram from the client.

LEMMA ReleaseGood ==
  ASSUME NEW v, Good(v)
  PROVE  To(v, srvrun_boot_release_pending(v))
  BY FlightGood, Reflexive DEF srvrun_boot_release_pending

LEMMA ServeInitialGood ==
  ASSUME NEW v, Good(v), NEW part \in 1 .. 3, NEW toScid \in BOOLEAN
  PROVE  To(v, ServeInitial(v, part, toScid))
  <1> DEFINE w == [v EXCEPT !.flip = toScid]
  <1>1. v \in Boot
    BY DEF Good
  <1>2. /\ w \in Boot /\ w.open = v.open /\ w.has = v.has /\ w.bye = v.bye /\ w.credit = v.credit
        /\ w.sent = v.sent /\ w.conf = v.conf /\ w.hsSeen = v.hsSeen
    BY <1>1 DEF Boot
  <1>3. ServeInitial(v, part, toScid) =
          IF ~ v.up THEN srvrun_cold_start(v, part, toScid)
          ELSE IF srvrun_awaiting_confirm(v) /\ ~ v.hsSeen THEN srvrun_resend_boot_flight(w)
          ELSE srvrun_boot_release_pending(v)
    BY DEF ServeInitial
  <1> HIDE DEF w
  <1>4. To(v, w)
    BY <1>2, OtherFields
  <1>5. To(w, srvrun_resend_boot_flight(w))
    BY <1>4, ResendGood DEF To
  <1>6. To(v, srvrun_resend_boot_flight(w))
    BY <1>4, <1>5, Transitive
  <1>7. To(v, srvrun_cold_start(v, part, toScid)) /\ To(v, srvrun_boot_release_pending(v))
    BY ColdGood, ReleaseGood
  <1>q. QED  BY <1>3, <1>6, <1>7

LEMMA DoneSent ==
  ASSUME NEW v, Good(v), NEW c \in BOOLEAN, v.conf => c
  PROVE  To(v, [v EXCEPT !.conf = c, !.toClient = @ \cup {<<"done">>}])
  <1> DEFINE w == [v EXCEPT !.conf = c, !.toClient = @ \cup {<<"done">>}]
  <1>1. v \in Boot /\ <<"done">> \in ToClient
    BY Tagged DEF Good, Tags
  <1>2. v.toClient \cup {<<"done">>} \in SUBSET ToClient
    BY <1>1 DEF Boot
  <1>3. w \in Boot
    BY <1>1, <1>2 DEF Boot
  <1>4. /\ w.open = v.open /\ w.has = v.has /\ w.bye = v.bye /\ w.credit = v.credit
        /\ w.sent = v.sent /\ w.conf = c /\ w.hsSeen = v.hsSeen
    BY <1>1 DEF Boot
  <1> HIDE DEF w
  <1>5. To(v, w)
    BY <1>3, <1>4, OtherFields
  <1>q. QED  BY <1>5 DEF w

LEMMA ServeHandshakeGood ==
  ASSUME NEW v, Good(v), NEW finished \in BOOLEAN
  PROVE  To(v, ServeHandshake(v, finished))
  <1> DEFINE n    == IF v.hsSeen THEN v.count ELSE 0
             seen == [v EXCEPT !.hsSeen = TRUE, !.count = n]
  <1>1. v \in Boot
    BY DEF Good
  <1>2. n \in 0 .. PtoMax - 1
    BY <1>1, BootAssumption DEF Boot
  <1>3. ServeHandshake(v, finished) =
          IF ~ v.up THEN v
          ELSE IF v.conf THEN [v EXCEPT !.toClient = @ \cup {<<"done">>}]
          ELSE IF finished THEN [seen EXCEPT !.conf = TRUE, !.toClient = @ \cup {<<"done">>}]
          ELSE srvrun_boot_release_pending(srvrun_boot_probe_or_replay(seen))
    BY DEF ServeHandshake
  <1> HIDE DEF n
  <1>4. /\ seen \in Boot /\ seen.open = v.open /\ seen.has = v.has /\ seen.bye = v.bye
        /\ seen.credit = v.credit
        /\ seen.sent = v.sent /\ seen.conf = v.conf /\ seen.hsSeen = TRUE
    BY <1>1, <1>2 DEF Boot
  <1> HIDE DEF seen
  <1>5. To(v, seen)
    BY <1>4, OtherFields
  <1>6. To(seen, [seen EXCEPT !.conf = TRUE, !.toClient = @ \cup {<<"done">>}])
    BY <1>5, DoneSent DEF To
  <1>7. To(seen, srvrun_boot_release_pending(srvrun_boot_probe_or_replay(seen)))
    <2>1. To(seen, srvrun_boot_probe_or_replay(seen))
      BY <1>5, ReplayGood DEF To
    <2>2. To(srvrun_boot_probe_or_replay(seen),
             srvrun_boot_release_pending(srvrun_boot_probe_or_replay(seen)))
      BY <2>1, ReleaseGood DEF To
    <2>q. QED  BY <2>1, <2>2, Transitive
  <1>8. v.conf => To(v, [v EXCEPT !.toClient = @ \cup {<<"done">>}])
    <2> SUFFICES ASSUME v.conf PROVE To(v, [v EXCEPT !.toClient = @ \cup {<<"done">>}])
      OBVIOUS
    <2> DEFINE w == [v EXCEPT !.toClient = @ \cup {<<"done">>}]
    <2>1. v \in Boot /\ <<"done">> \in ToClient
      BY Tagged DEF Good, Tags
    <2>2. v.toClient \cup {<<"done">>} \in SUBSET ToClient
      BY <2>1 DEF Boot
    <2>3. w \in Boot
      BY <2>1, <2>2 DEF Boot
    <2>4. /\ w.open = v.open /\ w.has = v.has /\ w.bye = v.bye /\ w.credit = v.credit
          /\ w.sent = v.sent /\ w.conf = v.conf /\ w.hsSeen = v.hsSeen
      BY <2>1 DEF Boot
    <2> HIDE DEF w
    <2>5. To(v, w)
      BY <2>3, <2>4, OtherFields
    <2>q. QED  BY <2>5 DEF w
  <1>9. To(v, v)
    BY Reflexive
  <1>q. QED  BY <1>3, <1>5, <1>6, <1>7, <1>8, <1>9, Transitive

LEMMA ServeOneRttGood ==
  ASSUME NEW v, Good(v)
  PROVE  To(v, ServeOneRtt(v))
  <1> DEFINE w == [v EXCEPT !.onertt = TRUE]
  <1>1. v \in Boot
    BY DEF Good
  <1>2. /\ w \in Boot /\ w.open = v.open /\ w.has = v.has /\ w.bye = v.bye /\ w.credit = v.credit
        /\ w.sent = v.sent /\ w.conf = v.conf /\ w.hsSeen = v.hsSeen
    BY <1>1 DEF Boot
  <1>3. ServeOneRtt(v) = IF srvrun_awaiting_confirm(v) THEN w ELSE v
    BY DEF ServeOneRtt
  <1> HIDE DEF w
  <1>4. To(v, w)
    BY <1>2, OtherFields
  <1>q. QED  BY <1>3, <1>4, Reflexive

\* The bytes of a datagram are counted before it is served.
LEMMA ServeSlotGood ==
  ASSUME NEW v, Good(v), NEW m \in ToServer
  PROVE  To(v, ServeSlot(v, m))
  <1> DEFINE c == Least(MaxCredit, v.credit + 3 * Size(m))
             w == [v EXCEPT !.toServer = @ \ {m}, !.out = 0, !.credit = c]
             g == [w EXCEPT !.credit = v.credit]
  <1>0. v \in Boot /\ v.credit \in Int /\ v.toServer \ {m} \in SUBSET ToServer
    BY DEF Good, Boot
  <1>1. ServeSlot(v, m) =
          IF v.gone THEN g
          ELSE
          CASE m[1] = "ch"  -> ServeInitial(w, m[2], m[3])
            [] m[1] = "hs"  -> ServeHandshake(w, FALSE)
            [] m[1] = "fin" -> ServeHandshake(w, TRUE)
            [] m[1] = "one" -> ServeOneRtt(w)
    BY DEF ServeSlot
  <1>2. Size(m) \in Nat
    BY BootAssumption DEF Size
  <1>3. c \in Int /\ (v.credit >= 0 => c >= 0)
    BY <1>0, <1>2, BootAssumption DEF Least
  <1> HIDE DEF c
  <1>4. w \in Boot
    BY <1>0, <1>3 DEF Boot
  <1>5. /\ w.open = v.open /\ w.has = v.has /\ w.bye = v.bye /\ w.credit = c
        /\ w.sent = v.sent /\ w.conf = v.conf /\ w.hsSeen = v.hsSeen
    BY <1>0 DEF Boot
  <1>6. /\ g \in Boot /\ g.open = w.open /\ g.has = w.has /\ g.bye = w.bye /\ g.credit = v.credit
        /\ g.sent = w.sent /\ g.conf = w.conf /\ g.hsSeen = w.hsSeen
    <2> HIDE DEF w
    <2>q. QED  BY <1>0, <1>4 DEF Boot
  <1> HIDE DEF w, g
  <1>7. To(v, w)
    BY <1>3, <1>4, <1>5 DEF To, Same, Good, FlightLen, srvrun_path_validated
  <1>8. To(v, g)
    BY <1>5, <1>6, OtherFields
  <1>9. CASE m \in {"ch"} \X (1 .. 3) \X BOOLEAN
    <2>1. m[1] = "ch" /\ m[2] \in 1 .. 3 /\ m[3] \in BOOLEAN
      BY <1>9
    <2>2. ServeSlot(v, m) = g \/ ServeSlot(v, m) = ServeInitial(w, m[2], m[3])
      BY <1>1, <2>1
    <2>3. To(w, ServeInitial(w, m[2], m[3]))
      BY <1>7, <2>1, ServeInitialGood DEF To
    <2>q. QED  BY <1>7, <1>8, <2>2, <2>3, Transitive
  <1>10. CASE m \in {<<"hs">>, <<"fin">>, <<"one">>}
    <2>1. m[1] \in {"hs", "fin", "one"}
      BY <1>10
    <2> DEFINE x == ServeHandshake(w, FALSE)
               y == ServeHandshake(w, TRUE)
               z == ServeOneRtt(w)
               s == ServeSlot(v, m)
    <2>2. s = g \/ s = x \/ s = y \/ s = z
      BY <1>1, <2>1
    <2>3. To(w, x) /\ To(w, y) /\ To(w, z)
      BY <1>7, ServeHandshakeGood, ServeOneRttGood DEF To
    <2> HIDE DEF s, x, y, z
    <2>4. To(v, s)
      BY <1>7, <1>8, <2>2, <2>3, Transitive
    <2>q. QED  BY <2>4 DEF s
  <1>q. QED  BY <1>9, <1>10 DEF ToServer

-----------------------------------------------------------------------------
\* The actions.

Heard == b.has \subseteq Pieces \cup {<<"ack">>, <<"hrr">>}

\* The goodbye is said once, to a client at 1-RTT, by a slot that then sends no more.
Goodbye == b.bye \in 0 .. 3 /\ (b.bye > 0 => b.gone /\ b.onertt)
BootInv == Good(b) /\ Heard /\ Goodbye

LEMMA KeepsHeard ==
  ASSUME Heard, To(b, b')
  PROVE  Heard'
  BY DEF Heard, To, Same, Pieces, FlightLen

\* A slot that was given up stays so.
LEMMA KeepsGoodbye ==
  ASSUME BootInv, To(b, b'), b.gone => b'.gone = b.gone /\ b'.onertt = b.onertt
  PROVE  Goodbye'
  <1>1. b.bye \in 0 .. 3 /\ b'.bye = b.bye
    BY DEF BootInv, Goodbye, To, Same
  <1>q. QED  BY <1>1 DEF BootInv, Goodbye

LEMMA BootInitGood ==
  ASSUME BootInit
  PROVE  BootInv
  <1>1. PICK open \in Openings :
          b = [open |-> open, up |-> FALSE, hello |-> {}, alt |-> FALSE, ini |-> "none",
               sent |-> 0, flip |-> FALSE, hsSeen |-> FALSE, conf |-> FALSE, onertt |-> FALSE,
               count |-> 0, credit |-> 0, out |-> 0, gone |-> FALSE, bye |-> 0,
               toServer |-> {}, toClient |-> {}, drops |-> 0, has |-> {}, done |-> FALSE]
    BY DEF BootInit
  <1>2. b \in Boot
    BY <1>1, BootAssumption DEF Boot
  <1>3. b.sent = 0 /\ b.credit = 0 /\ b.has = {}
    BY <1>1
  <1>4. FlightLen(b) \in Nat
    <2>1. b.open.flight \in Seq(Nat)
      BY <1>2, BootAssumption DEF Boot, Opening
    <2>q. QED  BY <2>1 DEF FlightLen
  <1>5. Goodbye
    BY <1>1 DEF Goodbye
  <1>q. QED  BY <1>2, <1>3, <1>4, <1>5 DEF BootInv, Good, Heard

LEMMA ReceiveGood ==
  ASSUME BootInv, NEW m, Receive(m)
  PROVE  To(b, b') /\ (b.gone => b'.gone = b.gone /\ b'.onertt = b.onertt)
  <1>1. m \in ToServer
    BY DEF Receive, BootInv, Good, Boot
  <1>2. To(b, ServeSlot(b, m))
    BY <1>1, ServeSlotGood DEF BootInv
  <1>3. To(ServeSlot(b, m), [ServeSlot(b, m) EXCEPT !.out = 0])
    BY <1>2, OutReset DEF To
  <1>4. ASSUME b.gone PROVE b'.gone = b.gone /\ b'.onertt = b.onertt
    <2> DEFINE c == Least(MaxCredit, b.credit + 3 * Size(m))
               w == [b EXCEPT !.toServer = @ \ {m}, !.out = 0, !.credit = c]
    <2>1. ServeSlot(b, m) = [w EXCEPT !.credit = b.credit]
      BY <1>4 DEF ServeSlot
    <2>2. b' = [[w EXCEPT !.credit = b.credit] EXCEPT !.out = 0]
      BY <2>1 DEF Receive
    <2>3. b \in Boot
      BY DEF BootInv, Good
    <2> HIDE DEF c
    <2>q. QED  BY <2>2, <2>3 DEF Boot
  <1>q. QED  BY <1>2, <1>3, <1>4, Transitive DEF Receive

LEMMA Kept ==
  ASSUME BootInv, To(b, b'), b.gone => b'.gone = b.gone /\ b'.onertt = b.onertt
  PROVE  BootInv'
  <1>1. Heard' /\ Goodbye'
    BY KeepsHeard, KeepsGoodbye DEF BootInv
  <1>2. Good(b)'
    BY DEF To, Good, FlightLen, srvrun_path_validated
  <1>q. QED  BY <1>1, <1>2 DEF BootInv

LEMMA BootPtoGood ==
  ASSUME BootInv, BootPto
  PROVE  BootInv'
  <1> DEFINE fired == b.count + 1
             w     == srvrun_boot_probe_or_replay(b)
             n     == IF w.out > 0 THEN fired ELSE b.count
             n3    == IF b.hsSeen THEN 2 ELSE 3
             told  == [b EXCEPT !.toClient = @ \cup {<<"bye">>}, !.bye = n3]
             x1    == [b EXCEPT !.gone = TRUE]
             x2    == [told EXCEPT !.gone = TRUE]
  <1>0. Good(b) /\ b \in Boot /\ b.count \in 0 .. PtoMax - 1 /\ PtoMax \in Nat
    BY BootAssumption DEF BootInv, Good, Boot
  <1>1. \/ ~ b.onertt /\ b' = x1
        \/ b.onertt /\ b' = x2
        \/ ~ (fired >= PtoMax) /\ b' = [w EXCEPT !.count = n, !.out = 0]
    BY DEF BootPto, srvrun_boot_give_up_close
  <1>g. ~ b.gone /\ b.bye = 0
    BY <1>0 DEF BootPto, BootInv, Goodbye, Boot
  <1>2. CASE ~ b.onertt /\ b' = x1
    <2>1. /\ x1 \in Boot /\ x1.open = b.open /\ x1.has = b.has /\ x1.bye = b.bye
          /\ x1.credit = b.credit
          /\ x1.sent = b.sent /\ x1.conf = b.conf /\ x1.hsSeen = b.hsSeen
      BY <1>0 DEF Boot
    <2> HIDE DEF x1
    <2>2. To(b, x1)
      BY <1>0, <2>1, OtherFields
    <2>q. QED  BY <1>2, <1>g, <2>2, Kept
  <1>4. CASE b.onertt /\ b' = x2
    <2>1. <<"bye">> \in ToClient
      BY Tagged DEF Tags
    <2>2. b.toClient \cup {<<"bye">>} \subseteq ToClient
      BY <1>0, <2>1 DEF Boot
    <2>3. /\ x2 \in Boot /\ x2.open = b.open /\ x2.has = b.has /\ x2.credit = b.credit
          /\ x2.sent = b.sent /\ x2.conf = b.conf /\ x2.hsSeen = b.hsSeen
          /\ x2.bye \in 0 .. 3 /\ x2.gone /\ x2.onertt = b.onertt
      <3>1. n3 \in 0 .. 3
        OBVIOUS
      <3> HIDE DEF n3
      <3>2. /\ told \in Boot /\ told.open = b.open /\ told.has = b.has
            /\ told.credit = b.credit /\ told.sent = b.sent /\ told.conf = b.conf
            /\ told.hsSeen = b.hsSeen /\ told.bye = n3 /\ told.onertt = b.onertt
        <4> DEFINE net == b.toClient \cup {<<"bye">>}
                   new == [b EXCEPT !.toClient = net, !.bye = n3]
        <4>1. net \subseteq ToClient /\ n3 \in Nat /\ told = new
          BY <2>2, <3>1
        <4> HIDE DEF net
        <4>2. /\ new \in Boot /\ new.open = b.open /\ new.has = b.has
              /\ new.credit = b.credit /\ new.sent = b.sent /\ new.conf = b.conf
              /\ new.hsSeen = b.hsSeen /\ new.bye = n3 /\ new.onertt = b.onertt
          BY <1>0, <4>1 DEF Boot
        <4>q. QED  BY <4>1, <4>2
      <3> HIDE DEF told
      <3>q. QED  BY <3>1, <3>2 DEF Boot
    <2> HIDE DEF x2
    <2>4. Good(x2)
      BY <1>0, <2>3 DEF Good, FlightLen, srvrun_path_validated
    <2>5. Heard' /\ Goodbye'
      BY <1>4, <2>3 DEF BootInv, Heard, Goodbye, Pieces, FlightLen
    <2>q. QED  BY <1>4, <2>4, <2>5 DEF BootInv, Good, FlightLen, srvrun_path_validated
  <1>3. CASE ~ (fired >= PtoMax) /\ b' = [w EXCEPT !.count = n, !.out = 0]
    <2>1. To(b, w)
      BY <1>0, ReplayGood
    <2>2. w \in Boot /\ w.out \in Nat /\ Good(w)
      BY <2>1 DEF To, Good, Boot
    <2> HIDE DEF w
    <2>3. n \in 0 .. PtoMax - 1
      BY <1>0, <1>3, <2>2
    <2> HIDE DEF n
    <2> DEFINE x == [w EXCEPT !.count = n, !.out = 0]
    <2>4. /\ x \in Boot /\ x.open = w.open /\ x.has = w.has /\ x.bye = w.bye /\ x.credit = w.credit
          /\ x.sent = w.sent /\ x.conf = w.conf /\ x.hsSeen = w.hsSeen
      BY <2>2, <2>3 DEF Boot
    <2> HIDE DEF x
    <2>5. To(w, x)
      BY <2>2, <2>4, OtherFields
    <2>6. To(b, x)
      BY <2>1, <2>5, Transitive
    <2>q. QED  BY <1>3, <1>g, <2>6, Kept DEF x
  <1>q. QED  BY <1>1, <1>2, <1>3, <1>4

LEMMA WantsTyped ==
  ASSUME BootInv
  PROVE  Wants \subseteq ToServer
  <1>1. b.open \in Opening
    BY BootAssumption DEF BootInv, Good, Boot
  <1>2. b.open.hello \in 1 .. 2
    BY <1>1 DEF Opening
  <1>3. ASSUME NEW i \in 1 .. b.open.hello
        PROVE  <<"ch", i, <<"ack">> \in b.has>> \in ToServer
    <2>1. i \in 1 .. 3 /\ (<<"ack">> \in b.has) \in BOOLEAN
      BY <1>2, <1>3
    <2>q. QED  BY <2>1 DEF ToServer
  <1>4. <<"ch", 3, TRUE>> \in ToServer
    <2>1. 3 \in 1 .. 3 /\ TRUE \in BOOLEAN
      OBVIOUS
    <2>2. \A i \in 1 .. 3 : \A a \in BOOLEAN : <<"ch", i, a>> \in ToServer
      BY DEF ToServer
    <2>q. QED  BY <2>1, <2>2
  <1>5. \A x \in Wants : x \in ToServer
    <2> SUFFICES ASSUME NEW x \in Wants PROVE x \in ToServer
      OBVIOUS
    <2>1. \/ x \in {<<"fin">>, <<"one">>} \/ x = <<"hs">> \/ x = <<"ch", 3, TRUE>>
          \/ \E i \in 1 .. b.open.hello : x = <<"ch", i, <<"ack">> \in b.has>>
      BY DEF Wants
    <2>q. QED  BY <1>3, <1>4, <2>1 DEF ToServer
  <1>q. QED  BY <1>5

LEMMA ClientTimerGood ==
  ASSUME BootInv, ClientTimer
  PROVE  BootInv'
  <1> DEFINE w == [b EXCEPT !.toServer = @ \cup Wants]
  <1>1. b \in Boot /\ Good(b) /\ b.toServer \cup Wants \in SUBSET ToServer
    BY WantsTyped DEF BootInv, Good, Boot
  <1>2. w \in Boot
    BY <1>1 DEF Boot
  <1>3. /\ w.open = b.open /\ w.has = b.has /\ w.bye = b.bye /\ w.credit = b.credit
        /\ w.sent = b.sent /\ w.conf = b.conf /\ w.hsSeen = b.hsSeen
        /\ w.gone = b.gone /\ w.onertt = b.onertt
    BY <1>1 DEF Boot
  <1>5. b' = w
    BY DEF ClientTimer
  <1> HIDE DEF w
  <1>4. To(b, w)
    BY <1>1, <1>2, <1>3, OtherFields
  <1>q. QED  BY <1>3, <1>4, <1>5, Kept

LEMMA LoseGood ==
  ASSUME BootInv, Lose
  PROVE  BootInv'
  <1>0. b \in Boot /\ Good(b)
    BY DEF BootInv, Good
  <1>1. b \in Boot /\ Good(b) /\ b.drops + 1 \in Nat
    BY <1>0 DEF Boot
  <1>2. \/ \E m : b' = [b EXCEPT !.toServer = @ \ {m}, !.drops = @ + 1]
        \/ \E m : b' = [b EXCEPT !.toClient = @ \ {m}, !.drops = @ + 1]
    BY DEF Lose
  <1>3. ASSUME NEW m, b' = [b EXCEPT !.toServer = @ \ {m}, !.drops = @ + 1]
        PROVE  /\ b' \in Boot /\ b'.open = b.open /\ b'.has = b.has /\ b'.bye = b.bye
               /\ b'.credit = b.credit
               /\ b'.sent = b.sent /\ b'.conf = b.conf /\ b'.hsSeen = b.hsSeen
               /\ b'.gone = b.gone /\ b'.onertt = b.onertt
    <2>1. b.toServer \ {m} \in SUBSET ToServer
      BY <1>1 DEF Boot
    <2>q. QED  BY <1>1, <1>3, <2>1 DEF Boot
  <1>4. ASSUME NEW m, b' = [b EXCEPT !.toClient = @ \ {m}, !.drops = @ + 1]
        PROVE  /\ b' \in Boot /\ b'.open = b.open /\ b'.has = b.has /\ b'.bye = b.bye
               /\ b'.credit = b.credit
               /\ b'.sent = b.sent /\ b'.conf = b.conf /\ b'.hsSeen = b.hsSeen
               /\ b'.gone = b.gone /\ b'.onertt = b.onertt
    <2>1. b.toClient \ {m} \in SUBSET ToClient
      BY <1>1 DEF Boot
    <2>q. QED  BY <1>1, <1>4, <2>1 DEF Boot
  <1>5. /\ b' \in Boot /\ b'.open = b.open /\ b'.has = b.has /\ b'.bye = b.bye
        /\ b'.credit = b.credit
        /\ b'.sent = b.sent /\ b'.conf = b.conf /\ b'.hsSeen = b.hsSeen
        /\ b'.gone = b.gone /\ b'.onertt = b.onertt
    BY <1>2, <1>3, <1>4
  <1>6. To(b, b')
    BY <1>1, <1>5, OtherFields
  <1>q. QED  BY <1>5, <1>6, Kept

\* The client keeps what it can use.
LEMMA ClientGood ==
  ASSUME BootInv, NEW m, ClientReceives(m)
  PROVE  BootInv'
  <1> DEFINE h == IF m \in {<<"ack">>, <<"hrr">>, <<"ini">>} \/ (m \in Pieces /\ <<"ini">> \in b.has)
                  THEN b.has \cup {m} ELSE b.has
             d == b.done \/ (m = <<"done">> /\ Pieces \subseteq b.has)
             w == [b EXCEPT !.toClient = @ \ {m}, !.has = h, !.done = d]
  <1>1. b \in Boot /\ Good(b) /\ Heard /\ m \in ToClient
    BY DEF BootInv, Good, Boot, ClientReceives
  <1>2. b' = w
    BY DEF ClientReceives
  <1>3. b.toClient \ {m} \in SUBSET ToClient /\ h \in SUBSET ToClient
    BY <1>1 DEF Boot
  <1>4. d \in BOOLEAN
    BY <1>1 DEF Boot
  <1>5. h \subseteq Pieces \cup {<<"ack">>, <<"hrr">>}
    BY <1>1 DEF Heard, Pieces
  <1> HIDE DEF h, d
  <1>6. w \in Boot
    BY <1>1, <1>3, <1>4 DEF Boot
  <1>7. /\ w.open = b.open /\ w.has = h /\ w.credit = b.credit
        /\ w.sent = b.sent /\ w.conf = b.conf /\ w.hsSeen = b.hsSeen
        /\ w.bye = b.bye /\ w.gone = b.gone /\ w.onertt = b.onertt
    BY <1>1 DEF Boot
  <1> HIDE DEF w
  <1>8. Good(w)
    BY <1>1, <1>6, <1>7 DEF Good, FlightLen, srvrun_path_validated
  <1>9. Heard'
    BY <1>2, <1>5, <1>7 DEF Heard, Pieces, FlightLen
  <1>10. Goodbye'
    BY <1>2, <1>7 DEF BootInv, Goodbye
  <1>q. QED  BY <1>2, <1>8, <1>9, <1>10 DEF BootInv, Good, FlightLen, srvrun_path_validated

LEMMA BootInvKept ==
  ASSUME BootInv, [BootNext]_bootVars
  PROVE  BootInv'
  <1>1. CASE UNCHANGED bootVars
    <2>1. b' = b
      BY <1>1 DEF bootVars
    <2>2. To(b, b)
      BY Reflexive DEF BootInv
    <2>q. QED  BY <2>1, <2>2, Kept
  <1>2. CASE Deliver
    BY <1>2, ReceiveGood, ClientGood, Kept DEF Deliver
  <1>3. CASE BootPto \/ ClientTimer \/ Lose
    BY <1>3, BootPtoGood, ClientTimerGood, LoseGood
  <1>q. QED  BY <1>1, <1>2, <1>3 DEF BootNext

\* Types: in particular no more of the flight is marked sent than there is, however often
\* it starts over, and a boot stops counting probes below SRVRUN_BOOT_PTO_MAX.
THEOREM BootTypeCorrect == BootSpec => []BootTypeOK
  <1>1. BootInit => BootInv
    BY BootInitGood
  <1>2. BootInv /\ [BootNext]_bootVars => BootInv'
    BY BootInvKept
  <1>3. BootInv => BootTypeOK
    <2> SUFFICES ASSUME BootInv PROVE BootTypeOK
      OBVIOUS
    <2>1. b \in Boot /\ b.sent <= FlightLen(b) /\ Heard
      BY DEF BootInv, Good
    <2>2. FlightLen(b) \in Nat
      <3>1. b.open.flight \in Seq(Nat)
        BY <2>1, BootAssumption DEF Boot, Opening
      <3>q. QED  BY <3>1 DEF FlightLen
    <2>3. b.sent \in 0 .. FlightLen(b)
      BY <2>1, <2>2 DEF Boot
    <2>4. {b.up, b.alt, b.flip, b.hsSeen, b.conf, b.onertt, b.gone, b.done} \subseteq BOOLEAN
      BY <2>1 DEF Boot
    <2>q. QED  BY <2>1, <2>3, <2>4 DEF BootTypeOK, Boot, Heard
  <1>q. QED  BY <1>1, <1>2, <1>3, PTL DEF BootSpec

\* Before the client's address is validated the server has sent at most three times the
\* bytes it received, over every path that asks the gate (the flight and its held-back
\* tail, the resends of both sides' timers, the probe, the PING, the ACK of a partial
\* ClientHello and the HelloRetryRequest), for every size of the Initial and every flight;
\* the goodbye of srvrun_boot_give_up_close, which does not ask, adds at most three small
\* datagrams to that, once in the life of the slot.
THEOREM NeverAmplifies == BootSpec => []AmplificationBound
  <1>1. BootInit => BootInv
    BY BootInitGood
  <1>2. BootInv /\ [BootNext]_bootVars => BootInv'
    BY BootInvKept
  <1>3. BootInv => AmplificationBound
    <2> SUFFICES ASSUME BootInv, ~ srvrun_path_validated(b)
                 PROVE  b.credit - b.bye >= IF b.gone /\ b.onertt THEN -3 ELSE 0
      BY DEF AmplificationBound
    <2>1. b.credit \in Int /\ b.credit >= 0 /\ b.bye \in 0 .. 3
      BY DEF BootInv, Good, Boot, Goodbye
    <2>2. CASE b.gone /\ b.onertt
      BY <2>1, <2>2
    <2>3. CASE ~ (b.gone /\ b.onertt)
      <3>1. b.bye = 0
        BY <2>1, <2>3 DEF BootInv, Goodbye
      <3>q. QED  BY <2>1, <2>3, <3>1
    <2>q. QED  BY <2>2, <2>3
  <1>q. QED  BY <1>1, <1>2, <1>3, PTL DEF BootSpec
=============================================================================
