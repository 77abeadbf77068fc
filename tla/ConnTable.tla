------------------------------ MODULE ConnTable ------------------------------
(***************************************************************************)
(* The connection table of one worker: how a datagram finds its slot,      *)
(* claims one, evicts another connection or is refused; how a connection   *)
(* comes up, closes and is reaped; and the ring of outgoing datagrams,     *)
(* whose entries name a slot and a generation.  Stateless resets, and the  *)
(* ghosts that decide which stragglers draw one, are left out.             *)
(*                                                                         *)
(* A claim is one life of a slot: it has a number, which stands for the    *)
(* connection id the server chose for it.  The network delays and repeats  *)
(* packets: an Initial of any client, and a later packet of any claim,     *)
(* dead ones included, may arrive at any time.                             *)
(***************************************************************************)
EXTENDS Integers

CONSTANTS
  Clients,     \* the connection ids that clients chose for their Initials
  TableSlots,       \* 1 .. WIRED_CONNTABLE_CAP
  Grace,       \* WIRED_SRVRUN_EVICT_GRACE_MS
  Idle,        \* the idle timeout
  Deadline,    \* SRVRUN_BOOT_DEADLINE_MS
  Closing,     \* three PTOs
  RingCap,     \* SRVRUN_DGRING_CAP
  MaxTime,     \* bound: the clock
  MaxClaims,   \* bound: claims
  None

ASSUME TableAssumption ==
  /\ TableSlots \subseteq Nat \ {0} /\ None \notin Clients
  /\ {Grace, Idle, Deadline, Closing, RingCap, MaxTime, MaxClaims} \subseteq Nat
  /\ MaxTime > 0

VARIABLE t
tableVars == <<t>>

Claims == 1 .. MaxClaims
Cells  == 1 .. RingCap

\* A slot: who has it (0: nobody), the client's connection id, and the fields of
\* srvrun_conn.
FreeSlot == [live |-> FALSE, who |-> 0, odcid |-> None, gen |-> 0, up |-> FALSE,
             boot |-> FALSE, conf |-> FALSE, closing |-> FALSE, until |-> 0,
             last |-> 0, since |-> 0, sess |-> FALSE]

\* srvrun_loop.  ring: the queued datagrams, in cells (urgency and age decide in which
\* order they leave; nothing here depends on it).  n counts the claims; opened, told
\* and wrong are histories: claims that had a session, how often its end was told,
\* the cells of datagrams that were sent to another connection.
TableInit ==
  t = [now |-> 1, done |-> FALSE, down |-> FALSE, slot |-> [i \in TableSlots |-> FreeSlot],
       ring |-> [c \in Cells |-> None], n |-> 0, opened |-> {},
       told |-> [k \in Claims |-> 0], wrong |-> {}]

-----------------------------------------------------------------------------
\* The end of a slot.  The loops over the table are written as one step on the set I
\* of the slots they end: what happens to a slot depends on no other.

\* srvrun_close_all_wt: the active sessions of the slots hear of their end.
srvrun_close_all_wt(v, I) ==
  [v EXCEPT !.told = [k \in Claims |->
                        IF \E i \in I : v.slot[i].sess /\ v.slot[i].who = k
                        THEN v.told[k] + 1 ELSE v.told[k]],
            !.slot = [i \in TableSlots |-> IF i \in I THEN [v.slot[i] EXCEPT !.sess = FALSE]
                                     ELSE v.slot[i]]]

Freed(s) == [FreeSlot EXCEPT !.gen = s.gen]

\* Defect: the sessions of a freed slot are forgotten without a word.
FreeSilently(v, I) ==
  [v EXCEPT !.slot = [i \in TableSlots |-> IF i \in I THEN Freed(v.slot[i]) ELSE v.slot[i]]]

\* srvrun_free_slot.
srvrun_free_slot(v, I) ==
  [srvrun_close_all_wt(v, I) EXCEPT
     !.slot = [i \in TableSlots |-> IF i \in I THEN Freed(v.slot[i]) ELSE v.slot[i]]]

\* srvrun_close_send: CONNECTION_CLOSE, the closing period, every session over.
srvrun_close_send(v, I) ==
  LET J == {i \in I : ~ v.slot[i].closing}
      u == srvrun_close_all_wt(v, J)
  IN [u EXCEPT !.slot = [i \in TableSlots |->
        IF i \in J THEN [u.slot[i] EXCEPT !.closing = TRUE, !.until = v.now + Closing]
        ELSE u.slot[i]]]

-----------------------------------------------------------------------------
\* Reaping.

srvrun_slot_busy(s) == s.up \/ s.boot
srvrun_close_reap_due(v, s) == s.closing /\ v.now >= s.until

\* srvrun_idle_due, srvrun_boot_overdue, srvrun_silent_due.  The idle timer restarts
\* here only on receipt, not on a send after it (idle_tx_ms); packet numbers do not run
\* out (tx_pn).
srvrun_reap_due(v, s) ==
  \/ srvrun_slot_busy(s) /\ v.now - s.last >= Idle
  \/ srvrun_slot_busy(s) /\ ~ s.conf /\ v.now - s.since >= Deadline
  \/ srvrun_close_reap_due(v, s)

\* srvrun_sweep_idle: before a batch is served.
srvrun_sweep_idle(v) ==
  srvrun_free_slot(v, {i \in TableSlots : srvrun_reap_due(v, v.slot[i])})

\* srvrun_tick_slot: a closing slot is only reaped, in its time.  Of the others
\* some use up a budget: the boot probes (srvrun_boot_pto_slot; also for a slot that is
\* not up yet and has a HelloRetryRequest out), the probes or the resets
\* (srvrun_pto_slot, srvrun_rst_retry_slot).
srvrun_tick_slot(v, spent) ==
  srvrun_free_slot(v, {i \in TableSlots :
    IF v.slot[i].closing THEN srvrun_close_reap_due(v, v.slot[i])
    ELSE i \in spent /\ srvrun_slot_busy(v.slot[i])})

-----------------------------------------------------------------------------
\* Routing.

\* conntable_insert, srvrun_conn_fresh: the first free entry, a new generation.
srvrun_open_slot(v, p) ==
  LET free == {i \in TableSlots : ~ v.slot[i].live}
      i    == CHOOSE j \in free : \A h \in free : j <= h
  IN [v EXCEPT !.slot[i] = [FreeSlot EXCEPT !.live = TRUE, !.who = v.n + 1, !.odcid = p,
                                            !.gen = v.slot[i].gen + 1, !.since = v.now],
               !.n = @ + 1]

TableFull(v) == \A i \in TableSlots : v.slot[i].live

\* srvrun_evict_candidate: the busy slot that has been silent for longest.
srvrun_evict_candidate(v) ==
  LET busy == {i \in TableSlots : srvrun_slot_busy(v.slot[i])} IN
  IF busy = {} THEN 0
  ELSE CHOOSE i \in busy : \A j \in busy :
         v.slot[i].last < v.slot[j].last \/ (v.slot[i].last = v.slot[j].last /\ i <= j)

\* srvrun_route_or_evict: a client's Initial finds its slot by the id the client
\* chose, else opens one, if need be in the place of another connection.
srvrun_route_or_evict(v, p) ==
  LET cand == srvrun_evict_candidate(v) IN
  IF v.down \/ \E i \in TableSlots : v.slot[i].live /\ v.slot[i].odcid = p THEN v
  ELSE IF ~ TableFull(v) THEN srvrun_open_slot(v, p)
  ELSE IF cand # 0 /\ v.now - v.slot[cand].last >= Grace
  THEN srvrun_open_slot(srvrun_free_slot(v, {cand}), p)
  ELSE v

-----------------------------------------------------------------------------
\* Serving.

\* Defect: a boot that failed keeps its entry in the table.
OpenKeepsEntry(v, i, boot) ==
  CASE boot = "ok"      -> [v EXCEPT !.slot[i].up = TRUE, !.slot[i].boot = FALSE]
    [] boot = "pending" -> [v EXCEPT !.slot[i].boot = TRUE]
    [] boot = "failed"  -> [v EXCEPT !.slot[i].boot = FALSE]

\* srvrun_cold_start, srvrun_open_done: the ClientHello is whole and answered,
\* more of it is owed, or it is refused (a datagram that does not open leaves a
\* boot that has opened one before: srvrun_boot_salvage).
srvrun_open_done(v, i, boot) ==
  CASE boot = "ok"      -> [v EXCEPT !.slot[i].up = TRUE, !.slot[i].boot = FALSE]
    [] boot = "pending" -> [v EXCEPT !.slot[i].boot = TRUE]
    [] boot = "failed"  -> srvrun_free_slot(v, {i})

\* srvrun_serve_slot for an Initial: a slot that is up takes it for a repeat.
ServeSlotInitial(v, p, boot) ==
  LET at == {i \in TableSlots : v.slot[i].live /\ v.slot[i].odcid = p} IN
  IF at = {} THEN v   \* srvrun_send_new_conn_refusal
  ELSE LET i == CHOOSE j \in at : TRUE
           u == [v EXCEPT !.slot[i].last = v.now]
       IN IF u.slot[i].up \/ u.down THEN u ELSE srvrun_open_done(u, i, boot)

\* srvrun_step_and_reap: what a packet of an open connection may bring.
Effects == {"nothing", "confirm", "session", "peer close", "error"}
srvrun_step_and_reap(v, i, eff) ==
  CASE eff = "confirm"    -> [v EXCEPT !.slot[i].conf = TRUE]
    [] eff = "session" /\ v.slot[i].conf
                          -> [v EXCEPT !.slot[i].sess = TRUE, !.opened = @ \cup {v.slot[i].who}]
    [] eff = "peer close" -> srvrun_free_slot(v, {i})
    [] eff = "error"      -> srvrun_close_send(v, {i})
    [] OTHER -> v

\* srvrun_serve_slot for another packet of claim k.  One that no slot claims is
\* refused (srvrun_refuse_unroutable); a slot that is closing answers with its close (srvrun_closing_rx).
ServePacket(v, k, eff) ==
  LET at == {i \in TableSlots : v.slot[i].live /\ v.slot[i].who = k} IN
  IF at = {} THEN v
  ELSE LET i == CHOOSE j \in at : TRUE
           u == [v EXCEPT !.slot[i].last = v.now]
       IN IF u.slot[i].up /\ ~ u.slot[i].closing THEN srvrun_step_and_reap(u, i, eff) ELSE u

-----------------------------------------------------------------------------
\* The datagram ring.

\* Defect: a queued datagram goes to whoever has the slot.
ConnGenIgnored(s, gen) == s.up

\* srvrun_conn_gen_live.
srvrun_conn_gen_live(s, gen) == s.up /\ s.gen = gen

\* srvrun_dgring_drain: entries of connections that are gone are dropped, those
\* the window or the pacer holds stay, the others go out (nothing does once closing).
srvrun_dgring_drain(v, held) ==
  LET queued  == {c \in Cells : v.ring[c] # None}
      To(c)   == v.slot[v.ring[c].slot]
      live(c) == srvrun_conn_gen_live(To(c), v.ring[c].gen)
  IN [v EXCEPT !.ring = [c \in Cells |-> IF c \in queued /\ live(c) /\ c \in held
                                        THEN v.ring[c] ELSE None],
               !.wrong = @ \cup {c \in queued \ held : live(c) /\ ~ To(c).closing
                                                       /\ To(c).who # v.ring[c].who}]

-----------------------------------------------------------------------------
\* Actions.

Running == ~ t.done

\* srvrun_serve_batch, of one datagram.  The timers run after every batch; two
\* batches without them are a pass in which nothing was due and the pacer held
\* every datagram.
ServeI(p, boot) ==
  /\ Running /\ t.n < MaxClaims
  /\ LET v == srvrun_route_or_evict(srvrun_sweep_idle(t), p)
     IN t' = ServeSlotInitial(v, p, boot)
ServeP(k, eff) ==
  /\ Running /\ k <= t.n
  /\ t' = ServePacket(srvrun_sweep_idle(t), k, eff)

\* srvrun_fire_ptos and the drain that follows it, whether a batch came or not.
srvrun_fire_ptos(spent, held) ==
  /\ Running
  /\ \A i \in spent : srvrun_slot_busy(t.slot[i])
  /\ t' = srvrun_dgring_drain(srvrun_tick_slot(t, spent), held)

\* wired_server_wt_send_datagram_prio, by the application.
srvrun_dgring_push(i) ==
  /\ Running /\ t.slot[i].up /\ t.slot[i].sess
  /\ \E c \in Cells :
       /\ t.ring[c] = None
       /\ t' = [t EXCEPT !.ring[c] = [slot |-> i, gen |-> t.slot[i].gen,
                                      who |-> t.slot[i].who]]

\* srvrun_send_app_close, from a tick or a call of the application.
srvrun_send_app_close(i) ==
  /\ Running /\ t.slot[i].up /\ ~ t.slot[i].closing
  /\ t' = srvrun_close_send(t, {i})

\* srvrun_sigterm_handler.
Shutdown ==
  /\ Running /\ ~ t.down
  /\ t' = [t EXCEPT !.down = TRUE]

\* srvrun_close_drained: the drain is over; what is still up is closed.
srvrun_close_drained ==
  /\ t.down /\ Running
  /\ t' = [srvrun_close_send(t, {i \in TableSlots : t.slot[i].up}) EXCEPT !.done = TRUE]

Tick ==
  /\ Running /\ t.now < MaxTime
  /\ t' = [t EXCEPT !.now = @ + 1]

TableNext ==
  \/ \E p \in Clients, boot \in {"ok", "pending", "failed"} : ServeI(p, boot)
  \/ \E k \in Claims, eff \in Effects : ServeP(k, eff)
  \/ \E spent \in SUBSET TableSlots, held \in SUBSET Cells : srvrun_fire_ptos(spent, held)
  \/ \E i \in TableSlots : srvrun_dgring_push(i) \/ srvrun_send_app_close(i)
  \/ Shutdown \/ srvrun_close_drained \/ Tick

TableSpec == TableInit /\ [][TableNext]_tableVars
-----------------------------------------------------------------------------
\* Properties.

TableTypeOK ==
  /\ t.now \in 1 .. MaxTime /\ {t.done, t.down} \subseteq BOOLEAN
  /\ t.slot \in [TableSlots -> [live : BOOLEAN, who : 0 .. MaxClaims,
                           odcid : Clients \cup {None}, gen : 0 .. MaxClaims, up : BOOLEAN,
                           boot : BOOLEAN, conf : BOOLEAN, closing : BOOLEAN, until : Nat,
                           last : 0 .. MaxTime, since : 0 .. MaxTime, sess : BOOLEAN]]
  /\ t.ring \in [Cells -> {None} \cup [slot : TableSlots, gen : 0 .. MaxClaims, who : Claims]]

\* The application hears of the end of every session exactly once: when the
\* connection starts closing, or when its slot goes while it was open, whichever
\* comes first, and at the latest when the server stops.
SessionToldOnce ==
  \A k \in t.opened :
    LET open == \E i \in TableSlots : t.slot[i].who = k /\ t.slot[i].sess
    IN t.told[k] = (IF open THEN 0 ELSE 1) /\ (t.done => ~ open)

\* A queued datagram goes out on the connection it was queued for, whoever has
\* the slot by then (srvrun_gen.h: "tell a reused slot from the one a reference
\* was taken for").
RingToOwner == t.wrong = {}

\* An entry of the table is live as long as its slot is busy: else no sweep, no
\* eviction and no timer would ever free it; and no client has two.
NoLeakedEntry ==
  \A i \in TableSlots :
    /\ t.slot[i].live <=> srvrun_slot_busy(t.slot[i])
    /\ \A j \in TableSlots : i # j /\ t.slot[i].live /\ t.slot[j].live =>
         t.slot[i].odcid # t.slot[j].odcid
=============================================================================
