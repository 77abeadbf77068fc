------------------------------ MODULE BootFlight ------------------------------
(***************************************************************************)
(* The boot of one connection: the ClientHello is put together from        *)
(* Initials, answered perhaps by a HelloRetryRequest and then by the accept*)
(* flight (an Initial and some Handshake datagrams), which is sent, held   *)
(* back and resent within three times the bytes received until the         *)
(* client's address is validated (RFC 9000 8.1), until the client's        *)
(* Finished confirms the handshake and HANDSHAKE_DONE reaches it.          *)
(*                                                                         *)
(* Sizes are in units of 400 bytes.  Datagrams are lost and overtake each  *)
(* other; repeats come from the timers of both sides.                      *)
(***************************************************************************)
EXTENDS Integers, Sequences, FiniteSets, FiniteSetsExt

CONSTANTS
  Initial,     \* size of an Initial, the client's and the server's
  MaxCredit,   \* bound: where the count of bytes allowed saturates
  PtoMax,      \* SRVRUN_BOOT_PTO_MAX
  MaxDrops,    \* bound: datagrams lost
  Openings,    \* cases: [hello, retry, token, flight], see BootInit
  Quiet,       \* timers are longer than a round trip: they fire on a silent net
  GivesUp      \* the budget of boot probes may run out before the client speaks

\* A ClientHello comes in one or two parts; the flight is given by where its datagrams
\* end.  The boot probes at least once.
Opening == [hello : 1 .. 2, retry : BOOLEAN, token : BOOLEAN, flight : Seq(Nat)]
ASSUME BootAssumption ==
  /\ Initial \in Nat /\ MaxCredit \in Nat /\ PtoMax \in Nat \ {0} /\ MaxDrops \in Nat
  /\ Openings \subseteq Opening

VARIABLE b
bootVars == <<b>>

\* hello: parts of the first ClientHello (1, 2) and the second one (3) that are
\* in the accumulator, of open.hello parts; open.retry: the first one is answered
\* by a HelloRetryRequest; open.token: it carries a token that validates the
\* client's address (addr_validated); open.flight: where each Handshake datagram
\* of the flight ends (the running sums of boot_dgram_len); alt: the client may
\* use our connection id (wired_srvboot_acc_allow); ini: what boot_ini holds;
\* credit: 3 boot_rx_bytes - boot_tx_bytes; out: datagrams sent in the current
\* call; bye: the size of the goodbye, which boot_tx_bytes leaves out.  has, done:
\* the client's side.
BootInit ==
  \E open \in Openings :
    b = [open |-> open, up |-> FALSE, hello |-> {}, alt |-> FALSE, ini |-> "none",
         sent |-> 0, flip |-> FALSE, hsSeen |-> FALSE, conf |-> FALSE, onertt |-> FALSE,
         count |-> 0, credit |-> 0, out |-> 0, gone |-> FALSE, bye |-> 0,
         toServer |-> {}, toClient |-> {}, drops |-> 0, has |-> {}, done |-> FALSE]

FlightLen(v) == Len(v.open.flight)
Pieces   == {<<"ini">>} \cup ({"hs"} \X (1 .. FlightLen(b)))

Least(x, y) == IF x < y THEN x ELSE y

-----------------------------------------------------------------------------
\* The gate.

\* srvrun_path_validated.
srvrun_path_validated(v) == v.conf \/ v.hsSeen \/ v.open.token

\* Defect: any budget left lets a whole datagram through.
AnyBudgetOpensGate(v, size) == ~ srvrun_path_validated(v) /\ v.credit <= 0

\* srvrun_boot_gate_blocks.
srvrun_boot_gate_blocks(v, size) == ~ srvrun_path_validated(v) /\ size > v.credit

\* srvrun_boot_send: once the address is validated the count is of no use.
srvrun_boot_send(v, dgrams, size) ==
  [v EXCEPT !.toClient = @ \cup dgrams, !.out = @ + Cardinality(dgrams),
            !.credit = IF srvrun_path_validated(v) THEN @ ELSE @ - size]

Gated(v, m, size) == IF srvrun_boot_gate_blocks(v, size) THEN v ELSE srvrun_boot_send(v, {m}, size)

\* srvrun_boot_send_initial: not once the Initial keys are gone.
srvrun_boot_send_initial(v) == IF v.hsSeen THEN v ELSE Gated(v, <<v.ini>>, Initial)

\* srvrun_boot_sent_off: the bytes of the first k Handshake datagrams.
srvrun_boot_sent_off(v, k) == IF k = 0 THEN 0 ELSE v.open.flight[k]

\* srvrun_boot_send_hs_gated: on from the first datagram not sent, up to the first
\* that does not fit.
srvrun_boot_send_hs_gated(v) ==
  LET bytes(k) == srvrun_boot_sent_off(v, k) - srvrun_boot_sent_off(v, v.sent)
      next     == Max({k \in v.sent .. FlightLen(v) :
                         k = v.sent \/ ~ srvrun_boot_gate_blocks(v, bytes(k))})
  IN IF ~ v.up THEN v
     ELSE [srvrun_boot_send(v, {"hs"} \X (v.sent + 1 .. next), bytes(next)) EXCEPT !.sent = next]

-----------------------------------------------------------------------------
\* Resending.

\* Defect: a flight that was sent whole is never started over.
NeverRewinds(v) == srvrun_boot_send_hs_gated(v)

\* srvrun_resend_hs: the flight starts over once all of it has been sent.
srvrun_resend_hs(v) ==
  srvrun_boot_send_hs_gated([v EXCEPT !.sent = IF @ = FlightLen(v) THEN 0 ELSE @])

\* srvrun_boot_hs_probe: a small Handshake PING when nothing larger fits.
srvrun_boot_hs_probe(v) == IF v.up THEN Gated(v, <<"ping">>, 1) ELSE v

\* srvrun_resend_boot_flight: a resend that was blocked leaves the timer alone.
srvrun_resend_boot_flight(v) ==
  LET w     == [v EXCEPT !.out = 0]
      parts == IF v.flip THEN srvrun_boot_send_initial(srvrun_resend_hs(w))
               ELSE srvrun_resend_hs(srvrun_boot_send_initial(w))
      any   == IF parts.out > 0 THEN parts ELSE srvrun_boot_hs_probe(parts)
  IN [any EXCEPT !.flip = ~ @, !.count = IF any.out > 0 THEN 0 ELSE @]

\* srvrun_boot_probe_or_replay: a client known to be at 1-RTT gets a fresh PING.
srvrun_boot_probe_or_replay(v) ==
  IF v.onertt /\ ~ srvrun_boot_gate_blocks(v, 1)
  THEN [srvrun_boot_send([v EXCEPT !.out = 0], {<<"ping1">>}, 1) EXCEPT !.count = 0]
  ELSE srvrun_resend_boot_flight(v)

-----------------------------------------------------------------------------
\* The ClientHello.

\* srvrun_boot_partial_ack: with the ACK goes the leave to use our id.
srvrun_boot_partial_ack(v) ==
  IF srvrun_boot_gate_blocks(v, 1) THEN v
  ELSE srvrun_boot_send([v EXCEPT !.alt = TRUE], {<<"ack">>}, 1)

\* wired_srvboot_acc_complete: the second ClientHello after a HelloRetryRequest.
wired_srvboot_acc_complete(v) ==
  IF v.ini = "hrr" THEN 3 \in v.hello ELSE 1 .. v.open.hello \subseteq v.hello

\* srvrun_boot_hrr_sent; srvrun_boot_up.
srvrun_boot_hrr_sent(v) == [srvrun_boot_send_initial([v EXCEPT !.ini = "hrr"]) EXCEPT !.count = 0]
srvrun_boot_up(v) ==
  [srvrun_boot_send_hs_gated(
     srvrun_boot_send_initial([v EXCEPT !.up = TRUE, !.ini = "ini", !.sent = 0]))
   EXCEPT !.count = 0, !.hello = {}, !.alt = FALSE]

\* srvrun_cold_start.  had: a HelloRetryRequest was out before this datagram.
srvrun_cold_start(v, part, toScid) ==
  LET had  == v.ini = "hrr"
      fits == ~ toScid \/ v.alt   \* srvboot_acc_dcid_ok
      fed  == IF fits THEN [v EXCEPT !.hello = @ \cup {part}] ELSE v
      done == fits /\ wired_srvboot_acc_complete(fed)
  IN IF done /\ (had \/ ~ v.open.retry) THEN srvrun_boot_up(fed)
     ELSE LET w == IF done THEN srvrun_boot_hrr_sent(fed) ELSE fed
          IN IF had THEN srvrun_resend_boot_flight(w) ELSE srvrun_boot_partial_ack(w)

-----------------------------------------------------------------------------
\* srvrun_serve_slot, after the bytes are counted.

srvrun_awaiting_confirm(v) == v.up /\ ~ v.conf

\* srvrun_boot_release_pending.
srvrun_boot_release_pending(v) ==
  IF srvrun_awaiting_confirm(v) THEN srvrun_boot_send_hs_gated(v) ELSE v

\* A datagram of Initials only.
ServeInitial(v, part, toScid) ==
  IF ~ v.up THEN srvrun_cold_start(v, part, toScid)
  ELSE IF srvrun_awaiting_confirm(v) /\ ~ v.hsSeen
  THEN srvrun_resend_boot_flight([v EXCEPT !.flip = toScid])
  ELSE srvrun_boot_release_pending(v)

\* A datagram that leads with a Handshake packet: srvrun_reconfirm_on_hs_probe,
\* the step (srvrun_boot_on_initial_discard), the replay for a client that is
\* still short of something.
ServeHandshake(v, finished) ==
  IF ~ v.up THEN v
  ELSE IF v.conf THEN [v EXCEPT !.toClient = @ \cup {<<"done">>}]
  ELSE LET seen == [v EXCEPT !.hsSeen = TRUE, !.count = IF v.hsSeen THEN @ ELSE 0]
       IN IF finished THEN [seen EXCEPT !.conf = TRUE, !.toClient = @ \cup {<<"done">>}]
          ELSE srvrun_boot_release_pending(srvrun_boot_probe_or_replay(seen))

\* srvrun_boot_early_onertt: held until the handshake is confirmed.
ServeOneRtt(v) == IF srvrun_awaiting_confirm(v) THEN [v EXCEPT !.onertt = TRUE] ELSE v

Size(m) == IF m[1] = "ch" THEN Initial ELSE 1

ServeSlot(v, m) ==
  LET w == [v EXCEPT !.toServer = @ \ {m}, !.out = 0,
                     !.credit = Least(MaxCredit, @ + 3 * Size(m))]
  IN IF v.gone THEN [w EXCEPT !.credit = v.credit]
     ELSE
     CASE m[1] = "ch"  -> ServeInitial(w, m[2], m[3])
       [] m[1] = "hs"  -> ServeHandshake(w, FALSE)
       [] m[1] = "fin" -> ServeHandshake(w, TRUE)
       [] m[1] = "one" -> ServeOneRtt(w)

-----------------------------------------------------------------------------
\* Actions.

Receive(m) ==
  /\ m \in b.toServer
  /\ b' = [ServeSlot(b, m) EXCEPT !.out = 0]

Silent == b.toServer = {} /\ b.toClient = {}

\* srvrun_boot_give_up_close: a client at 1-RTT is told.  srvrun_close_resend puts the
\* CONNECTION_CLOSE in a 1-RTT packet, in a Handshake packet and, while the Initial
\* keys live, in an unpadded Initial, a datagram each (srvrun_close_send_long); they
\* leave through srvrun_send_now, past srvrun_boot_gate_blocks and uncounted.
srvrun_boot_give_up_close(v) ==
  IF ~ v.onertt THEN v
  ELSE [v EXCEPT !.toClient = @ \cup {<<"bye">>}, !.bye = IF v.hsSeen THEN 2 ELSE 3]

\* srvrun_boot_pto_slot: give up and say goodbye, or resend and count the probe.
BootPto ==
  /\ ~ b.gone /\ (srvrun_awaiting_confirm(b) \/ b.ini = "hrr")
  /\ Quiet => Silent
  /\ LET fired == b.count + 1
         w     == srvrun_boot_probe_or_replay(b)
     IN IF fired >= PtoMax THEN GivesUp /\ b' = [srvrun_boot_give_up_close(b) EXCEPT !.gone = TRUE]
        ELSE b' = [w EXCEPT !.count = IF w.out > 0 THEN fired ELSE b.count, !.out = 0]

\* The client: what it would send now.  It uses our id once it has heard of it.
Wants ==
  IF b.done THEN {}
  ELSE IF Pieces \subseteq b.has THEN {<<"fin">>, <<"one">>}
  ELSE IF <<"ini">> \in b.has THEN {<<"hs">>}
  ELSE IF <<"hrr">> \in b.has THEN {<<"ch", 3, TRUE>>}
  ELSE {<<"ch", i, <<"ack">> \in b.has>> : i \in 1 .. b.open.hello}

ClientTimer ==
  /\ Wants # {} /\ (Quiet => Silent)
  /\ b' = [b EXCEPT !.toServer = @ \cup Wants]

\* A Handshake datagram is of use only with the keys that the Initial brings.
ClientReceives(m) ==
  /\ m \in b.toClient
  /\ b' = [b EXCEPT !.toClient = @ \ {m},
       !.has = IF m \in {<<"ack">>, <<"hrr">>, <<"ini">>} \/ (m \in Pieces /\ <<"ini">> \in b.has)
               THEN @ \cup {m} ELSE @,
       !.done = @ \/ (m = <<"done">> /\ Pieces \subseteq b.has)]

Lose ==
  /\ b.drops < MaxDrops
  /\ \/ \E m \in b.toServer : b' = [b EXCEPT !.toServer = @ \ {m}, !.drops = @ + 1]
     \/ \E m \in b.toClient : b' = [b EXCEPT !.toClient = @ \ {m}, !.drops = @ + 1]

Deliver == (\E m \in b.toServer : Receive(m)) \/ (\E m \in b.toClient : ClientReceives(m))

BootNext == Deliver \/ BootPto \/ ClientTimer \/ Lose

BootSpec == BootInit /\ [][BootNext]_bootVars

\* Datagrams arrive or are lost, so that the net falls silent again and again; the
\* client's timer goes on firing.  The server's own probes are left to chance.
BootFairSpec == BootSpec /\ []<>Silent /\ SF_bootVars(ClientTimer)
-----------------------------------------------------------------------------
\* Properties.

BootTypeOK ==
  /\ b.hello \subseteq 1 .. 3 /\ b.ini \in {"none", "hrr", "ini"} /\ b.sent \in 0 .. FlightLen(b)
  /\ b.count \in 0 .. PtoMax - 1 /\ b.credit \in Int /\ b.bye \in Nat
  /\ b.has \subseteq Pieces \cup {<<"ack">>, <<"hrr">>}
  /\ b.open \in Openings
  /\ {b.up, b.alt, b.flip, b.hsSeen, b.conf, b.onertt, b.gone, b.done} \subseteq BOOLEAN

\* Until the address is validated the boot has sent at most three times the bytes it
\* received, over every path that asks srvrun_boot_gate_blocks (flight, resend, probe,
\* PING, ACK, HelloRetryRequest), and the one path that does not ask, the goodbye to
\* a client at 1-RTT, takes it past that by three small datagrams at most, once,
\* as the slot is given up.  That excess is real, against srvrun.h:430-433
\* ("everything sent before that (the boot flight) is bound by the 3x
\* anti-amplification budget") and srvrun_close_long.c:35-37 ("the antiamp budget of
\* an unvalidated path stays untouched").
AmplificationBound ==
  ~ srvrun_path_validated(b) =>
    b.credit - b.bye >= IF b.gone /\ b.onertt THEN -3 ELSE 0

\* The handshake completes for a client that keeps asking, whatever is lost and
\* however small the budget is next to the flight (srvrun_resend_hs,
\* srvrun_boot_hs_probe, srvrun_reconfirm: each undoes a deadlock seen live).
HandshakeCompletes == <>b.done
=============================================================================
