------------------------------ MODULE MCWorker ------------------------------
(***************************************************************************)
(* The threads of the driver and, for one worker, its connection table, a  *)
(* handshake and a relay of the MOQT hub that it serves, checked side by   *)
(* side; a behaviour picks a part and stays with it, the others rest.      *)
(*   threads  three workers on three registry slots, so that a slot can be *)
(*            claimed, released and claimed again while the third worker   *)
(*            is scanning or pushing through it                            *)
(*   mesh     two workers (the third thread does not start) that make two  *)
(*            broadcasts each, so that their order matters                 *)
(*   table    three claims on a table of two by two clients, so that one   *)
(*            is refused, evicted or served in the slot of a dead one      *)
(*   boot     a handshake whose flight needs the whole budget of an        *)
(*            Initial, with timers that fire at any time and a probe       *)
(*            budget that may run out; a datagram may stay on its way for  *)
(*            ever, so that losing one adds nothing                        *)
(*   relay    a stream of three Objects, eight bytes with its header,      *)
(*            relayed to two subscribers through a ring of six bytes, so   *)
(*            that the ring wraps and the publisher is held; one of the    *)
(*            Objects outgrows the fragment buffer                         *)
(***************************************************************************)
EXTENDS SrvThreads, ConnTable, BootFlight, TLC

CONSTANTS w1, w2, w3, cl1, cl2, Parts, RelayEdges
MCWorkers == {w1, w2, w3}
Sym == Permutations(MCWorkers) \cup Permutations({cl1, cl2})

Handshake(hello, retry) ==
  [hello |-> hello, retry |-> retry, token |-> FALSE, flight |-> <<3>>]
MCOpenings == {Handshake(2, FALSE), Handshake(1, TRUE)}

VARIABLES part, pub, r, sub

Threads == INSTANCE SrvThreads WITH Depth <- 1, MaxBcast <- 1

M == INSTANCE MoqtRelay WITH Slots <- {cl1, cl2}, W <- 2, Round <- 1, FragMax <- 2,
       Ends <- <<2, 5, 8>>, Ranges <- {<<1, 3>>, <<2, 2>>, <<3, 3>>}, Edges <- RelayEdges
relay == <<pub, r, sub>>

\* A part that does not run rests in an initial state.
WorkerInit ==
  /\ part \in Parts
  /\ Init /\ TableInit /\ BootInit
  /\ part # "boot" => b.open = Handshake(2, FALSE)
  /\ IF part = "relay" THEN M!Init ELSE pub = None /\ r = None /\ sub = None

WorkerNext ==
  /\ UNCHANGED part
  /\ \/ part = "threads" /\ Threads!Next /\ UNCHANGED <<t, b, relay>>
     \/ part = "mesh" /\ Next /\ Cardinality(spawned') <= 2 /\ UNCHANGED <<t, b, relay>>
     \/ part = "table" /\ TableNext /\ UNCHANGED <<vars, b, relay>>
     \/ part = "boot" /\ BootNext /\ UNCHANGED <<vars, t, relay>>
     \/ part = "relay" /\ M!Next /\ UNCHANGED <<vars, t, b>>

WorkerSpec == WorkerInit /\ [][WorkerNext]_<<part, vars, t, b, relay>>
-----------------------------------------------------------------------------
\* Every variable has its type.
TypesOK ==
  /\ TypeOK /\ TableTypeOK /\ BootTypeOK
  /\ part = "relay" => M!TypeOK

\* MoqtRelay: every subscriber's stream carries exactly its Objects.
RelayExact == part = "relay" => M!RelayExact
=============================================================================
