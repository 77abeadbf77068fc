------------------------------- MODULE MCLive -------------------------------
(***************************************************************************)
(* One ring step by step, and what must happen in the end, checked side by *)
(* side for parts of the server that share no state here: a behaviour      *)
(* picks a part and stays with it.                                         *)
(*   ring     three messages of different lengths, one larger than a slot, *)
(*            two slots, counters that wrap at four                        *)
(*   threads  two workers, one broadcast each                              *)
(*   send     a response of up to three bytes, one packet lost             *)
(*   flow     one response of up to four bytes against limits of two       *)
(*   boot     a handshake whose flight is larger than the budget that one  *)
(*            Initial brings, or whose ClientHello takes two datagrams or  *)
(*            a HelloRetryRequest; two datagrams lost                      *)
(* The parts that do not run rest in an initial state.                     *)
(***************************************************************************)
EXTENDS SrvInbox, FiniteSets, TLC

CONSTANTS short, long, huge, w1, w2, s1, r1, Parts, Handshakes

VARIABLES
  part,
  tid, index, row, bcast_n, mesh, mapped, pc, at, nsent, got, tcpc, spawned, shutdown,
  qlen, cur, chunk, store, log, requeue, streaming, in_use, txpn, largest, rec, pto, probe,
  net, drops, rcvd, have, fins, sphase,
  slot, started, conn_credit, blocked_at, acct, flying, max_data_seen, max_stream_data,
  fsent, limit_data, limit, asked, fphase,
  b

ThreadVars == <<tid, index, row, bcast_n, mesh, mapped, pc, at, nsent, got, tcpc,
                spawned, shutdown>>
SendVars == <<qlen, cur, chunk, store, log, requeue, streaming, in_use, txpn, largest,
              rec, pto, probe, net, drops, rcvd, have, fins, sphase>>
FlowVars == <<slot, started, conn_credit, blocked_at, acct, flying, max_data_seen,
              max_stream_data, fsent, limit_data, limit, asked, fphase>>
AllVars == <<part, vars, ThreadVars, SendVars, FlowVars, b>>

MCMsgs == {short, long, huge}
MCSizeOf == short :> 1 @@ long :> 2 @@ huge :> 3

T == INSTANCE SrvThreads WITH Workers <- {w1, w2}, NSlots <- 2, Depth <- 2,
       MaxBcast <- 1, cpc <- tcpc
S == INSTANCE SendSession WITH Cap <- 4, Chunk <- 2, Base <- 1, LogCap <- 3,
       RecCap <- 20, Threshold <- 2, PtoMax <- 3, Probes <- 2, MaxLen <- 3,
       MaxPn <- 12, MaxDrops <- 1, SealFails <- FALSE, HandlerDeclines <- FALSE,
       Spurious <- FALSE, ring <- store, phase <- sphase
F == INSTANCE FlowCredit WITH Streams <- {s1}, Slots <- {r1}, SeenCap <- 2, Mps <- 2,
       InitData <- 2, InitStream <- 2, Raise <- 2, MaxLimit <- 4, MaxLen <- 4,
       Reordered <- FALSE, sent <- fsent, phase <- fphase

Opening(hello, retry, flight) ==
  [hello |-> hello, retry |-> retry, token |-> FALSE, flight |-> flight]
LongFlights == {Opening(1, FALSE, <<3, 6, 8>>), Opening(1, FALSE, <<3, 6, 9, 12, 15>>),
                [Opening(1, FALSE, <<3, 6, 8>>) EXCEPT !.token = TRUE],
                Opening(2, FALSE, <<3, 5>>), Opening(1, TRUE, <<3, 5>>)}
SplitHello == {Opening(2, FALSE, <<3, 6, 8>>)}

B == INSTANCE BootFlight WITH Initial <- 3, MaxCredit <- 18, PtoMax <- 3,
       MaxDrops <- IF Handshakes = SplitHello THEN 3 ELSE 2,
       Openings <- Handshakes, Quiet <- TRUE, GivesUp <- FALSE

-----------------------------------------------------------------------------
\* A part at rest, and a step of one part.
LiveInit ==
  /\ part \in Parts
  /\ Init /\ T!Init /\ S!Init /\ F!Init /\ B!BootInit
  /\ part # "boot" => b.open = CHOOSE o \in Handshakes : TRUE
  /\ part # "send" => qlen = 1 /\ ~ streaming

InRing(A) == part = "ring" /\ A /\ UNCHANGED <<part, ThreadVars, SendVars, FlowVars, b>>
InThreads(A) == part = "threads" /\ A /\ UNCHANGED <<part, vars, SendVars, FlowVars, b>>
InSend(A) == part = "send" /\ A /\ UNCHANGED <<part, vars, ThreadVars, FlowVars, b>>
InFlow(A) == part = "flow" /\ A /\ UNCHANGED <<part, vars, ThreadVars, SendVars, b>>
InBoot(A) == part = "boot" /\ A /\ UNCHANGED <<part, vars, ThreadVars, SendVars, FlowVars>>

LiveNext ==
  \/ InRing(Next)
  \/ InThreads(T!Next) \/ InSend(S!Next) \/ InFlow(F!Next) \/ InBoot(B!BootNext)

\* The fairness of the parts (FairSpec of each module): a behaviour has only one
\* part, so one condition can stand for a condition of each.
LiveSpec ==
  /\ LiveInit /\ [][LiveNext]_AllVars
  /\ []<>B!Silent
  /\ WF_AllVars(InRing(Pop) \/ InThreads(T!ControlStep) \/ InSend(S!Reap) \/ InFlow(F!PumpStarts))
  /\ WF_AllVars(InThreads(T!WorkerStep(w1)) \/ InSend(S!Pump) \/ InFlow(F!PumpEnds))
  /\ WF_AllVars(InThreads(T!WorkerStep(w2)))
  /\ SF_AllVars(InBoot(B!ClientTimer) \/ InThreads(T!LoopEnds(w1)) \/ InSend(\E p \in net : S!Deliver(p))
                \/ InFlow(None \in asked /\ F!RaiseData))
  /\ SF_AllVars(InThreads(T!LoopEnds(w2))
                \/ InSend(~ S!Acknowledged /\ S!FeedAcks(rcvd, 0))
                \/ InFlow(s1 \in asked /\ F!RaiseStream(s1)))
  /\ SF_AllVars(InThreads(T!Drain(w1)) \/ InSend(S!Timers)
                \/ InFlow(F!GatherMaxStreamData(s1, limit[s1])))
  /\ SF_AllVars(InThreads(T!Drain(w2)) \/ InSend(S!Tick)
                \/ InFlow(F!GatherMaxData(limit_data)))
  /\ SF_AllVars(InSend(S!PumpSend)
                \/ InFlow(\E acked \in SUBSET {r1} : F!ApplyCredits(acked) /\ ~ flying'))
  /\ SF_AllVars(InFlow(F!PumpOne(r1)))
  /\ SF_AllVars(InFlow(F!PumpBlocked(r1, {})))
-----------------------------------------------------------------------------
\* SrvThreads: a broadcast that a worker was sent is drained.
InboxDrained == T!InboxDrained
\* SrvThreads: a shutdown request ends the driver.
ShutdownCompletes == T!ShutdownCompletes
\* SendSession: every byte of the response is delivered.
Delivered == part = "send" => S!Delivered
\* FlowCredit: a blocked response gets through.
BlockedGetsThrough == F!BlockedGetsThrough
\* BootFlight: the handshake completes for a client that keeps asking.
HandshakeCompletes == part = "boot" => B!HandshakeCompletes
=============================================================================
