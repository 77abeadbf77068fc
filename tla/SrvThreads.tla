------------------------------ MODULE SrvThreads ------------------------------
(***************************************************************************)
(* The threaded driver (app/http3/server/srvthreads) and the broadcast     *)
(* registry of srvrun_bcast.c that its workers share.  A control thread    *)
(* maps the inbox mesh, spawns the workers, waits for the shutdown word,   *)
(* joins every worker and unmaps the mesh.  A worker registers, serves     *)
(* (draining its own inbox row and broadcasting to the others' rows) and   *)
(* unregisters.  Every atomic load, store or compare-exchange on the       *)
(* registry is a step of its own.                                          *)
(*                                                                         *)
(* Each ring mesh[t][j] (row of worker t, column of worker j) is the       *)
(* bounded lossy FIFO that SrvInbox.tla implements.                        *)
(***************************************************************************)
EXTENDS Integers, Sequences, FiniteSets

CONSTANTS Workers,    \* the worker threads, their tids and their mesh indexes
          NSlots,     \* SRVRUN_BCAST_MAX, registry capacity
          Depth,      \* WIRED_SRVINBOX_DEPTH
          MaxBcast    \* bound: broadcasts one worker's application makes

ASSUME WorkersAssumption == IsFiniteSet(Workers) /\ Workers # {}
\* WIRED_SRVTHREADS_MAX and SRVRUN_BCAST_MAX are the same number.
ASSUME SlotsAssumption == NSlots \in Nat /\ Cardinality(Workers) <= NSlots
ASSUME BoundsAssumption == Depth \in Nat \ {0} /\ MaxBcast \in Nat
ASSUME TidAssumption == {"free", "claiming", "none"} \cap Workers = {}

Slots == 1 .. NSlots
Bcasts  == 1 .. MaxBcast       \* a worker's broadcasts, in the order it makes them

VARIABLES
  tid,       \* registry: "free", "claiming" or the tid that published the slot
  index,     \* registry: the mesh index the slot's owner wrote
  row,       \* registry: whose inbox row the slot points at
  bcast_n,   \* g_srvrun_bcast_n
  mesh,      \* mesh[t][j]: messages from j that t has not drained
  mapped,    \* the mesh and the envs are mapped
  pc,        \* where each worker is
  at,        \* the slot a worker's scan, push loop or claim is at
  nsent,     \* broadcasts made so far
  got,       \* got[w][v]: v's broadcasts that w fanned out to its connections
  cpc,       \* where the control thread is
  spawned,   \* workers already started
  shutdown   \* g_srvrun_shutdown

registry == <<tid, index, row, bcast_n>>
worker   == <<pc, at, nsent, got>>
control  == <<cpc, spawned, mapped>>
vars     == <<registry, mesh, worker, control, shutdown>>

TypeOK ==
  /\ tid \in [Slots -> Workers \cup {"free", "claiming"}]
  /\ index \in [Slots -> Workers \cup {"none"}]
  /\ row \in [Slots -> Workers \cup {"none"}]
  /\ bcast_n \in 0 .. Cardinality(Workers)
  /\ mesh \in [Workers -> [Workers -> Seq(Bcasts)]]
  /\ mapped \in BOOLEAN
  /\ pc \in [Workers -> {"unborn", "start", "claim", "fill", "publish", "count",
                         "serve", "loop", "tid", "push",
                         "unregister", "uncount", "exited"}]
  /\ at \in [Workers -> 0 .. NSlots + 1]
  /\ nsent \in [Workers -> 0 .. MaxBcast]
  /\ got \in [Workers -> [Workers -> Seq(Bcasts)]]
  /\ cpc \in {"setup", "spawn", "wait", "join", "done"}
  /\ spawned \subseteq Workers
  /\ shutdown \in BOOLEAN

Init ==
  /\ tid = [s \in Slots |-> "free"]
  /\ index = [s \in Slots |-> "none"] /\ row = [s \in Slots |-> "none"]
  /\ bcast_n = 0
  /\ mesh = [t \in Workers |-> [j \in Workers |-> <<>>]]
  /\ mapped = FALSE
  /\ pc = [w \in Workers |-> "unborn"]
  /\ at = [w \in Workers |-> 0]
  /\ nsent = [w \in Workers |-> 0]
  /\ got = [w \in Workers |-> [v \in Workers |-> <<>>]]
  /\ cpc = "setup" /\ spawned = {}
  /\ shutdown = FALSE

-----------------------------------------------------------------------------
\* The registry as one thread sees it.

Goto(w, here, there) == pc[w] = here /\ pc' = [pc EXCEPT ![w] = there]

\* srvrun_bcast_find on the caller's own tid: no other thread ever writes or
\* clears that tid, so the scan is one step.  0 stands for -1.
srvrun_bcast_find(w) ==
  IF \E s \in Slots : tid[s] = w
  THEN CHOOSE s \in Slots : tid[s] = w /\ \A r \in Slots : tid[r] = w => s <= r
  ELSE 0

\* wired_srvrun_broadcast_register, up to the slot scan.
Register(w) ==
  /\ Goto(w, "start", IF srvrun_bcast_find(w) # 0 THEN "serve" ELSE "claim")
  /\ at' = [at EXCEPT ![w] = 1]
  /\ UNCHANGED <<registry, mesh, nsent, got, control, shutdown>>

\* Defect: the slot is taken with a plain store of the final tid and no claim, before
\* its fields are written
ClaimPublishesAtOnce(w) ==
  LET s == at[w] IN
  /\ pc[w] = "claim"
  /\ \/ /\ s > NSlots
        /\ pc' = [pc EXCEPT ![w] = "serve"]
        /\ at' = [at EXCEPT ![w] = 0]
        /\ UNCHANGED tid
     \/ /\ s <= NSlots /\ tid[s] = "free"
        /\ tid' = [tid EXCEPT ![s] = w]
        /\ pc' = [pc EXCEPT ![w] = "fill"]
        /\ UNCHANGED at
     \/ /\ s <= NSlots /\ tid[s] # "free"
        /\ at' = [at EXCEPT ![w] = s + 1]
        /\ UNCHANGED <<tid, pc>>
  /\ UNCHANGED <<index, row, bcast_n, mesh, nsent, got, control, shutdown>>

\* Defect: one try only: a taken slot ends the scan
ClaimOneTry(w) ==
  LET s == at[w] IN
  /\ pc[w] = "claim"
  /\ IF tid[s] = "free"
     THEN /\ tid' = [tid EXCEPT ![s] = "claiming"]
          /\ pc' = [pc EXCEPT ![w] = "fill"]
          /\ UNCHANGED at
     ELSE /\ pc' = [pc EXCEPT ![w] = "serve"]
          /\ at' = [at EXCEPT ![w] = 0]
          /\ UNCHANGED tid
  /\ UNCHANGED <<index, row, bcast_n, mesh, nsent, got, control, shutdown>>

\* One compare-exchange of srvrun_bcast_claim's scan; past the last slot the
\* registration is dropped and the worker serves unregistered.
Claim(w) ==
  LET s == at[w] IN
  /\ pc[w] = "claim"
  /\ \/ /\ s > NSlots
        /\ pc' = [pc EXCEPT ![w] = "serve"]
        /\ at' = [at EXCEPT ![w] = 0]
        /\ UNCHANGED tid
     \/ /\ s <= NSlots /\ tid[s] = "free"
        /\ tid' = [tid EXCEPT ![s] = "claiming"]
        /\ pc' = [pc EXCEPT ![w] = "fill"]
        /\ UNCHANGED at
     \/ /\ s <= NSlots /\ tid[s] # "free"
        /\ at' = [at EXCEPT ![w] = s + 1]
        /\ UNCHANGED <<tid, pc>>
  /\ UNCHANGED <<index, row, bcast_n, mesh, nsent, got,
                 control, shutdown>>

\* The claimed entry's own fields.
Fill(w) ==
  /\ Goto(w, "fill", "publish")
  /\ index' = [index EXCEPT ![at[w]] = w]
  /\ row' = [row EXCEPT ![at[w]] = w]
  /\ UNCHANGED <<tid, bcast_n, mesh, at, nsent, got,
                 control, shutdown>>

Publish(w) ==
  /\ Goto(w, "publish", "count")
  /\ tid' = [tid EXCEPT ![at[w]] = w]
  /\ UNCHANGED <<index, row, bcast_n, mesh, at, nsent, got,
                 control, shutdown>>

\* Defect: a registration does not raise the count
CountForgotten(w) ==
  /\ Goto(w, "count", "serve")
  /\ UNCHANGED <<registry, mesh, at, nsent, got, control, shutdown>>

Count(w) ==
  /\ Goto(w, "count", "serve")
  /\ bcast_n' = bcast_n + 1
  /\ UNCHANGED <<tid, index, row, mesh, at, nsent, got,
                 control, shutdown>>

\* wired_srvrun_broadcast_unregister: clear the slot, then the count.
Unregister(w) ==
  LET s == srvrun_bcast_find(w) IN
  /\ Goto(w, "unregister", IF s = 0 THEN "exited" ELSE "uncount")
  /\ tid' = IF s = 0 THEN tid ELSE [tid EXCEPT ![s] = "free"]
  /\ UNCHANGED <<index, row, bcast_n, mesh, at, nsent, got,
                 control, shutdown>>

Uncount(w) ==
  /\ Goto(w, "uncount", "exited")
  /\ bcast_n' = bcast_n - 1
  /\ UNCHANGED <<tid, index, row, mesh, at, nsent, got,
                 control, shutdown>>

-----------------------------------------------------------------------------
\* Serving.

\* srvthreads_worker_serve_xdp returns before it registers when its queue
\* does not open.
OpenFails(w) ==
  /\ Goto(w, "start", "exited")
  /\ UNCHANGED <<registry, mesh, at, nsent, got, control, shutdown>>

\* wired_srvrun_serve_env: a socket that does not bind ends the worker, else
\* srvrun_loop runs.
Serve(w) ==
  /\ pc[w] = "serve"
  /\ \E next \in {"loop", "unregister"} : pc' = [pc EXCEPT ![w] = next]
  /\ UNCHANGED <<registry, mesh, at, nsent, got, control, shutdown>>

\* srvrun_bcast_drain_self at the top of srvrun_step: nothing to do with fewer
\* than two workers registered, or unregistered oneself; else at most one
\* message per column (srvrun_bcast_drain_one), each fanned out to this
\* worker's own connections.
Drain(w) ==
  LET t == row[srvrun_bcast_find(w)] IN
  /\ pc[w] = "loop" /\ bcast_n > 1 /\ srvrun_bcast_find(w) # 0
  /\ \E j \in Workers : mesh[t][j] # <<>>
  /\ mesh' = [mesh EXCEPT ![t] =
                [j \in Workers |-> IF @[j] = <<>> THEN <<>> ELSE Tail(@[j])]]
  /\ got' = [got EXCEPT ![w] =
               [j \in Workers |-> IF mesh[t][j] = <<>> THEN @[j]
                                  ELSE Append(@[j], Head(mesh[t][j]))]]
  /\ UNCHANGED <<registry, pc, at, nsent, control, shutdown>>

\* wired_server_broadcast_datagram from an application callback: the worker's
\* own connections first, then the push loop over the registry when the mesh
\* has other members.  An unregistered caller reaches the process-wide
\* environment, which no worker of this driver serves.
Broadcast(w) ==
  /\ pc[w] = "loop" /\ nsent[w] < MaxBcast
  /\ nsent' = [nsent EXCEPT ![w] = @ + 1]
  /\ IF srvrun_bcast_find(w) = 0
     THEN UNCHANGED <<pc, at, got>>
     ELSE /\ got' = [got EXCEPT ![w][w] = Append(@, nsent[w] + 1)]
          /\ pc' = [pc EXCEPT ![w] =
                      IF Cardinality(Workers) > 1 THEN "tid" ELSE "loop"]
          /\ at' = [at EXCEPT ![w] = 1]
  /\ UNCHANGED <<registry, mesh, control, shutdown>>

\* Defect: the caller's own slot is not skipped; its connections are served once more
LoadTidServesSelf(w) ==
  LET s == at[w] IN
  /\ pc[w] = "tid"
  /\ \/ /\ s > NSlots
        /\ pc' = [pc EXCEPT ![w] = "loop"]
        /\ UNCHANGED <<at, got>>
     \/ /\ s <= NSlots /\ tid[s] \in Workers /\ s # srvrun_bcast_find(w)
        /\ pc' = [pc EXCEPT ![w] = "push"]
        /\ UNCHANGED <<at, got>>
     \/ /\ s <= NSlots /\ ~ (tid[s] \in Workers /\ s # srvrun_bcast_find(w))
        /\ at' = [at EXCEPT ![w] = s + 1]
        /\ got' = IF s = srvrun_bcast_find(w)
                  THEN [got EXCEPT ![w][w] = Append(@, nsent[w])] ELSE got
        /\ UNCHANGED pc
  /\ UNCHANGED <<registry, mesh, nsent, control, shutdown>>

\* srvrun_bcast_mesh_target: slot at[w] is published and is not the caller's.
LoadTid(w) ==
  LET s == at[w] IN
  /\ pc[w] = "tid"
  /\ \/ /\ s > NSlots
        /\ pc' = [pc EXCEPT ![w] = "loop"]
        /\ UNCHANGED at
     \/ /\ s <= NSlots /\ tid[s] \in Workers /\ s # srvrun_bcast_find(w)
        /\ pc' = [pc EXCEPT ![w] = "push"]
        /\ UNCHANGED at
     \/ /\ s <= NSlots /\ ~ (tid[s] \in Workers /\ s # srvrun_bcast_find(w))
        /\ at' = [at EXCEPT ![w] = s + 1]
        /\ UNCHANGED pc
  /\ UNCHANGED <<registry, mesh, nsent, got, control, shutdown>>

\* Defect: the column is taken from the target's entry instead of the caller's
PushRowTargetColumn(w) ==
  LET t == row[at[w]]
      j == index[at[w]] IN
  /\ Goto(w, "push", "tid")
  /\ mesh' = IF Len(mesh[t][j]) = Depth THEN mesh
             ELSE [mesh EXCEPT ![t][j] = Append(@, nsent[w])]
  /\ at' = [at EXCEPT ![w] = @ + 1]
  /\ UNCHANGED <<registry, nsent, got, control, shutdown>>

\* The row pointer is a second load, so the slot may have a new owner by now;
\* the message goes to column e->index of that row, or is dropped when full.
PushRow(w) ==
  LET t == row[at[w]]
      j == index[srvrun_bcast_find(w)] IN
  /\ Goto(w, "push", "tid")
  /\ mesh' = IF Len(mesh[t][j]) = Depth THEN mesh
             ELSE [mesh EXCEPT ![t][j] = Append(@, nsent[w])]
  /\ at' = [at EXCEPT ![w] = @ + 1]
  /\ UNCHANGED <<registry, nsent, got, control, shutdown>>

\* srvrun_loop leaves once the shutdown word is set and its drain ticks are
\* spent; until then a step may still drain and broadcast.
LoopEnds(w) ==
  /\ shutdown /\ Goto(w, "loop", "unregister")
  /\ UNCHANGED <<registry, mesh, at, nsent, got, control, shutdown>>

-----------------------------------------------------------------------------
\* The control thread: wired_srvthreads_run.

\* Map the mesh and the envs; a failure ends the run before any worker exists.
Setup ==
  /\ cpc = "setup"
  /\ \/ cpc' = "spawn" /\ mapped' = TRUE
     \/ cpc' = "done" /\ UNCHANGED mapped
  /\ UNCHANGED <<registry, mesh, worker, spawned, shutdown>>

\* srvthreads_spawn_all stops at the first thread that does not start, and
\* its caller goes on with the ones that did.
Spawn ==
  /\ cpc = "spawn"
  /\ \/ \E w \in Workers \ spawned :
          /\ pc' = [pc EXCEPT ![w] = "start"]
          /\ spawned' = spawned \cup {w}
          /\ UNCHANGED cpc
     \/ cpc' = "wait" /\ UNCHANGED <<pc, spawned>>
  /\ UNCHANGED <<registry, mesh, at, nsent, got, mapped, shutdown>>

\* srvthreads_wait_shutdown: the timed futex wait comes back on its own, so
\* the word is always looked at again.
Wait ==
  /\ cpc = "wait" /\ shutdown /\ cpc' = "join"
  /\ UNCHANGED <<registry, mesh, worker, spawned, mapped, shutdown>>

\* Defect: the mesh is unmapped as soon as shutdown is asked for, without the join
JoinNoWait ==
  /\ cpc = "join" /\ cpc' = "done" /\ mapped' = FALSE
  /\ UNCHANGED <<registry, mesh, worker, spawned, shutdown>>

\* Defect: the control thread waits for threads that never started, too
JoinEveryone ==
  /\ cpc = "join" /\ \A w \in Workers : pc[w] = "exited"
  /\ cpc' = "done" /\ mapped' = FALSE
  /\ UNCHANGED <<registry, mesh, worker, spawned, shutdown>>

\* srvthreads_join_all waits for every started worker to exit (a thread that
\* never started joins at once), then the mesh and the envs are unmapped.
Join ==
  /\ cpc = "join" /\ \A w \in spawned : pc[w] = "exited"
  /\ cpc' = "done" /\ mapped' = FALSE
  /\ UNCHANGED <<registry, mesh, worker, spawned, shutdown>>

\* The process-wide shutdown word.  The signals are blocked while the workers
\* start; the handler that sets the word is installed after that.
RequestShutdown ==
  /\ ~ shutdown /\ cpc = "wait" /\ shutdown' = TRUE
  /\ UNCHANGED <<registry, mesh, worker, control>>

-----------------------------------------------------------------------------
WorkerStep(w) ==
  \/ Register(w) \/ Claim(w) \/ Fill(w) \/ Publish(w) \/ Count(w)
  \/ Unregister(w) \/ Uncount(w)
  \/ OpenFails(w) \/ Serve(w) \/ Drain(w)
  \/ Broadcast(w) \/ LoadTid(w) \/ PushRow(w) \/ LoopEnds(w)

ControlStep == Setup \/ Spawn \/ Wait \/ Join

Next == (\E w \in Workers : WorkerStep(w)) \/ ControlStep \/ RequestShutdown

Spec == Init /\ [][Next]_vars

\* The kernel schedules every thread; a loop that has to leave leaves (its
\* drain ticks are bounded); a loop iteration drains, whatever its callbacks
\* broadcast.
FairSpec ==
  /\ Spec
  /\ WF_vars(ControlStep)
  /\ \A w \in Workers : /\ WF_vars(WorkerStep(w))
                        /\ SF_vars(LoopEnds(w))
                        /\ SF_vars(Drain(w))
-----------------------------------------------------------------------------
\* Properties.

\* The claim protocol: a published entry carries its own worker's index and
\* row, no worker is published twice, and a slot being filled has one filler.
RegistrySound ==
  /\ \A s \in Slots : tid[s] \in Workers => index[s] = tid[s] /\ row[s] = tid[s]
  /\ \A s, r \in Slots : tid[s] \in Workers /\ tid[s] = tid[r] => s = r
  /\ \A v, w \in Workers :
       /\ pc[v] \in {"fill", "publish"} /\ pc[w] \in {"fill", "publish"}
       /\ at[v] = at[w]
       => v = w

\* The registry is as large as the largest fleet: however registrations and
\* early failures interleave with a scan, no worker ends up serving
\* unregistered (its broadcasts would reach nobody).
NobodyLeftOut ==
  \A w \in Workers :
    pc[w] \in {"serve", "loop", "tid", "push"} => srvrun_bcast_find(w) # 0

\* No connection sees a broadcast twice or two broadcasts of one worker out of
\* order: not through the direct fan-out and the mesh both, and not when a
\* slot changes hands between the tid load and the row load of a push.
OnceInOrder ==
  \A w, v \in Workers :
    LET q == got[w][v] IN \A i, k \in 1 .. Len(q) : i < k => q[i] < q[k]

\* The ring contract SrvInbox relies on: only worker j ever pushes into a
\* column j, and only worker t ever pops from row t.
SingleProducerSingleConsumer ==
  [][\A t, j \in Workers :
       /\ Len(mesh'[t][j]) > Len(mesh[t][j]) => pc[j] = "push" /\ pc'[j] = "tid"
       /\ Len(mesh'[t][j]) < Len(mesh[t][j]) =>
            got'[t] # got[t]]_vars

\* No thread can touch the mesh or an env once the control thread unmapped it.
MappedWhileServing ==
  \A w \in Workers : pc[w] \notin {"unborn", "exited"} => mapped

\* bcast_n, read without the registry, only gates the drain: a broadcast left
\* in a serving worker's inbox is still fanned out, or that worker is itself
\* on its way out.
InboxDrained ==
  \A t \in Workers : \A j \in Workers \ {t} :
    (mesh[t][j] # <<>> /\ pc[t] = "loop")
      ~> (mesh[t][j] = <<>> \/ pc[t] \in {"unregister", "uncount", "exited"})

\* A shutdown ends the run, whatever worker failed to start, open or bind: every
\* worker is joined and the mesh is unmapped.
ShutdownCompletes == shutdown ~> (cpc = "done" /\ ~ mapped)
=============================================================================
