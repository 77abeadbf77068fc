--------------------------- MODULE SrvThreads_proofs ---------------------------
(***************************************************************************)
(* The broadcast registry for any number of workers and slots: the claim   *)
(* protocol keeps every published entry its own worker's, every ring of    *)
(* the mesh has one producer and one consumer, and no worker outlives the  *)
(* mesh.                                                                   *)
(***************************************************************************)
EXTENDS SrvThreads, FiniteSetTheorems, TLAPS

Member  == {"count", "serve", "loop", "tid", "push", "unregister"}
Filling == {"fill", "publish"}

RegTyped ==
  /\ tid \in [Slots -> Workers \cup {"free", "claiming"}]
  /\ index \in [Slots -> Workers \cup {"none"}]
  /\ row \in [Slots -> Workers \cup {"none"}]
  /\ pc = [w \in Workers |-> pc[w]]
  /\ at \in [Workers -> Nat]

\* A published entry is its owner's, and its owner is past the claim.
Published ==
  /\ \A s \in Slots : tid[s] \in Workers =>
       index[s] = tid[s] /\ row[s] = tid[s] /\ pc[tid[s]] \in Member
  /\ \A s, r \in Slots : tid[s] \in Workers /\ tid[s] = tid[r] => s = r

\* A slot being filled is marked as claimed and has one filler.
Claimed ==
  /\ \A w \in Workers : pc[w] \in Filling => at[w] \in Slots /\ tid[at[w]] = "claiming"
  /\ \A v, w \in Workers :
       pc[v] \in Filling /\ pc[w] \in Filling /\ at[v] = at[w] => v = w
  /\ \A w \in Workers : pc[w] = "publish" => index[at[w]] = w /\ row[at[w]] = w

\* A scan has begun at slot 1; a worker in the push loop is registered, and its
\* target's row is somebody's.
Pushing ==
  /\ \A w \in Workers : pc[w] \in {"claim", "tid"} => at[w] # 0
  /\ \A w \in Workers : pc[w] \in {"tid", "push"} => \E s \in Slots : tid[s] = w
  /\ \A w \in Workers : pc[w] = "push" => at[w] \in Slots /\ row[at[w]] \in Workers

RegInv == RegTyped /\ Published /\ Claimed /\ Pushing

\* A worker that was not spawned has not begun.
Unborn == spawned \subseteq Workers /\ \A w \in Workers \ spawned : pc[w] = "unborn"

-----------------------------------------------------------------------------
\* The markers are not workers.
LEMMA Markers == "free" \notin Workers /\ "claiming" \notin Workers /\ "none" \notin Workers
  BY TidAssumption

\* Slots are counted from 1; 0 stands for "no slot".
LEMMA SlotNumbers == Slots \subseteq Nat /\ 0 \notin Slots
  BY SlotsAssumption DEF Slots

\* srvrun_bcast_find returns the worker's one slot, or nothing.
LEMMA FindExact ==
  ASSUME RegInv, NEW w \in Workers
  PROVE  /\ \A s \in Slots : tid[s] = w => srvrun_bcast_find(w) = s
         /\ srvrun_bcast_find(w) # 0 => /\ srvrun_bcast_find(w) \in Slots
                                        /\ tid[srvrun_bcast_find(w)] = w
         /\ srvrun_bcast_find(w) = 0 => \A s \in Slots : tid[s] # w
  <1> DEFINE Mine(s) == tid[s] = w /\ \A r \in Slots : tid[r] = w => s <= r
  <1>1. ASSUME NEW s \in Slots, tid[s] = w
        PROVE  srvrun_bcast_find(w) = s
    <2>1. \A r \in Slots : tid[r] = w => r = s
      BY <1>1 DEF RegInv, Published
    <2>2. Mine(s)
      BY <1>1, <2>1, SlotNumbers
    <2>3. \A r \in Slots : Mine(r) => r = s
      BY <2>1
    <2>4. (CHOOSE r \in Slots : Mine(r)) = s
      BY <2>2, <2>3
    <2>q. QED  BY <1>1, <2>4 DEF srvrun_bcast_find
  <1>2. (\A s \in Slots : tid[s] # w) => srvrun_bcast_find(w) = 0
    BY DEF srvrun_bcast_find
  <1>q. QED  BY <1>1, <1>2, SlotNumbers

\* A step of one worker to "there" that leaves the registry alone and is not
\* about filling a slot.
Quiet(w, there) ==
  /\ UNCHANGED <<tid, index, row>>
  /\ pc' = [pc EXCEPT ![w] = there]
  /\ at' \in [Workers -> Nat] /\ \A v \in Workers : v # w => at'[v] = at[v]
  /\ pc[w] \notin Filling /\ there \notin Filling
  /\ pc[w] \notin Member \/ there \in Member \/ \A s \in Slots : tid[s] # w
  /\ there \in {"tid", "push"} => \E s \in Slots : tid[s] = w
  /\ there \in {"claim", "tid"} => at'[w] # 0
  /\ there = "push" => at'[w] \in Slots /\ row[at'[w]] \in Workers

\* Such a step keeps the registry invariant.
LEMMA QuietMove ==
  ASSUME RegInv, NEW w \in Workers, NEW there, Quiet(w, there)
  PROVE  RegInv'
  <1> USE DEF Quiet
  <1>1. /\ pc'[w] = there /\ \A v \in Workers : v # w => pc'[v] = pc[v]
        /\ pc' = [v \in Workers |-> pc'[v]]
    BY DEF RegInv, RegTyped
  <1>2. RegTyped'
    BY <1>1 DEF RegInv, RegTyped
  <1>3. Published'
    BY <1>1 DEF RegInv, Published
  <1>4. Claimed'
    <2>1. \A v \in Workers : pc'[v] \in Filling \/ pc'[v] = "publish" =>
                               v # w /\ pc'[v] = pc[v] /\ at'[v] = at[v]
      BY <1>1 DEF Filling
    <2>q. QED  BY <2>1 DEF RegInv, Claimed
  <1>5. Pushing'
    BY <1>1 DEF RegInv, Pushing
  <1>q. QED  BY <1>2, <1>3, <1>4, <1>5 DEF RegInv

-----------------------------------------------------------------------------
\* The steps that touch the registry.

\* The compare-exchange scan: the winner becomes the slot's only filler.
LEMMA ClaimKeeps ==
  ASSUME RegInv, NEW w \in Workers, Claim(w)
  PROVE  RegInv'
  <1>1. pc[w] = "claim" /\ at[w] \in Nat /\ at[w] # 0 /\ UNCHANGED <<index, row>>
    BY DEF Claim, RegInv, RegTyped, Pushing
  <1>2. CASE at[w] > NSlots /\ pc' = [pc EXCEPT ![w] = "serve"]
             /\ at' = [at EXCEPT ![w] = 0] /\ tid' = tid
    <2>1. at' \in [Workers -> Nat] /\ \A v \in Workers : v # w => at'[v] = at[v]
      BY <1>2 DEF RegInv, RegTyped
    <2>2. Quiet(w, "serve")
      BY <1>1, <1>2, <2>1 DEF Quiet, Filling, Member
    <2>q. QED  BY <2>2, QuietMove
  <1>3. CASE at[w] <= NSlots /\ tid[at[w]] # "free"
             /\ at' = [at EXCEPT ![w] = at[w] + 1] /\ tid' = tid /\ pc' = pc
    <2>1. /\ at' \in [Workers -> Nat] /\ \A v \in Workers : v # w => at'[v] = at[v]
          /\ at'[w] # 0
      BY <1>1, <1>3 DEF RegInv, RegTyped
    <2>2. pc' = [pc EXCEPT ![w] = "claim"]
      BY <1>1, <1>3 DEF RegInv, RegTyped
    <2>3. Quiet(w, "claim")
      BY <1>1, <1>3, <2>1, <2>2 DEF Quiet, Filling, Member
    <2>q. QED  BY <2>3, QuietMove
  <1>4. CASE at[w] <= NSlots /\ tid[at[w]] = "free"
             /\ tid' = [tid EXCEPT ![at[w]] = "claiming"]
             /\ pc' = [pc EXCEPT ![w] = "fill"] /\ at' = at
    <2> DEFINE s == at[w]
    <2>0. s \in Slots
      BY <1>1, <1>4, SlotsAssumption DEF Slots
    <2>1. /\ pc'[w] = "fill" /\ \A v \in Workers : v # w => pc'[v] = pc[v]
          /\ tid'[s] = "claiming" /\ \A r \in Slots : r # s => tid'[r] = tid[r]
      BY <1>4, <2>0 DEF RegInv, RegTyped
    <2>2. RegTyped'
      BY <1>1, <1>4, <2>0 DEF RegInv, RegTyped
    <2>3. \A r \in Slots : tid'[r] \in Workers => r # s /\ tid'[r] = tid[r] /\ tid[r] # w
      BY <1>1, <2>1, Markers DEF RegInv, Published, Member
    <2>4. Published'
      BY <1>1, <2>1, <2>3 DEF RegInv, Published
    <2>5. \A v \in Workers : v # w /\ pc[v] \in Filling => at[v] # s
      BY <1>4 DEF RegInv, Claimed
    <2>6. Claimed'
      <3>1. \A v \in Workers : pc'[v] \in Filling =>
              v = w \/ (pc[v] \in Filling /\ at[v] \in Slots /\ at[v] # s)
        BY <2>1, <2>5 DEF RegInv, Claimed
      <3>2. \A v \in Workers : pc'[v] \in Filling => at'[v] \in Slots /\ tid'[at'[v]] = "claiming"
        BY <3>1, <1>4, <2>0, <2>1 DEF RegInv, Claimed
      <3>3. \A u, v \in Workers :
              pc'[u] \in Filling /\ pc'[v] \in Filling /\ at'[u] = at'[v] => u = v
        BY <3>1, <1>4 DEF RegInv, Claimed
      <3>4. \A v \in Workers : pc'[v] = "publish" => index'[at'[v]] = v /\ row'[at'[v]] = v
        BY <1>1, <1>4, <2>1 DEF RegInv, Claimed
      <3>q. QED  BY <3>2, <3>3, <3>4 DEF Claimed
    <2>7. Pushing'
      <3>1. \A v \in Workers : pc'[v] \in {"claim", "tid", "push"} => v # w /\ pc'[v] = pc[v]
        BY <2>1
      <3>2. \A v \in Workers, r \in Slots : tid[r] = v => tid'[r] = v
        BY <1>4, <2>1, Markers
      <3>q. QED  BY <1>1, <1>4, <3>1, <3>2 DEF RegInv, Pushing
    <2>q. QED  BY <2>2, <2>4, <2>6, <2>7 DEF RegInv
  <1>q. QED  BY <1>2, <1>3, <1>4 DEF Claim

\* Filling writes a slot nobody else sees as published.
LEMMA FillKeeps ==
  ASSUME RegInv, NEW w \in Workers, Fill(w)
  PROVE  RegInv'
  <1> DEFINE s == at[w]
  <1>1. /\ pc[w] = "fill" /\ tid' = tid /\ at' = at /\ s \in Slots /\ tid[s] = "claiming"
        /\ pc' = [pc EXCEPT ![w] = "publish"]
        /\ index' = [index EXCEPT ![s] = w] /\ row' = [row EXCEPT ![s] = w]
    BY DEF Fill, Goto, RegInv, Claimed, Filling
  <1>2. /\ pc'[w] = "publish" /\ \A v \in Workers : v # w => pc'[v] = pc[v]
        /\ index'[s] = w /\ \A r \in Slots : r # s => index'[r] = index[r]
        /\ row'[s] = w /\ \A r \in Slots : r # s => row'[r] = row[r]
    BY <1>1 DEF RegInv, RegTyped
  <1>3. RegTyped'
    BY <1>1 DEF RegInv, RegTyped
  <1>4. Published'
    <2>1. \A r \in Slots : tid[r] \in Workers => r # s /\ tid[r] # w
      BY <1>1, Markers DEF RegInv, Published, Member
    <2>q. QED  BY <1>1, <1>2, <2>1 DEF RegInv, Published
  <1>5. Claimed'
    <2>1. \A v \in Workers : pc'[v] \in Filling => pc[v] \in Filling
      BY <1>1, <1>2 DEF Filling
    <2>2. \A v \in Workers : pc'[v] = "publish" /\ v # w =>
                               pc[v] = "publish" /\ at[v] # s /\ at[v] \in Slots
      BY <1>1, <1>2 DEF RegInv, Claimed, Filling
    <2>q. QED  BY <1>1, <1>2, <2>1, <2>2 DEF RegInv, Claimed
  <1>6. Pushing'
    BY <1>1, <1>2 DEF RegInv, Pushing
  <1>q. QED  BY <1>3, <1>4, <1>5, <1>6 DEF RegInv

\* Publishing turns a claimed, filled slot into its filler's entry.
LEMMA PublishKeeps ==
  ASSUME RegInv, NEW w \in Workers, Publish(w)
  PROVE  RegInv'
  <1> DEFINE s == at[w]
  <1>1. /\ pc[w] = "publish" /\ UNCHANGED <<index, row, at>> /\ s \in Slots
        /\ tid[s] = "claiming" /\ index[s] = w /\ row[s] = w
        /\ pc' = [pc EXCEPT ![w] = "count"] /\ tid' = [tid EXCEPT ![s] = w]
    BY DEF Publish, Goto, RegInv, Claimed, Filling
  <1>2. /\ pc'[w] = "count" /\ \A v \in Workers : v # w => pc'[v] = pc[v]
        /\ tid'[s] = w /\ \A r \in Slots : r # s => tid'[r] = tid[r]
    BY <1>1 DEF RegInv, RegTyped
  <1>3. RegTyped'
    BY <1>1 DEF RegInv, RegTyped
  <1>4. Published'
    <2>1. \A r \in Slots : tid[r] \in Workers => tid[r] # w
      BY <1>1 DEF RegInv, Published, Member
    <2>q. QED  BY <1>1, <1>2, <2>1 DEF RegInv, Published, Member
  <1>5. Claimed'
    <2>1. \A v \in Workers : pc'[v] \in Filling =>
            v # w /\ pc[v] \in Filling /\ at[v] \in Slots /\ at[v] # s
      BY <1>1, <1>2 DEF RegInv, Claimed, Filling
    <2>2. \A v \in Workers : pc'[v] = "publish" => v # w /\ pc[v] = "publish"
      BY <1>2
    <2>q. QED  BY <1>1, <1>2, <2>1, <2>2 DEF RegInv, Claimed
  <1>6. Pushing'
    <2>1. \A v \in Workers, r \in Slots : tid[r] = v => tid'[r] = v
      BY <1>1, <1>2, Markers
    <2>q. QED  BY <1>1, <1>2, <2>1 DEF RegInv, Pushing
  <1>q. QED  BY <1>3, <1>4, <1>5, <1>6 DEF RegInv

\* Unregistering clears the caller's own entry.
LEMMA UnregisterKeeps ==
  ASSUME RegInv, NEW w \in Workers, Unregister(w)
  PROVE  RegInv'
  <1> DEFINE s == srvrun_bcast_find(w)
  <1>1. pc[w] = "unregister" /\ UNCHANGED <<index, row, at>>
    BY DEF Unregister, Goto
  <1>2. CASE s = 0
    <2>1. /\ pc' = [pc EXCEPT ![w] = "exited"] /\ tid' = tid
          /\ \A r \in Slots : tid[r] # w
      BY <1>2, FindExact DEF Unregister, Goto
    <2>2. at' \in [Workers -> Nat]
      BY <1>1 DEF RegInv, RegTyped
    <2>3. Quiet(w, "exited")
      BY <1>1, <2>1, <2>2 DEF Quiet, Filling, Member
    <2>q. QED  BY <2>3, QuietMove
  <1>3. CASE s # 0
    <2>1. /\ pc' = [pc EXCEPT ![w] = "uncount"] /\ tid' = [tid EXCEPT ![s] = "free"]
          /\ s \in Slots /\ tid[s] = w
      BY <1>3, FindExact DEF Unregister, Goto
    <2> HIDE DEF s
    <2>2. /\ pc'[w] = "uncount" /\ \A v \in Workers : v # w => pc'[v] = pc[v]
          /\ tid'[s] = "free" /\ \A r \in Slots : r # s => tid'[r] = tid[r]
      BY <2>1 DEF RegInv, RegTyped
    <2>3. RegTyped'
      BY <1>1, <2>1 DEF RegInv, RegTyped
    <2>4. Published'
      <3>1. \A r \in Slots : tid'[r] \in Workers => r # s /\ tid'[r] = tid[r] /\ tid[r] # w
        BY <2>1, <2>2, Markers DEF RegInv, Published
      <3>q. QED  BY <1>1, <2>2, <3>1 DEF RegInv, Published
    <2>5. Claimed'
      <3>1. \A v \in Workers : pc'[v] \in Filling \/ pc'[v] = "publish" =>
              v # w /\ pc'[v] = pc[v]
        BY <2>2 DEF Filling
      <3>2. \A v \in Workers : pc[v] \in Filling => at[v] # s
        BY <2>1, Markers DEF RegInv, Claimed
      <3>q. QED  BY <1>1, <2>2, <3>1, <3>2 DEF RegInv, Claimed
    <2>6. Pushing'
      <3>1. \A v \in Workers : pc'[v] \in {"claim", "tid", "push"} => v # w /\ pc'[v] = pc[v]
        BY <2>2
      <3>2. \A v \in Workers, r \in Slots : v # w /\ tid[r] = v => tid'[r] = v
        BY <2>1, <2>2
      <3>q. QED  BY <1>1, <3>1, <3>2 DEF RegInv, Pushing
    <2>q. QED  BY <2>3, <2>4, <2>5, <2>6 DEF RegInv
  <1>q. QED  BY <1>2, <1>3

-----------------------------------------------------------------------------
\* The steps that only move a worker.

\* Every step of a worker keeps the registry invariant.
LEMMA WorkerKeeps ==
  ASSUME RegInv, NEW w \in Workers, WorkerStep(w)
  PROVE  RegInv'
  <1>0. at \in [Workers -> Nat] /\ pc = [v \in Workers |-> pc[v]]
    BY DEF RegInv, RegTyped
  <1>1. CASE Register(w)
    <2>1. Quiet(w, IF srvrun_bcast_find(w) # 0 THEN "serve" ELSE "claim")
      BY <1>0, <1>1 DEF Register, Goto, registry, Quiet, Filling, Member
    <2>q. QED  BY <2>1, QuietMove
  <1>2. CASE Claim(w)       BY <1>2, ClaimKeeps
  <1>3. CASE Fill(w)        BY <1>3, FillKeeps
  <1>4. CASE Publish(w)     BY <1>4, PublishKeeps
  <1>5. CASE Count(w)
    <2>1. Quiet(w, "serve")
      BY <1>0, <1>5 DEF Count, Goto, Quiet, Filling, Member
    <2>q. QED  BY <2>1, QuietMove
  <1>6. CASE Unregister(w)  BY <1>6, UnregisterKeeps
  <1>7. CASE Uncount(w)
    <2>1. Quiet(w, "exited")
      BY <1>0, <1>7 DEF Uncount, Goto, Quiet, Filling, Member
    <2>q. QED  BY <2>1, QuietMove
  <1>8. CASE OpenFails(w)
    <2>1. Quiet(w, "exited")
      BY <1>0, <1>8 DEF OpenFails, Goto, registry, Quiet, Filling, Member
    <2>q. QED  BY <2>1, QuietMove
  <1>9. CASE Serve(w)
    <2>1. PICK next \in {"loop", "unregister"} : pc' = [pc EXCEPT ![w] = next]
      BY <1>9 DEF Serve
    <2>2. Quiet(w, next)
      BY <1>0, <1>9, <2>1 DEF Serve, registry, Quiet, Filling, Member
    <2>q. QED  BY <2>2, QuietMove
  <1>10. CASE Drain(w)
    <2>1. Quiet(w, "loop")
      BY <1>0, <1>10 DEF Drain, registry, Quiet, Filling, Member
    <2>q. QED  BY <2>1, QuietMove
  <1>11. CASE Broadcast(w)
    <2>1. CASE srvrun_bcast_find(w) = 0
      <3>1. Quiet(w, "loop")
        BY <1>0, <1>11, <2>1 DEF Broadcast, registry, Quiet, Filling, Member
      <3>q. QED  BY <3>1, QuietMove
    <2>2. CASE srvrun_bcast_find(w) # 0
      <3>1. \E s \in Slots : tid[s] = w
        BY <2>2, FindExact
      <3> DEFINE next == IF Cardinality(Workers) > 1 THEN "tid" ELSE "loop"
      <3>a. pc' = [pc EXCEPT ![w] = next] /\ next \in {"tid", "loop"}
        BY <1>11, <2>2 DEF Broadcast
      <3> HIDE DEF next
      <3>b. /\ pc[w] = "loop" /\ UNCHANGED <<tid, index, row>> /\ at' = [at EXCEPT ![w] = 1]
        BY <1>11, <2>2 DEF Broadcast, registry
      <3>c. at' \in [Workers -> Nat] /\ at'[w] = 1 /\ \A v \in Workers : v # w => at'[v] = at[v]
        BY <1>0, <3>b
      <3>d. /\ next \notin Filling /\ pc[w] \notin Filling /\ next \in Member /\ next # "push"
        BY <3>a, <3>b DEF Filling, Member
      <3>e. Quiet(w, next)
        BY <3>1, <3>a, <3>b, <3>c, <3>d DEF Quiet
      <3>2. Quiet(w, IF Cardinality(Workers) > 1 THEN "tid" ELSE "loop")
        BY <3>e DEF next
      <3>q. QED  BY <3>2, QuietMove
    <2>q. QED  BY <2>1, <2>2
  <1>12. CASE LoadTid(w)
    <2>1. /\ pc[w] = "tid" /\ at[w] # 0 /\ at[w] \in Nat
          /\ \E s \in Slots : tid[s] = w
          /\ UNCHANGED <<tid, index, row>>
      BY <1>0, <1>12 DEF LoadTid, registry, RegInv, Pushing
    <2>2. CASE pc' = [pc EXCEPT ![w] = "loop"] /\ UNCHANGED at
      <3>1. Quiet(w, "loop")
        BY <1>0, <2>1, <2>2 DEF Quiet, Filling, Member
      <3>q. QED  BY <3>1, QuietMove
    <2>3. CASE /\ at[w] <= NSlots /\ tid[at[w]] \in Workers
               /\ pc' = [pc EXCEPT ![w] = "push"] /\ UNCHANGED at
      <3>1. at[w] \in Slots
        BY <2>1, <2>3, SlotsAssumption DEF Slots
      <3>2. row[at[w]] \in Workers
        BY <2>3, <3>1 DEF RegInv, Published
      <3>3. Quiet(w, "push")
        BY <1>0, <2>1, <2>3, <3>1, <3>2 DEF Quiet, Filling, Member
      <3>q. QED  BY <3>3, QuietMove
    <2>4. CASE at' = [at EXCEPT ![w] = at[w] + 1] /\ UNCHANGED pc
      <3>1. Quiet(w, "tid")
        BY <1>0, <2>1, <2>4 DEF Quiet, Filling, Member
      <3>q. QED  BY <3>1, QuietMove
    <2>q. QED  BY <1>12, <2>2, <2>3, <2>4 DEF LoadTid
  <1>13. CASE PushRow(w)
    <2>1. /\ pc[w] = "push" /\ at[w] \in Nat
          /\ \E s \in Slots : tid[s] = w
          /\ UNCHANGED <<tid, index, row>>
          /\ pc' = [pc EXCEPT ![w] = "tid"] /\ at' = [at EXCEPT ![w] = at[w] + 1]
      BY <1>0, <1>13 DEF PushRow, Goto, registry, RegInv, Pushing
    <2>2. Quiet(w, "tid")
      BY <1>0, <2>1 DEF Quiet, Filling, Member
    <2>q. QED  BY <2>2, QuietMove
  <1>14. CASE LoopEnds(w)
    <2>1. Quiet(w, "unregister")
      BY <1>0, <1>14 DEF LoopEnds, Goto, registry, Quiet, Filling, Member
    <2>q. QED  BY <2>1, QuietMove
  <1>q. QED
    BY <1>1, <1>2, <1>3, <1>4, <1>5, <1>6, <1>7, <1>8, <1>9, <1>10, <1>11, <1>12,
       <1>13, <1>14 DEF WorkerStep

\* So does a step that touches neither the registry nor a worker.
LEMMA RegStill ==
  ASSUME RegInv, UNCHANGED <<tid, index, row, pc, at>>
  PROVE  RegInv'
  BY DEF RegInv, RegTyped, Published, Claimed, Pushing

\* The registry invariant is inductive, given that a spawned worker is new.
LEMMA RegNext ==
  ASSUME RegInv, Unborn, [Next]_vars
  PROVE  RegInv'
  <1>1. ASSUME NEW w \in Workers, WorkerStep(w) PROVE RegInv'
    BY <1>1, WorkerKeeps
  <1>2. CASE Setup \/ Wait \/ Join \/ RequestShutdown \/ UNCHANGED vars
    <2>1. UNCHANGED <<tid, index, row, pc, at>>
      BY <1>2 DEF Setup, Wait, Join, RequestShutdown, vars, registry, worker
    <2>q. QED  BY <2>1, RegStill
  <1>3. CASE Spawn
    <2>1. UNCHANGED <<tid, index, row, at>>
      BY <1>3 DEF Spawn, registry
    <2>2. CASE UNCHANGED pc
      BY <2>1, <2>2, RegStill
    <2>3. ASSUME NEW w \in Workers \ spawned, pc' = [pc EXCEPT ![w] = "start"]
          PROVE  RegInv'
      <3>1. Quiet(w, "start")
        BY <2>1, <2>3 DEF Unborn, RegInv, RegTyped, Quiet, Filling, Member
      <3>q. QED  BY <3>1, QuietMove
    <2>q. QED  BY <1>3, <2>2, <2>3 DEF Spawn
  <1>q. QED  BY <1>1, <1>2, <1>3 DEF Next, ControlStep

\* An empty registry satisfies it.
LEMMA RegInit ==
  ASSUME Init
  PROVE  RegInv
  BY Markers DEF Init, RegInv, RegTyped, Published, Claimed, Pushing, Filling

-----------------------------------------------------------------------------
\* The life of the mesh.  No worker exists before it is mapped; when the control
\* thread is done every worker that ever started has exited.

LifeInv ==
  /\ Unborn
  /\ cpc \in {"setup", "spawn", "wait", "join", "done"}
  /\ cpc = "setup" => spawned = {}
  /\ cpc \in {"spawn", "wait", "join"} => mapped
  /\ cpc = "done" => \A w \in Workers : pc[w] \in {"unborn", "exited"}

\* A worker that takes a step is alive, and moves nobody else.
LEMMA WorkerAlive ==
  ASSUME RegInv, NEW w \in Workers, WorkerStep(w)
  PROVE  /\ pc[w] \notin {"unborn", "exited"}
         /\ \A v \in Workers : v # w => pc'[v] = pc[v]
         /\ UNCHANGED control
  <1>0. pc = [v \in Workers |-> pc[v]]
    BY DEF RegInv, RegTyped
  <1>1. CASE Register(w) \/ Fill(w) \/ Publish(w) \/ Count(w) \/ Unregister(w)
             \/ Uncount(w) \/ OpenFails(w) \/ PushRow(w) \/ LoopEnds(w)
    BY <1>0, <1>1 DEF Register, Fill, Publish, Count, Unregister, Uncount, OpenFails,
                      PushRow, LoopEnds, Goto, control
  <1>2. CASE Claim(w) \/ Serve(w) \/ Drain(w) \/ LoadTid(w)
    BY <1>0, <1>2 DEF Claim, Serve, Drain, LoadTid, control
  <1>3. CASE Broadcast(w)
    BY <1>0, <1>3 DEF Broadcast, control
  <1>q. QED  BY <1>1, <1>2, <1>3 DEF WorkerStep

\* Every step keeps the life of the mesh.
LEMMA LifeNext ==
  ASSUME RegInv, LifeInv, [Next]_vars
  PROVE  LifeInv'
  <1>1. ASSUME NEW w \in Workers, WorkerStep(w) PROVE LifeInv'
    <2>1. /\ pc[w] \notin {"unborn", "exited"}
          /\ \A v \in Workers : v # w => pc'[v] = pc[v]
          /\ cpc' = cpc /\ spawned' = spawned /\ mapped' = mapped
      BY <1>1, WorkerAlive DEF control
    <2>2. w \in spawned /\ cpc # "done"
      BY <2>1 DEF LifeInv, Unborn
    <2>q. QED  BY <2>1, <2>2 DEF LifeInv, Unborn
  <1>2. CASE Setup
    BY <1>2 DEF Setup, worker, LifeInv, Unborn
  <1>3. CASE Spawn
    <2>1. CASE cpc' = "wait" /\ UNCHANGED <<pc, spawned>>
      BY <1>3, <2>1 DEF Spawn, LifeInv, Unborn
    <2>2. ASSUME NEW w \in Workers \ spawned, pc' = [pc EXCEPT ![w] = "start"],
                 spawned' = spawned \cup {w}, cpc' = cpc
          PROVE  LifeInv'
      <3>1. \A v \in Workers : v # w => pc'[v] = pc[v]
        BY <2>2 DEF RegInv, RegTyped
      <3>q. QED  BY <1>3, <2>2, <3>1 DEF Spawn, LifeInv, Unborn
    <2>q. QED  BY <1>3, <2>1, <2>2 DEF Spawn
  <1>4. CASE Wait
    BY <1>4 DEF Wait, worker, LifeInv, Unborn
  <1>5. CASE Join
    BY <1>5 DEF Join, worker, LifeInv, Unborn
  <1>6. CASE RequestShutdown \/ UNCHANGED vars
    BY <1>6 DEF RequestShutdown, vars, worker, control, LifeInv, Unborn
  <1>q. QED  BY <1>1, <1>2, <1>3, <1>4, <1>5, <1>6 DEF Next, ControlStep

-----------------------------------------------------------------------------
\* The registry and the mesh's life hold in every reachable state.
THEOREM RegistryInvariant == Spec => [](RegInv /\ LifeInv)
  <1>1. Init => RegInv /\ LifeInv
    <2>1. Init => LifeInv
      BY DEF Init, LifeInv, Unborn
    <2>q. QED  BY <2>1, RegInit
  <1>2. RegInv /\ LifeInv /\ [Next]_vars => (RegInv /\ LifeInv)'
    BY RegNext, LifeNext DEF LifeInv
  <1>q. QED  BY <1>1, <1>2, PTL DEF Spec

\* The claim protocol of srvrun_bcast.c works for any number of workers and
\* slots: an entry another thread can see carries its owner's index and row, no
\* worker is in the registry twice, and a claimed slot has one filler.
THEOREM RegistryIsSound == Spec => []RegistrySound
  <1>1. RegInv => RegistrySound
    BY DEF RegInv, Published, Claimed, Filling, RegistrySound
  <1>q. QED  BY <1>1, RegistryInvariant, PTL

\* wired_srvthreads_run never unmaps the mesh or the envs under a live worker.
THEOREM NeverUnmappedUnderAWorker == Spec => []MappedWhileServing
  <1>1. LifeInv => MappedWhileServing
    BY DEF LifeInv, Unborn, MappedWhileServing
  <1>q. QED  BY <1>1, RegistryInvariant, PTL

-----------------------------------------------------------------------------
\* Nobody is left out.  A worker claims one slot in its life, so the slots a scan has
\* passed were taken by as many other workers: the scan cannot run past the last one.

Past       == {"publish", "count", "serve", "loop", "tid", "push", "unregister",
               "uncount", "exited"}
Registered == {"count", "serve", "loop", "tid", "push", "unregister"}

\* Slot r has been somebody's: its fields are written, or about to be.
Taken(r) == index[r] \in Workers \/ \E v \in Workers : pc[v] = "fill" /\ at[v] = r

\* The fields of a slot name the last worker that filled it, and no other slot does.
FilledOnce ==
  /\ row = index
  /\ \A s \in Slots : index[s] \in Workers => pc[index[s]] \in Past
  /\ \A s, r \in Slots : index[s] \in Workers /\ index[s] = index[r] => s = r

\* A claim has a claimer, and a scan passed only slots that were taken.
Scanned ==
  /\ \A s \in Slots : tid[s] = "claiming" => \E v \in Workers : pc[v] \in Filling /\ at[v] = s
  /\ \A w \in Workers : pc[w] = "claim" => \A r \in Slots : r < at[w] => Taken(r)

\* Whoever serves is in the registry.
Listed == \A w \in Workers : pc[w] \in Registered => \E s \in Slots : tid[s] = w

ClaimInv == FilledOnce /\ Scanned /\ Listed

\* There are more slots than other workers, so a scan ends at a free one.
LEMMA ScanEnds ==
  ASSUME RegInv, ClaimInv, NEW w \in Workers, pc[w] = "claim"
  PROVE  at[w] <= NSlots
  <1> SUFFICES ASSUME at[w] > NSlots PROVE FALSE
    BY SlotsAssumption DEF RegInv, RegTyped
  <1> DEFINE Filler(r) == {v \in Workers : pc[v] = "fill" /\ at[v] = r}
             Others == Workers \ {w}
             owner == [r \in Slots |-> IF Filler(r) # {} THEN CHOOSE v \in Filler(r) : TRUE
                                       ELSE index[r]]
  <1>1. \A r \in Slots : Filler(r) # {} => owner[r] \in Filler(r)
    OBVIOUS
  <1>2. \A r \in Slots : Filler(r) = {} => owner[r] = index[r] /\ index[r] \in Workers
    <2>1. \A r \in Slots : r < at[w]
      BY SlotsAssumption DEF Slots, RegInv, RegTyped
    <2>q. QED  BY <2>1 DEF ClaimInv, Scanned, Taken
  <1>3. owner \in [Slots -> Others]
    <2>1. \A r \in Slots : Filler(r) # {} => owner[r] \in Others
      BY <1>1
    <2>2. \A r \in Slots : Filler(r) = {} => owner[r] \in Others
      BY <1>2 DEF ClaimInv, FilledOnce, Past
    <2>q. QED  BY <2>1, <2>2
  <1>4. \A r, s \in Slots : owner[r] = owner[s] => r = s
    <2> SUFFICES ASSUME NEW r \in Slots, NEW s \in Slots, owner[r] = owner[s]
                 PROVE  r = s
      OBVIOUS
    <2>1. CASE Filler(r) # {} /\ Filler(s) # {}
      BY <1>1, <2>1
    <2>2. CASE Filler(r) = {} /\ Filler(s) = {}
      BY <1>2, <2>2 DEF ClaimInv, FilledOnce
    <2>3. CASE Filler(r) # {} /\ Filler(s) = {}
      BY <1>1, <1>2, <2>3 DEF ClaimInv, FilledOnce, Past
    <2>4. CASE Filler(r) = {} /\ Filler(s) # {}
      BY <1>1, <1>2, <2>4 DEF ClaimInv, FilledOnce, Past
    <2>q. QED  BY <2>1, <2>2, <2>3, <2>4
  <1> HIDE DEF owner
  <1>5. /\ IsFiniteSet(Others) /\ Cardinality(Others) = Cardinality(Workers) - 1
        /\ Cardinality(Workers) \in Nat
    BY WorkersAssumption, FS_RemoveElement, FS_CardinalityType
  <1>6. IsFiniteSet(Slots) /\ Cardinality(Slots) = NSlots
    BY SlotsAssumption, FS_Interval DEF Slots
  <1>7. Cardinality(Others) < Cardinality(Slots)
    BY <1>5, <1>6, SlotsAssumption
  <1>8. \E r, s \in Slots : r # s /\ owner[r] = owner[s]
    BY <1>3, <1>5, <1>6, <1>7, FS_PigeonHole
  <1>q. QED  BY <1>4, <1>8

\* A step of one worker that fills nothing, claims nothing and unregisters nobody.
Still(w, there) ==
  /\ UNCHANGED <<tid, index, row>>
  /\ pc' = [pc EXCEPT ![w] = there]
  /\ \A v \in Workers : v # w => at'[v] = at[v]
  /\ pc[w] \notin Filling /\ there \notin Filling
  /\ pc[w] \in Past => there \in Past
  /\ there \in Registered => \E s \in Slots : tid[s] = w
  /\ there = "claim" => \A r \in Slots : r < at'[w] => Taken(r)

LEMMA StillMove ==
  ASSUME RegInv, ClaimInv, NEW w \in Workers, NEW there, Still(w, there)
  PROVE  ClaimInv'
  <1> USE DEF Still
  <1>1. pc'[w] = there /\ \A v \in Workers : v # w => pc'[v] = pc[v]
    BY DEF RegInv, RegTyped
  <1>2. \A v \in Workers : pc[v] \in Filling => v # w /\ pc'[v] = pc[v] /\ at'[v] = at[v]
    BY <1>1
  <1>3. \A r : Taken(r) => Taken(r)'
    BY <1>2 DEF Taken, Filling
  <1>4. FilledOnce'
    BY <1>1 DEF ClaimInv, FilledOnce
  <1>5. Scanned'
    <2>1. \A s \in Slots : tid'[s] = "claiming" => \E v \in Workers : pc'[v] \in Filling /\ at'[v] = s
      BY <1>2 DEF ClaimInv, Scanned
    <2>2. \A v \in Workers : pc'[v] = "claim" => \A r \in Slots : r < at'[v] => Taken(r)
      BY <1>1 DEF ClaimInv, Scanned
    <2>q. QED  BY <1>3, <2>1, <2>2 DEF Scanned
  <1>6. Listed'
    BY <1>1 DEF ClaimInv, Listed
  <1>q. QED  BY <1>4, <1>5, <1>6 DEF ClaimInv

\* A scan that meets a taken slot goes on; one that meets a free slot claims it.
LEMMA ClaimScans ==
  ASSUME RegInv, ClaimInv, NEW w \in Workers, Claim(w)
  PROVE  ClaimInv'
  <1> DEFINE s == at[w]
  <1>1. /\ pc[w] = "claim" /\ s \in Nat /\ s # 0 /\ s <= NSlots /\ UNCHANGED <<index, row>>
        /\ at \in [Workers -> Nat] /\ pc = [v \in Workers |-> pc[v]]
    BY ScanEnds DEF Claim, RegInv, RegTyped, Pushing
  <1>2. s \in Slots
    BY <1>1, SlotsAssumption DEF Slots
  <1>3. CASE tid[s] # "free" /\ at' = [at EXCEPT ![w] = s + 1] /\ tid' = tid /\ pc' = pc
    <2>1. Taken(s)
      <3>1. CASE tid[s] \in Workers
        BY <1>2, <3>1 DEF RegInv, Published, Taken
      <3>2. CASE tid[s] = "claiming"
        <4>1. PICK v \in Workers : pc[v] \in Filling /\ at[v] = s
          BY <1>2, <3>2 DEF ClaimInv, Scanned
        <4>q. QED  BY <4>1 DEF RegInv, Claimed, Taken, Filling
      <3>q. QED  BY <1>2, <1>3, <3>1, <3>2 DEF RegInv, RegTyped
    <2>2. \A r \in Slots : r < at'[w] => Taken(r)
      <3>1. \A r \in Slots : r < s + 1 => r < s \/ r = s
        BY <1>1, SlotNumbers
      <3>q. QED  BY <1>1, <1>3, <2>1, <3>1 DEF ClaimInv, Scanned
    <2>3. pc' = [pc EXCEPT ![w] = "claim"] /\ \A v \in Workers : v # w => at'[v] = at[v]
      BY <1>1, <1>3
    <2>4. Still(w, "claim")
      BY <1>1, <1>3, <2>2, <2>3 DEF Still, Filling, Past, Registered
    <2>q. QED  BY <2>4, StillMove
  <1>4. CASE tid[s] = "free" /\ tid' = [tid EXCEPT ![s] = "claiming"]
             /\ pc' = [pc EXCEPT ![w] = "fill"] /\ at' = at
    <2>1. /\ pc'[w] = "fill" /\ \A v \in Workers : v # w => pc'[v] = pc[v]
          /\ tid'[s] = "claiming" /\ \A r \in Slots : r # s => tid'[r] = tid[r]
      BY <1>1, <1>2, <1>4 DEF RegInv, RegTyped
    <2>2. FilledOnce'
      BY <1>1, <2>1 DEF ClaimInv, FilledOnce, Past
    <2>3. \A r : Taken(r) => Taken(r)'
      BY <1>1, <1>4, <2>1 DEF Taken
    <2>4. Scanned'
      <3>1. \A r \in Slots : tid'[r] = "claiming" => \E v \in Workers : pc'[v] \in Filling /\ at'[v] = r
        <4>1. \A v \in Workers : pc[v] \in Filling => pc'[v] \in Filling
          BY <1>1, <2>1 DEF Filling
        <4>2. pc'[w] \in Filling /\ at'[w] = s
          BY <1>4, <2>1 DEF Filling
        <4>q. QED  BY <1>4, <2>1, <4>1, <4>2 DEF ClaimInv, Scanned
      <3>2. \A v \in Workers : pc'[v] = "claim" => pc[v] = "claim"
        BY <1>1, <2>1
      <3>q. QED  BY <1>4, <2>3, <3>1, <3>2 DEF ClaimInv, Scanned
    <2>5. Listed'
      <3>1. \A v \in Workers : pc'[v] \in Registered => pc[v] \in Registered
        BY <1>1, <2>1 DEF Registered
      <3>2. \A v \in Workers, r \in Slots : tid[r] = v => tid'[r] = v
        BY <1>4, <2>1, Markers
      <3>q. QED  BY <3>1, <3>2 DEF ClaimInv, Listed
    <2>q. QED  BY <2>2, <2>4, <2>5 DEF ClaimInv
  <1>q. QED  BY <1>1, <1>3, <1>4, SlotsAssumption DEF Claim

\* Filling names a worker that no slot named before.
LEMMA FillNames ==
  ASSUME RegInv, ClaimInv, NEW w \in Workers, Fill(w)
  PROVE  ClaimInv'
  <1> DEFINE s == at[w]
  <1>1. /\ pc[w] = "fill" /\ tid' = tid /\ at' = at /\ s \in Slots
        /\ pc' = [pc EXCEPT ![w] = "publish"]
        /\ index' = [index EXCEPT ![s] = w] /\ row' = [row EXCEPT ![s] = w]
    BY DEF Fill, Goto, RegInv, Claimed, Filling
  <1>2. /\ pc'[w] = "publish" /\ \A v \in Workers : v # w => pc'[v] = pc[v]
        /\ index'[s] = w /\ \A r \in Slots : r # s => index'[r] = index[r]
    BY <1>1 DEF RegInv, RegTyped
  <1>3. \A r \in Slots : index[r] # w
    BY <1>1 DEF ClaimInv, FilledOnce, Past
  <1>4. FilledOnce'
    <2>1. row' = index'
      BY <1>1 DEF ClaimInv, FilledOnce
    <2>2. \A v \in Workers : pc[v] \in Past => pc'[v] \in Past
      BY <1>2 DEF Past
    <2>3. pc'[w] \in Past
      BY <1>2 DEF Past
    <2>4. \A r \in Slots : index'[r] \in Workers => pc'[index'[r]] \in Past
      BY <1>2, <2>2, <2>3 DEF ClaimInv, FilledOnce
    <2>5. \A q, r \in Slots : index'[q] \in Workers /\ index'[q] = index'[r] => q = r
      BY <1>2, <1>3 DEF ClaimInv, FilledOnce
    <2>q. QED  BY <2>1, <2>4, <2>5 DEF FilledOnce
  <1>5. Scanned'
    <2>1. \A r \in Slots : Taken(r) => Taken(r)'
      <3> SUFFICES ASSUME NEW r \in Slots, Taken(r) PROVE Taken(r)'
        OBVIOUS
      <3>1. CASE r = s
        BY <1>2, <3>1 DEF Taken
      <3>2. CASE r # s
        BY <1>1, <1>2, <3>2 DEF Taken
      <3>q. QED  BY <3>1, <3>2
    <2>2. \A v \in Workers : pc[v] \in Filling => pc'[v] \in Filling
      BY <1>2 DEF Filling
    <2>3. \A v \in Workers : pc'[v] = "claim" => pc[v] = "claim"
      BY <1>2
    <2>q. QED  BY <1>1, <2>1, <2>2, <2>3 DEF ClaimInv, Scanned
  <1>6. Listed'
    BY <1>1, <1>2 DEF ClaimInv, Listed, Registered
  <1>q. QED  BY <1>4, <1>5, <1>6 DEF ClaimInv

LEMMA PublishLists ==
  ASSUME RegInv, ClaimInv, NEW w \in Workers, Publish(w)
  PROVE  ClaimInv'
  <1> DEFINE s == at[w]
  <1>1. /\ pc[w] = "publish" /\ UNCHANGED <<index, row, at>> /\ s \in Slots
        /\ tid[s] = "claiming"
        /\ pc' = [pc EXCEPT ![w] = "count"] /\ tid' = [tid EXCEPT ![s] = w]
    BY DEF Publish, Goto, RegInv, Claimed, Filling
  <1>2. /\ pc'[w] = "count" /\ \A v \in Workers : v # w => pc'[v] = pc[v]
        /\ tid'[s] = w /\ \A r \in Slots : r # s => tid'[r] = tid[r]
    BY <1>1 DEF RegInv, RegTyped
  <1>3. FilledOnce'
    BY <1>1, <1>2 DEF ClaimInv, FilledOnce, Past
  <1>4. Scanned'
    <2>1. \A r : Taken(r) => Taken(r)'
      BY <1>1, <1>2 DEF Taken
    <2>2. \A r \in Slots : tid'[r] = "claiming" => r # s /\ tid[r] = "claiming"
      BY <1>2, Markers
    <2>3. \A r \in Slots : tid'[r] = "claiming" => \E v \in Workers : pc'[v] \in Filling /\ at'[v] = r
      <3> SUFFICES ASSUME NEW r \in Slots, tid'[r] = "claiming"
                   PROVE  \E v \in Workers : pc'[v] \in Filling /\ at'[v] = r
        OBVIOUS
      <3>1. PICK v \in Workers : pc[v] \in Filling /\ at[v] = r
        BY <2>2 DEF ClaimInv, Scanned
      <3>q. QED  BY <1>1, <1>2, <2>2, <3>1
    <2>4. \A v \in Workers : pc'[v] = "claim" => pc[v] = "claim"
      BY <1>2
    <2>q. QED  BY <1>1, <2>1, <2>3, <2>4 DEF ClaimInv, Scanned
  <1>5. Listed'
    <2>1. \A v \in Workers, r \in Slots : tid[r] = v => tid'[r] = v
      BY <1>1, <1>2, Markers
    <2>q. QED  BY <1>1, <1>2, <2>1 DEF ClaimInv, Listed
  <1>q. QED  BY <1>3, <1>4, <1>5 DEF ClaimInv

\* Unregistering frees the slot of a worker that will not serve again.
LEMMA UnregisterFrees ==
  ASSUME RegInv, ClaimInv, NEW w \in Workers, Unregister(w)
  PROVE  ClaimInv' /\ pc'[w] = "uncount"
  <1> DEFINE s == srvrun_bcast_find(w)
  <1>1. pc[w] = "unregister" /\ UNCHANGED <<index, row, at>>
    BY DEF Unregister, Goto
  <1>2. \E r \in Slots : tid[r] = w
    BY <1>1 DEF ClaimInv, Listed, Registered
  <1>3. /\ s \in Slots /\ tid[s] = w
        /\ pc' = [pc EXCEPT ![w] = "uncount"] /\ tid' = [tid EXCEPT ![s] = "free"]
    BY <1>2, FindExact, SlotNumbers DEF Unregister, Goto
  <1> HIDE DEF s
  <1>4. /\ pc'[w] = "uncount" /\ \A v \in Workers : v # w => pc'[v] = pc[v]
        /\ tid'[s] = "free" /\ \A r \in Slots : r # s => tid'[r] = tid[r]
    BY <1>3 DEF RegInv, RegTyped
  <1>5. FilledOnce'
    BY <1>1, <1>4 DEF ClaimInv, FilledOnce, Past
  <1>6. Scanned'
    <2>1. \A r : Taken(r) => Taken(r)'
      BY <1>1, <1>4 DEF Taken
    <2>2. \A v \in Workers : pc[v] \in Filling => pc'[v] \in Filling
      BY <1>1, <1>4 DEF Filling
    <2>3. \A r \in Slots : tid'[r] = "claiming" => tid[r] = "claiming"
      BY <1>4
    <2>4. \A v \in Workers : pc'[v] = "claim" => pc[v] = "claim"
      BY <1>4
    <2>q. QED  BY <1>1, <2>1, <2>2, <2>3, <2>4 DEF ClaimInv, Scanned
  <1>7. Listed'
    <2>1. \A v \in Workers : pc'[v] \in Registered => v # w /\ pc[v] \in Registered
      BY <1>4 DEF Registered
    <2>2. \A v \in Workers, r \in Slots : v # w /\ tid[r] = v => tid'[r] = v
      BY <1>3, <1>4
    <2>q. QED  BY <2>1, <2>2 DEF ClaimInv, Listed
  <1>q. QED  BY <1>4, <1>5, <1>6, <1>7 DEF ClaimInv

\* Every other step of a worker leaves the slots alone.
LEMMA WorkerLists ==
  ASSUME RegInv, ClaimInv, NEW w \in Workers, WorkerStep(w)
  PROVE  ClaimInv'
  <1>0. at \in [Workers -> Nat] /\ pc = [v \in Workers |-> pc[v]]
    BY DEF RegInv, RegTyped
  <1>r. pc[w] \in Registered => \E s \in Slots : tid[s] = w
    BY DEF ClaimInv, Listed
  <1>1. CASE Register(w)
    <2>1. CASE srvrun_bcast_find(w) # 0
      <3>1. \E s \in Slots : tid[s] = w
        BY <2>1, FindExact
      <3>2. Still(w, "serve")
        BY <1>0, <1>1, <2>1, <3>1 DEF Register, Goto, registry, Still, Filling, Past, Registered
      <3>q. QED  BY <3>2, StillMove
    <2>2. CASE srvrun_bcast_find(w) = 0
      <3>1. \A r \in Slots : ~ (r < 1)
        BY SlotNumbers
      <3>2. Still(w, "claim")
        BY <1>0, <1>1, <2>2, <3>1 DEF Register, Goto, registry, Still, Filling, Past, Registered
      <3>q. QED  BY <3>2, StillMove
    <2>q. QED  BY <2>1, <2>2
  <1>2. CASE Claim(w)       BY <1>2, ClaimScans
  <1>3. CASE Fill(w)        BY <1>3, FillNames
  <1>4. CASE Publish(w)     BY <1>4, PublishLists
  <1>5. CASE Unregister(w)  BY <1>5, UnregisterFrees
  <1>6. CASE Count(w)
    <2>1. Still(w, "serve")
      BY <1>0, <1>r, <1>6 DEF Count, Goto, Still, Filling, Past, Registered
    <2>q. QED  BY <2>1, StillMove
  <1>7. CASE Uncount(w) \/ OpenFails(w)
    <2>1. Still(w, "exited")
      BY <1>0, <1>7 DEF Uncount, OpenFails, Goto, registry, Still, Filling, Past, Registered
    <2>q. QED  BY <2>1, StillMove
  <1>8. CASE Serve(w)
    <2>1. PICK next \in {"loop", "unregister"} : pc' = [pc EXCEPT ![w] = next]
      BY <1>8 DEF Serve
    <2>2. Still(w, next)
      BY <1>0, <1>r, <1>8, <2>1 DEF Serve, registry, Still, Filling, Past, Registered
    <2>q. QED  BY <2>2, StillMove
  <1>9. CASE Drain(w)
    <2>1. Still(w, "loop")
      BY <1>0, <1>r, <1>9 DEF Drain, registry, Still, Filling, Past, Registered
    <2>q. QED  BY <2>1, StillMove
  <1>10. CASE Broadcast(w)
    <2>1. Still(w, pc'[w])
      <3>1. /\ pc[w] = "loop" /\ UNCHANGED <<tid, index, row>>
            /\ \A v \in Workers : v # w => at'[v] = at[v]
            /\ pc' = pc \/ pc' = [pc EXCEPT ![w] = "tid"] \/ pc' = [pc EXCEPT ![w] = "loop"]
        BY <1>0, <1>10 DEF Broadcast, registry
      <3>2. pc' = [pc EXCEPT ![w] = pc'[w]] /\ pc'[w] \in {"tid", "loop"}
        BY <1>0, <3>1
      <3>q. QED  BY <1>r, <3>1, <3>2 DEF Still, Filling, Past, Registered
    <2>q. QED  BY <2>1, StillMove
  <1>11. CASE LoadTid(w)
    <2>1. Still(w, pc'[w])
      <3>1. /\ pc[w] = "tid" /\ UNCHANGED <<tid, index, row>>
            /\ \A v \in Workers : v # w => at'[v] = at[v]
            /\ pc' = pc \/ pc' = [pc EXCEPT ![w] = "push"] \/ pc' = [pc EXCEPT ![w] = "loop"]
        BY <1>0, <1>11 DEF LoadTid, registry
      <3>2. pc' = [pc EXCEPT ![w] = pc'[w]] /\ pc'[w] \in {"tid", "push", "loop"}
        BY <1>0, <3>1
      <3>q. QED  BY <1>r, <3>1, <3>2 DEF Still, Filling, Past, Registered
    <2>q. QED  BY <2>1, StillMove
  <1>12. CASE PushRow(w)
    <2>1. Still(w, "tid")
      BY <1>0, <1>r, <1>12 DEF PushRow, Goto, registry, Still, Filling, Past, Registered
    <2>q. QED  BY <2>1, StillMove
  <1>13. CASE LoopEnds(w)
    <2>1. Still(w, "unregister")
      BY <1>0, <1>r, <1>13 DEF LoopEnds, Goto, registry, Still, Filling, Past, Registered
    <2>q. QED  BY <2>1, StillMove
  <1>q. QED
    BY <1>1, <1>2, <1>3, <1>4, <1>5, <1>6, <1>7, <1>8, <1>9, <1>10, <1>11, <1>12, <1>13
    DEF WorkerStep

\* The claim invariant is inductive.
LEMMA ClaimNext ==
  ASSUME RegInv, Unborn, ClaimInv, [Next]_vars
  PROVE  ClaimInv'
  <1>1. ASSUME NEW w \in Workers, WorkerStep(w) PROVE ClaimInv'
    BY <1>1, WorkerLists
  <1>2. ASSUME UNCHANGED <<tid, index, row, pc, at>> PROVE ClaimInv'
    BY <1>2 DEF ClaimInv, FilledOnce, Scanned, Taken, Listed
  <1>3. CASE Setup \/ Wait \/ Join \/ RequestShutdown \/ UNCHANGED vars
    <2>1. UNCHANGED <<tid, index, row, pc, at>>
      BY <1>3 DEF Setup, Wait, Join, RequestShutdown, vars, registry, worker
    <2>q. QED  BY <1>2, <2>1
  <1>4. CASE Spawn
    <2>1. UNCHANGED <<tid, index, row, at>>
      BY <1>4 DEF Spawn, registry
    <2>2. CASE UNCHANGED pc
      BY <1>2, <2>1, <2>2
    <2>3. ASSUME NEW w \in Workers \ spawned, pc' = [pc EXCEPT ![w] = "start"]
          PROVE  ClaimInv'
      <3>1. Still(w, "start")
        BY <2>1, <2>3 DEF Unborn, Still, Filling, Past, Registered
      <3>q. QED  BY <3>1, StillMove
    <2>q. QED  BY <1>4, <2>2, <2>3 DEF Spawn
  <1>q. QED  BY <1>1, <1>3, <1>4 DEF Next, ControlStep

\* A worker claims one slot in its life and passes only slots that others claimed,
\* in every reachable state.
THEOREM ClaimInvariant == Spec => []ClaimInv
  <1>1. Init => ClaimInv
    BY Markers DEF Init, ClaimInv, FilledOnce, Scanned, Listed, Registered
  <1>2. RegInv /\ LifeInv /\ ClaimInv /\ [Next]_vars => ClaimInv'
    BY ClaimNext DEF LifeInv
  <1>q. QED  BY <1>1, <1>2, RegistryInvariant, PTL DEF Spec

\* wired_srvrun_broadcast_register never runs out of slots: with a registry as large
\* as the fleet no worker serves unregistered, whatever slots are claimed, released
\* and claimed again while it scans.
THEOREM EveryoneListed == Spec => []NobodyLeftOut
  <1>1. RegInv /\ ClaimInv => NobodyLeftOut
    <2> SUFFICES ASSUME RegInv, ClaimInv, NEW w \in Workers,
                        pc[w] \in {"serve", "loop", "tid", "push"}
                 PROVE  srvrun_bcast_find(w) # 0
      BY DEF NobodyLeftOut
    <2>1. \E s \in Slots : tid[s] = w
      BY DEF ClaimInv, Listed, Registered
    <2>q. QED  BY <2>1, FindExact, SlotNumbers
  <1>q. QED  BY <1>1, RegistryInvariant, ClaimInvariant, PTL

-----------------------------------------------------------------------------
\* The rings.

MeshTyped ==
  /\ mesh \in [Workers -> [Workers -> Seq(Nat)]]
  /\ got \in [Workers -> [Workers -> Seq(Nat)]]
  /\ nsent \in [Workers -> Nat]

\* A push goes to the caller's own column of some worker's row.
LEMMA PushTarget ==
  ASSUME RegInv, NEW w \in Workers, PushRow(w)
  PROVE  row[at[w]] \in Workers /\ index[srvrun_bcast_find(w)] = w
  <1>1. pc[w] = "push"
    BY DEF PushRow, Goto
  <1>2. row[at[w]] \in Workers /\ \E s \in Slots : tid[s] = w
    BY <1>1 DEF RegInv, Pushing
  <1>3. srvrun_bcast_find(w) \in Slots /\ tid[srvrun_bcast_find(w)] = w
    BY <1>2, FindExact
  <1>4. index[srvrun_bcast_find(w)] = w
    BY <1>3 DEF RegInv, Published
  <1>q. QED  BY <1>2, <1>4

\* A drain takes from the caller's own row.
LEMMA DrainTarget ==
  ASSUME RegInv, NEW w \in Workers, Drain(w)
  PROVE  row[srvrun_bcast_find(w)] = w
  <1>1. srvrun_bcast_find(w) \in Slots /\ tid[srvrun_bcast_find(w)] = w
    BY FindExact DEF Drain
  <1>q. QED  BY <1>1 DEF RegInv, Published

\* What a push and a drain do to one ring and to what its consumer got.
LEMMA PushEffect ==
  ASSUME RegInv, MeshTyped, NEW w \in Workers, PushRow(w)
  PROVE  /\ MeshTyped'
         /\ \A t, j \in Workers : j # w => mesh'[t][j] = mesh[t][j]
         /\ \A t \in Workers : Len(mesh'[t][w]) >= Len(mesh[t][w])
         /\ pc[w] = "push" /\ pc'[w] = "tid"
  <1> DEFINE t == row[at[w]]
             n == nsent[w]
  <1>1. t \in Workers /\ index[srvrun_bcast_find(w)] = w
    BY PushTarget
  <1>2. /\ UNCHANGED <<got, nsent>> /\ pc[w] = "push" /\ pc' = [pc EXCEPT ![w] = "tid"]
        /\ mesh' = mesh \/ mesh' = [mesh EXCEPT ![t][w] = Append(mesh[t][w], n)]
    BY <1>1 DEF PushRow, Goto
  <1>3. pc'[w] = "tid"
    BY <1>2 DEF RegInv, RegTyped
  <1>4. n \in Nat /\ mesh[t][w] \in Seq(Nat)
    BY <1>1 DEF MeshTyped
  <1> HIDE DEF t, n
  <1>5. CASE mesh' = mesh
    <2>1. \A u \in Workers : Len(mesh[u][w]) \in Nat
      BY DEF MeshTyped
    <2>q. QED  BY <1>2, <1>3, <1>5, <2>1 DEF MeshTyped
  <1>6. CASE mesh' = [mesh EXCEPT ![t][w] = Append(mesh[t][w], n)]
    <2>0. /\ Append(mesh[t][w], n) \in Seq(Nat)
          /\ Len(Append(mesh[t][w], n)) = Len(mesh[t][w]) + 1
          /\ \A u \in Workers : Len(mesh[u][w]) \in Nat
      BY <1>4 DEF MeshTyped
    <2>1. /\ mesh' \in [Workers -> [Workers -> Seq(Nat)]]
          /\ \A u, j \in Workers :
               mesh'[u][j] = IF u = t /\ j = w THEN Append(mesh[t][w], n) ELSE mesh[u][j]
      BY <1>1, <1>6, <2>0 DEF MeshTyped
    <2>2. ASSUME NEW u \in Workers PROVE Len(mesh'[u][w]) >= Len(mesh[u][w])
      <3>1. CASE u = t
        <4>1. Len(mesh'[u][w]) = Len(mesh[u][w]) + 1
          BY <2>0, <2>1, <3>1
        <4>q. QED  BY <2>0, <4>1
      <3>2. CASE u # t
        <4>1. mesh'[u][w] = mesh[u][w]
          BY <2>1, <3>2
        <4>q. QED  BY <2>0, <4>1
      <3>q. QED  BY <3>1, <3>2
    <2>q. QED  BY <1>2, <1>3, <2>1, <2>2 DEF MeshTyped
  <1>q. QED  BY <1>2, <1>5, <1>6

LEMMA DrainEffect ==
  ASSUME RegInv, MeshTyped, NEW w \in Workers, Drain(w)
  PROVE  /\ MeshTyped'
         /\ \A t, j \in Workers : t # w => mesh'[t][j] = mesh[t][j]
         /\ \A j \in Workers :
              /\ Len(mesh'[w][j]) <= Len(mesh[w][j])
              /\ Len(mesh'[w][j]) < Len(mesh[w][j]) => got'[w] # got[w]
  <1>1. row[srvrun_bcast_find(w)] = w
    BY DrainTarget
  <1>2. /\ nsent' = nsent
        /\ mesh' = [mesh EXCEPT ![w] =
             [j \in Workers |-> IF mesh[w][j] = <<>> THEN <<>> ELSE Tail(mesh[w][j])]]
        /\ got' = [got EXCEPT ![w] =
             [j \in Workers |-> IF mesh[w][j] = <<>> THEN got[w][j]
                                ELSE Append(got[w][j], Head(mesh[w][j]))]]
    BY <1>1 DEF Drain
  <1>3. \A j \in Workers : /\ mesh[w][j] \in Seq(Nat) /\ got[w][j] \in Seq(Nat)
    BY DEF MeshTyped
  <1>4. \A j \in Workers : mesh[w][j] # <<>> =>
          /\ Tail(mesh[w][j]) \in Seq(Nat) /\ Len(Tail(mesh[w][j])) = Len(mesh[w][j]) - 1
          /\ Head(mesh[w][j]) \in Nat
          /\ Append(got[w][j], Head(mesh[w][j])) \in Seq(Nat)
          /\ Append(got[w][j], Head(mesh[w][j])) # got[w][j]
    <2>1. \A q, g \in Seq(Nat) : q # <<>> =>
            /\ Tail(q) \in Seq(Nat) /\ Len(Tail(q)) = Len(q) - 1 /\ Head(q) \in Nat
            /\ Append(g, Head(q)) \in Seq(Nat) /\ Len(Append(g, Head(q))) = Len(g) + 1
            /\ Len(g) \in Nat
      OBVIOUS
    <2>q. QED  BY <1>3, <2>1
  <1>5. \A j \in Workers :
          /\ mesh'[w][j] = IF mesh[w][j] = <<>> THEN <<>> ELSE Tail(mesh[w][j])
          /\ got'[w][j] = IF mesh[w][j] = <<>> THEN got[w][j]
                          ELSE Append(got[w][j], Head(mesh[w][j]))
    BY <1>2 DEF MeshTyped
  <1>6. \A t, j \in Workers : t # w => mesh'[t][j] = mesh[t][j]
    BY <1>2 DEF MeshTyped
  <1>7. MeshTyped'
    BY <1>2, <1>3, <1>4 DEF MeshTyped
  <1>8. \A j \in Workers : /\ Len(mesh'[w][j]) <= Len(mesh[w][j])
                           /\ mesh[w][j] # <<>> => got'[w][j] # got[w][j]
                           /\ mesh[w][j] = <<>> => mesh'[w][j] = mesh[w][j]
    <2> SUFFICES ASSUME NEW j \in Workers
                 PROVE  /\ Len(mesh'[w][j]) <= Len(mesh[w][j])
                        /\ mesh[w][j] # <<>> => got'[w][j] # got[w][j]
                        /\ mesh[w][j] = <<>> => mesh'[w][j] = mesh[w][j]
      OBVIOUS
    <2>1. Len(mesh[w][j]) \in Nat
      BY <1>3
    <2>2. CASE mesh[w][j] = <<>>
      <3>1. mesh'[w][j] = mesh[w][j]
        BY <1>5, <2>2
      <3>q. QED  BY <2>1, <2>2, <3>1
    <2>3. CASE mesh[w][j] # <<>>
      <3>1. Len(mesh'[w][j]) = Len(mesh[w][j]) - 1
        BY <1>4, <1>5, <2>3
      <3>2. got'[w][j] # got[w][j]
        BY <1>4, <1>5, <2>3
      <3>q. QED  BY <2>1, <2>3, <3>1, <3>2
    <2>q. QED  BY <2>2, <2>3
  <1>9. \A j \in Workers : Len(mesh'[w][j]) < Len(mesh[w][j]) => got'[w] # got[w]
    <2>1. \A j \in Workers : Len(mesh[w][j]) \in Nat
      BY <1>3
    <2>q. QED  BY <1>8, <2>1
  <1>q. QED  BY <1>6, <1>7, <1>8, <1>9

\* Every other step leaves the rings alone.
LEMMA RingsAlone ==
  ASSUME RegInv, MeshTyped, [Next]_vars,
         ~ \E w \in Workers : PushRow(w) \/ Drain(w)
  PROVE  MeshTyped' /\ mesh' = mesh
  <1>1. ASSUME NEW w \in Workers, Broadcast(w)
        PROVE  MeshTyped' /\ mesh' = mesh
    <2>1. mesh' = mesh /\ nsent' \in [Workers -> Nat]
      BY <1>1 DEF Broadcast, MeshTyped
    <2>2. CASE got' = got
      BY <2>1, <2>2 DEF MeshTyped
    <2>3. CASE got' = [got EXCEPT ![w][w] = Append(got[w][w], nsent[w] + 1)]
      <3>1. nsent[w] + 1 \in Nat /\ got[w][w] \in Seq(Nat)
        BY DEF MeshTyped
      <3>2. Append(got[w][w], nsent[w] + 1) \in Seq(Nat)
        BY <3>1
      <3>3. got' \in [Workers -> [Workers -> Seq(Nat)]]
        BY <2>3, <3>2 DEF MeshTyped
      <3>q. QED  BY <2>1, <3>3 DEF MeshTyped
    <2>q. QED  BY <1>1, <2>2, <2>3 DEF Broadcast
  <1>2. ASSUME NEW w \in Workers, WorkerStep(w), ~ Broadcast(w)
        PROVE  UNCHANGED <<mesh, got, nsent>>
    BY <1>2 DEF WorkerStep, Register, Claim, Fill, Publish, Count, Unregister, Uncount,
                OpenFails, Serve, LoadTid, LoopEnds
  <1>3. CASE ControlStep \/ RequestShutdown \/ UNCHANGED vars
    BY <1>3 DEF ControlStep, Setup, Spawn, Wait, Join, RequestShutdown, vars, worker,
                MeshTyped
  <1>q. QED  BY <1>1, <1>2, <1>3 DEF Next, MeshTyped

\* The rings are typed in every reachable state.
LEMMA MeshAlwaysTyped == Spec => []MeshTyped
  <1>1. Init => MeshTyped
    BY DEF Init, MeshTyped
  <1>2. ASSUME RegInv, MeshTyped, [Next]_vars PROVE MeshTyped'
    BY <1>2, PushEffect, DrainEffect, RingsAlone
  <1>q. QED  BY <1>1, <1>2, RegistryInvariant, PTL DEF Spec

\* The contract SrvInbox rests on holds for any fleet: only worker j pushes into a
\* column j, only worker t pops from row t, whatever slots change hands between
\* the loads of a push.
THEOREM RingContract == Spec => SingleProducerSingleConsumer
  <1> DEFINE OneStep ==
        \A t, j \in Workers :
          /\ Len(mesh'[t][j]) > Len(mesh[t][j]) => pc[j] = "push" /\ pc'[j] = "tid"
          /\ Len(mesh'[t][j]) < Len(mesh[t][j]) => got'[t] # got[t]
  <1>2. ASSUME RegInv, MeshTyped, [Next]_vars
        PROVE  MeshTyped' /\ OneStep
    <2>0. \A t, j \in Workers : Len(mesh[t][j]) \in Nat
      BY <1>2 DEF MeshTyped
    <2>1. ASSUME NEW w \in Workers, PushRow(w)
          PROVE  MeshTyped' /\ OneStep
      <3>1. MeshTyped'
        BY <1>2, <2>1, PushEffect
      <3>2. \A t, j \in Workers : Len(mesh'[t][j]) \in Nat
        BY <3>1 DEF MeshTyped
      <3>q. QED  BY <1>2, <2>0, <2>1, <3>1, <3>2, PushEffect
    <2>2. ASSUME NEW w \in Workers, Drain(w)
          PROVE  MeshTyped' /\ OneStep
      <3>1. MeshTyped'
        BY <1>2, <2>2, DrainEffect
      <3>2. \A t, j \in Workers : Len(mesh'[t][j]) \in Nat
        BY <3>1 DEF MeshTyped
      <3>q. QED  BY <1>2, <2>0, <2>2, <3>1, <3>2, DrainEffect
    <2>3. CASE ~ \E w \in Workers : PushRow(w) \/ Drain(w)
      BY <1>2, <2>0, <2>3, RingsAlone
    <2>q. QED  BY <2>1, <2>2, <2>3
  <1>3. RegInv /\ MeshTyped /\ [Next]_vars => [OneStep]_vars
    BY <1>2
  <1>q. QED
    BY <1>3, RegistryInvariant, MeshAlwaysTyped, PTL DEF Spec, SingleProducerSingleConsumer

-----------------------------------------------------------------------------
\* The order of the broadcasts.

Rising(q)    == \A i, k \in 1 .. Len(q) : i < k => q[i] < q[k]
Before(p, q) == \A i \in 1 .. Len(p), k \in 1 .. Len(q) : p[i] < q[k]
AtMost(q, n) == \A i \in 1 .. Len(q) : q[i] <= n
Under(q, n)  == \A i \in 1 .. Len(q) : q[i] < n

\* A broadcast larger than all the ones in a queue goes to its end.
LEMMA AppendRises ==
  ASSUME NEW p \in Seq(Nat), NEW q \in Seq(Nat), NEW n \in Nat,
         Rising(q), Under(q, n), Under(p, n), Before(p, q)
  PROVE  Rising(Append(q, n)) /\ AtMost(Append(q, n), n) /\ Before(p, Append(q, n))
  <1>1. /\ Len(Append(q, n)) = Len(q) + 1 /\ Len(q) \in Nat
        /\ \A i \in 1 .. Len(q) : Append(q, n)[i] = q[i] /\ q[i] \in Nat
        /\ Append(q, n)[Len(q) + 1] = n
    OBVIOUS
  <1>2. \A i \in 1 .. Len(Append(q, n)) : i \in 1 .. Len(q) \/ i = Len(q) + 1
    BY <1>1
  <1>3. Rising(Append(q, n))
    BY <1>1, <1>2 DEF Rising, Under
  <1>4. AtMost(Append(q, n), n)
    BY <1>1, <1>2 DEF AtMost, Under
  <1>5. Before(p, Append(q, n))
    BY <1>1, <1>2 DEF Before, Under
  <1>q. QED  BY <1>3, <1>4, <1>5

\* Draining moves the head of the ring behind what was fanned out before.
LEMMA MoveRises ==
  ASSUME NEW p \in Seq(Nat), NEW q \in Seq(Nat), NEW n \in Nat, q # <<>>,
         Rising(p), Rising(q), Before(p, q)
  PROVE  /\ Rising(Append(p, Head(q))) /\ Rising(Tail(q))
         /\ Before(Append(p, Head(q)), Tail(q))
         /\ AtMost(p, n) /\ AtMost(q, n) => AtMost(Append(p, Head(q)), n) /\ AtMost(Tail(q), n)
         /\ Under(p, n) /\ Under(q, n) => Under(Append(p, Head(q)), n) /\ Under(Tail(q), n)
  <1> DEFINE h == Head(q)
             a == Append(p, h)
             r == Tail(q)
  <1>1. /\ Len(p) \in Nat /\ Len(q) \in Nat /\ Len(q) # 0
        /\ h = q[1] /\ h \in Nat /\ 1 \in 1 .. Len(q)
    OBVIOUS
  <1>2. /\ Len(a) = Len(p) + 1 /\ a[Len(p) + 1] = h
        /\ \A i \in 1 .. Len(p) : a[i] = p[i] /\ p[i] \in Nat
    BY <1>1
  <1>3. /\ Len(r) = Len(q) - 1
        /\ \A i \in 1 .. Len(r) : r[i] = q[i + 1] /\ i + 1 \in 1 .. Len(q) /\ q[i + 1] \in Nat
    BY <1>1
  <1>4. \A i \in 1 .. Len(a) : i \in 1 .. Len(p) \/ i = Len(p) + 1
    BY <1>1, <1>2
  <1> HIDE DEF h, a, r
  <1>5. Under(p, h)
    BY <1>1 DEF Before, Under
  <1>6. Rising(a)
    <2> SUFFICES ASSUME NEW i \in 1 .. Len(a), NEW k \in 1 .. Len(a), i < k
                 PROVE  a[i] < a[k]
      BY DEF Rising
    <2>1. i \in 1 .. Len(p)
      BY <1>1, <1>2
    <2>2. CASE k \in 1 .. Len(p)
      BY <1>2, <2>1, <2>2 DEF Rising
    <2>3. CASE k = Len(p) + 1
      BY <1>2, <1>5, <2>1, <2>3 DEF Under
    <2>q. QED  BY <1>4, <2>2, <2>3
  <1>7. Rising(r)
    <2> SUFFICES ASSUME NEW i \in 1 .. Len(r), NEW k \in 1 .. Len(r), i < k
                 PROVE  r[i] < r[k]
      BY DEF Rising
    <2>1. i + 1 \in 1 .. Len(q) /\ k + 1 \in 1 .. Len(q) /\ i + 1 < k + 1
      BY <1>1, <1>3
    <2>2. q[i + 1] < q[k + 1]
      BY <2>1 DEF Rising
    <2>q. QED  BY <1>3, <2>2
  <1>8. Before(a, r)
    <2> SUFFICES ASSUME NEW i \in 1 .. Len(a), NEW k \in 1 .. Len(r)
                 PROVE  a[i] < r[k]
      BY DEF Before
    <2>1. r[k] = q[k + 1] /\ k + 1 \in 1 .. Len(q)
      BY <1>3
    <2>2. CASE i \in 1 .. Len(p)
      BY <1>2, <2>1, <2>2 DEF Before
    <2>3. CASE i = Len(p) + 1
      <3>1. 1 < k + 1
        BY <1>1, <1>3
      <3>2. q[1] < q[k + 1]
        BY <1>1, <2>1, <3>1 DEF Rising
      <3>q. QED  BY <1>1, <1>2, <2>1, <2>3, <3>2
    <2>q. QED  BY <1>4, <2>2, <2>3
  <1>9. AtMost(p, n) /\ AtMost(q, n) => AtMost(a, n) /\ AtMost(r, n)
    BY <1>1, <1>2, <1>3, <1>4 DEF AtMost
  <1>10. Under(p, n) /\ Under(q, n) => Under(a, n) /\ Under(r, n)
    BY <1>1, <1>2, <1>3, <1>4 DEF Under
  <1>q. QED  BY <1>6, <1>7, <1>8, <1>9, <1>10 DEF h, a, r

\* What worker t has of worker v's broadcasts, fanned out or still in the ring, is in
\* order and was sent.
InOrder ==
  \A t, v \in Workers :
    /\ Rising(got[t][v]) /\ Rising(mesh[t][v]) /\ Before(got[t][v], mesh[t][v])
    /\ AtMost(got[t][v], nsent[v]) /\ AtMost(mesh[t][v], nsent[v])

\* During a push loop of v: where t already has the broadcast, the loop has passed
\* t's row; a row is never pushed to again, because no other slot will point at it.
PushedOnce ==
  \A t, v \in Workers :
    t # v /\ pc[v] \in {"tid", "push"} =>
      \/ pc[t] \in Past /\ \A s \in Slots : row[s] = t => s < at[v]
      \/ Under(got[t][v], nsent[v]) /\ Under(mesh[t][v], nsent[v])

\* Nobody pushes to its own row.
NotToSelf ==
  \A v \in Workers : mesh[v][v] = <<>> /\ (pc[v] = "push" => row[at[v]] # v)

OrderInv == InOrder /\ PushedOnce /\ NotToSelf

\* A step that neither broadcasts, pushes nor drains, and fills only slots for workers
\* that had none.
Calm ==
  /\ UNCHANGED <<mesh, got, nsent>>
  /\ \A v \in Workers :
       /\ pc[v] \in Past => pc'[v] \in Past
       /\ pc'[v] \in {"tid", "push"} => pc[v] \in {"tid", "push"} /\ at[v] <= at'[v]
       /\ pc'[v] = "push" => row'[at'[v]] # v
  /\ \A s \in Slots, t \in Workers : row'[s] = t => row[s] = t \/ pc[t] \notin Past

LEMMA CalmKeeps ==
  ASSUME RegInv, RegInv', OrderInv, Calm
  PROVE  OrderInv'
  <1> USE DEF Calm
  <1>1. InOrder'
    BY DEF OrderInv, InOrder
  <1>2. PushedOnce'
    <2> SUFFICES ASSUME NEW t \in Workers, NEW v \in Workers, t # v,
                        pc'[v] \in {"tid", "push"},
                        ~ (Under(got[t][v], nsent[v]) /\ Under(mesh[t][v], nsent[v]))
                 PROVE  pc'[t] \in Past /\ \A s \in Slots : row'[s] = t => s < at'[v]
      BY DEF PushedOnce
    <2>1. pc[t] \in Past /\ \A s \in Slots : row[s] = t => s < at[v]
      BY DEF OrderInv, PushedOnce
    <2>2. at[v] \in Nat /\ at'[v] \in Nat /\ at[v] <= at'[v] /\ Slots \subseteq Nat
      BY SlotNumbers DEF RegInv, RegTyped
    <2>q. QED  BY <2>1, <2>2
  <1>3. NotToSelf'
    BY DEF OrderInv, NotToSelf
  <1>q. QED  BY <1>1, <1>2, <1>3 DEF OrderInv

\* A broadcast is newer than anything anybody has of its sender.
LEMMA BroadcastOrders ==
  ASSUME RegInv, ClaimInv, MeshTyped, OrderInv, NEW w \in Workers, Broadcast(w)
  PROVE  OrderInv'
  <1> DEFINE n == nsent[w] + 1
  <1>1. /\ \E s \in Slots : tid[s] = w
        /\ pc[w] = "loop" /\ n \in Nat /\ nsent[w] \in Nat
    BY DEF Broadcast, ClaimInv, Listed, Registered, MeshTyped
  <1>2. srvrun_bcast_find(w) # 0
    BY <1>1, FindExact, SlotNumbers
  <1>3. /\ UNCHANGED <<mesh, row>> /\ nsent' = [nsent EXCEPT ![w] = n]
        /\ got' = [got EXCEPT ![w][w] = Append(got[w][w], n)]
        /\ pc' = [pc EXCEPT ![w] = IF Cardinality(Workers) > 1 THEN "tid" ELSE "loop"]
        /\ at' = [at EXCEPT ![w] = 1]
    BY <1>2 DEF Broadcast, registry
  <1>4. /\ \A v \in Workers : v # w => nsent'[v] = nsent[v] /\ pc'[v] = pc[v] /\ at'[v] = at[v]
        /\ nsent'[w] = n /\ pc'[w] \in {"tid", "loop"}
        /\ got'[w][w] = Append(got[w][w], n)
        /\ \A t, v \in Workers : t # w \/ v # w => got'[t][v] = got[t][v]
    BY <1>1, <1>3 DEF RegInv, RegTyped, MeshTyped
  <1>5. \A t \in Workers : /\ Under(got[t][w], n) /\ Under(mesh[t][w], n)
                           /\ AtMost(got[t][w], n) /\ AtMost(mesh[t][w], n)
    <2> SUFFICES ASSUME NEW t \in Workers
                 PROVE  /\ Under(got[t][w], n) /\ Under(mesh[t][w], n)
                        /\ AtMost(got[t][w], n) /\ AtMost(mesh[t][w], n)
      OBVIOUS
    <2>1. /\ AtMost(got[t][w], nsent[w]) /\ AtMost(mesh[t][w], nsent[w])
          /\ got[t][w] \in Seq(Nat) /\ mesh[t][w] \in Seq(Nat)
      BY DEF OrderInv, InOrder, MeshTyped
    <2>2. \A q \in Seq(Nat) : AtMost(q, nsent[w]) => Under(q, n) /\ AtMost(q, n)
      BY <1>1 DEF AtMost, Under
    <2>q. QED  BY <2>1, <2>2
  <1>6. InOrder'
    <2> SUFFICES ASSUME NEW t \in Workers, NEW v \in Workers
                 PROVE  /\ Rising(got'[t][v]) /\ Rising(mesh'[t][v])
                        /\ Before(got'[t][v], mesh'[t][v])
                        /\ AtMost(got'[t][v], nsent'[v]) /\ AtMost(mesh'[t][v], nsent'[v])
      BY DEF InOrder
    <2>1. CASE t = w /\ v = w
      <3>1. mesh[w][w] = <<>> /\ got[w][w] \in Seq(Nat) /\ Rising(got[w][w])
        BY DEF OrderInv, NotToSelf, InOrder, MeshTyped
      <3>2. Rising(Append(got[w][w], n)) /\ AtMost(Append(got[w][w], n), n)
        <4>1. Under(<<>>, n) /\ Before(<<>>, got[w][w])
          BY DEF Under, Before
        <4>2. <<>> \in Seq(Nat) /\ Under(got[w][w], n)
          BY <1>5
        <4> HIDE DEF n
        <4>q. QED  BY <1>1, <3>1, <4>1, <4>2, AppendRises
      <3>3. /\ Rising(<<>>) /\ AtMost(<<>>, n) /\ Before(Append(got[w][w], n), <<>>)
        BY DEF Rising, AtMost, Before
      <3>q. QED  BY <1>3, <1>4, <2>1, <3>1, <3>2, <3>3
    <2>2. CASE t # w /\ v = w
      BY <1>3, <1>4, <1>5, <2>2 DEF OrderInv, InOrder
    <2>3. CASE v # w
      BY <1>3, <1>4, <2>3 DEF OrderInv, InOrder
    <2>q. QED  BY <2>1, <2>2, <2>3
  <1>7. PushedOnce'
    <2> SUFFICES ASSUME NEW t \in Workers, NEW v \in Workers, t # v,
                        pc'[v] \in {"tid", "push"}
                 PROVE  \/ pc'[t] \in Past /\ \A s \in Slots : row'[s] = t => s < at'[v]
                        \/ Under(got'[t][v], nsent'[v]) /\ Under(mesh'[t][v], nsent'[v])
      BY DEF PushedOnce
    <2>1. CASE v = w
      BY <1>3, <1>4, <1>5, <2>1
    <2>2. CASE v # w
      BY <1>1, <1>3, <1>4, <2>2 DEF OrderInv, PushedOnce, Past
    <2>q. QED  BY <2>1, <2>2
  <1>8. NotToSelf'
    BY <1>3, <1>4 DEF OrderInv, NotToSelf
  <1>q. QED  BY <1>6, <1>7, <1>8 DEF OrderInv

\* A push gives a row the broadcast it did not have.
LEMMA PushOrders ==
  ASSUME RegInv, ClaimInv, MeshTyped, OrderInv, NEW w \in Workers, PushRow(w)
  PROVE  OrderInv'
  <1> DEFINE s == at[w]
             t == row[s]
             n == nsent[w]
  <1>1. t \in Workers /\ t # w /\ s \in Slots /\ index[srvrun_bcast_find(w)] = w
    BY PushTarget DEF PushRow, Goto, RegInv, Pushing, OrderInv, NotToSelf
  <1>2. /\ UNCHANGED <<got, nsent, row>> /\ pc[w] = "push"
        /\ pc' = [pc EXCEPT ![w] = "tid"] /\ at' = [at EXCEPT ![w] = s + 1]
        /\ mesh' = mesh \/ mesh' = [mesh EXCEPT ![t][w] = Append(mesh[t][w], n)]
    BY <1>1 DEF PushRow, Goto, registry
  <1>3. /\ pc'[w] = "tid" /\ \A v \in Workers : v # w => pc'[v] = pc[v] /\ at'[v] = at[v]
        /\ at'[w] = s + 1 /\ s \in Nat
        /\ n \in Nat /\ mesh[t][w] \in Seq(Nat) /\ got[t][w] \in Seq(Nat)
    BY <1>1, <1>2, SlotNumbers DEF RegInv, RegTyped, MeshTyped
  <1>4. pc[t] \in Past /\ \A r \in Slots : row[r] = t => r = s
    BY <1>1 DEF ClaimInv, FilledOnce
  <1>5. \A v \in Workers : pc[v] \in Past => pc'[v] \in Past
    BY <1>2, <1>3 DEF Past
  <1>6. CASE mesh' = mesh
    <2>1. Calm
      <3>1. \A v \in Workers : at[v] <= at'[v]
        BY <1>2, <1>3 DEF RegInv, RegTyped
      <3>2. \A v \in Workers : pc'[v] = "push" => row'[at'[v]] # v
        BY <1>2, <1>3 DEF OrderInv, NotToSelf
      <3>q. QED  BY <1>2, <1>3, <1>5, <1>6, <3>1, <3>2 DEF Calm
    <2>2. RegInv'
      BY WorkerKeeps DEF WorkerStep
    <2>q. QED  BY <2>1, <2>2, CalmKeeps
  <1>7. CASE mesh' = [mesh EXCEPT ![t][w] = Append(mesh[t][w], n)]
    <2>1. Under(got[t][w], n) /\ Under(mesh[t][w], n)
      <3>1. ~ (s < s)
        BY <1>3
      <3>q. QED  BY <1>1, <1>2, <3>1 DEF OrderInv, PushedOnce
    <2>2. /\ Rising(Append(mesh[t][w], n)) /\ AtMost(Append(mesh[t][w], n), n)
          /\ Before(got[t][w], Append(mesh[t][w], n))
      BY <1>1, <1>3, <2>1, AppendRises DEF OrderInv, InOrder
    <2> HIDE DEF s, t, n
    <2>3. \A u, v \in Workers :
            mesh'[u][v] = IF u = t /\ v = w THEN Append(mesh[t][w], n) ELSE mesh[u][v]
      BY <1>1, <1>7 DEF MeshTyped
    <2>4. InOrder'
      <3> SUFFICES ASSUME NEW u \in Workers, NEW v \in Workers
                   PROVE  /\ Rising(got[u][v]) /\ Rising(mesh'[u][v])
                          /\ Before(got[u][v], mesh'[u][v])
                          /\ AtMost(got[u][v], nsent[v]) /\ AtMost(mesh'[u][v], nsent[v])
        BY <1>2 DEF InOrder
      <3>1. CASE u = t /\ v = w
        BY <2>2, <2>3, <3>1 DEF OrderInv, InOrder, n
      <3>2. CASE u # t \/ v # w
        BY <2>3, <3>2 DEF OrderInv, InOrder
      <3>q. QED  BY <3>1, <3>2
    <2>5. PushedOnce'
      <3> SUFFICES ASSUME NEW u \in Workers, NEW v \in Workers, u # v,
                          pc'[v] \in {"tid", "push"}
                   PROVE  \/ pc'[u] \in Past /\ \A r \in Slots : row[r] = u => r < at'[v]
                          \/ Under(got[u][v], nsent[v]) /\ Under(mesh'[u][v], nsent[v])
        BY <1>2 DEF PushedOnce
      <3>a. PushedOnce
        BY DEF OrderInv
      <3>1. CASE u = t /\ v = w
        BY <1>3, <1>4, <1>5, <3>1 DEF t
      <3>2. CASE u # t \/ v # w
        <4>1. pc[v] \in {"tid", "push"} /\ at[v] <= at'[v] /\ at[v] \in Nat /\ at'[v] \in Nat
          BY <1>2, <1>3 DEF RegInv, RegTyped, s
        <4>2. mesh'[u][v] = mesh[u][v]
          BY <2>3, <3>2
        <4>3. \/ pc[u] \in Past /\ \A r \in Slots : row[r] = u => r < at[v]
              \/ Under(got[u][v], nsent[v]) /\ Under(mesh[u][v], nsent[v])
          BY <3>a, <4>1 DEF PushedOnce
        <4>4. ASSUME NEW r \in Slots, r < at[v] PROVE r < at'[v]
          BY <4>1, <4>4, SlotNumbers
        <4>q. QED  BY <1>5, <4>2, <4>3, <4>4
      <3>q. QED  BY <3>1, <3>2
    <2>6. NotToSelf'
      BY <1>1, <1>2, <1>3, <2>3 DEF OrderInv, NotToSelf
    <2>q. QED  BY <2>4, <2>5, <2>6 DEF OrderInv
  <1>q. QED  BY <1>2, <1>6, <1>7

\* A drain takes the oldest message of each column.
LEMMA DrainOrders ==
  ASSUME RegInv, MeshTyped, OrderInv, NEW w \in Workers, Drain(w)
  PROVE  OrderInv'
  <1>1. row[srvrun_bcast_find(w)] = w
    BY DrainTarget
  <1>2. /\ UNCHANGED <<nsent, row, pc, at>>
        /\ mesh' = [mesh EXCEPT ![w] =
             [j \in Workers |-> IF mesh[w][j] = <<>> THEN <<>> ELSE Tail(mesh[w][j])]]
        /\ got' = [got EXCEPT ![w] =
             [j \in Workers |-> IF mesh[w][j] = <<>> THEN got[w][j]
                                ELSE Append(got[w][j], Head(mesh[w][j]))]]
    BY <1>1 DEF Drain, registry
  <1>3. /\ \A t, v \in Workers :
             t # w \/ mesh[t][v] = <<>> => mesh'[t][v] = mesh[t][v] /\ got'[t][v] = got[t][v]
        /\ \A v \in Workers : mesh[w][v] # <<>> =>
             /\ mesh'[w][v] = Tail(mesh[w][v])
             /\ got'[w][v] = Append(got[w][v], Head(mesh[w][v]))
    BY <1>2 DEF MeshTyped
  <1>4. \A v \in Workers : mesh[w][v] # <<>> =>
          /\ Rising(got'[w][v]) /\ Rising(mesh'[w][v]) /\ Before(got'[w][v], mesh'[w][v])
          /\ AtMost(got'[w][v], nsent[v]) /\ AtMost(mesh'[w][v], nsent[v])
          /\ Under(got[w][v], nsent[v]) /\ Under(mesh[w][v], nsent[v]) =>
               Under(got'[w][v], nsent[v]) /\ Under(mesh'[w][v], nsent[v])
    <2> SUFFICES ASSUME NEW v \in Workers, mesh[w][v] # <<>>
                 PROVE  /\ Rising(got'[w][v]) /\ Rising(mesh'[w][v])
                        /\ Before(got'[w][v], mesh'[w][v])
                        /\ AtMost(got'[w][v], nsent[v]) /\ AtMost(mesh'[w][v], nsent[v])
                        /\ Under(got[w][v], nsent[v]) /\ Under(mesh[w][v], nsent[v]) =>
                             Under(got'[w][v], nsent[v]) /\ Under(mesh'[w][v], nsent[v])
      OBVIOUS
    <2>1. got[w][v] \in Seq(Nat) /\ mesh[w][v] \in Seq(Nat) /\ nsent[v] \in Nat
      BY DEF MeshTyped
    <2>2. /\ Rising(got[w][v]) /\ Rising(mesh[w][v]) /\ Before(got[w][v], mesh[w][v])
          /\ AtMost(got[w][v], nsent[v]) /\ AtMost(mesh[w][v], nsent[v])
      BY DEF OrderInv, InOrder
    <2>3. /\ Rising(Append(got[w][v], Head(mesh[w][v]))) /\ Rising(Tail(mesh[w][v]))
          /\ Before(Append(got[w][v], Head(mesh[w][v])), Tail(mesh[w][v]))
          /\ AtMost(Append(got[w][v], Head(mesh[w][v])), nsent[v])
          /\ AtMost(Tail(mesh[w][v]), nsent[v])
          /\ Under(got[w][v], nsent[v]) /\ Under(mesh[w][v], nsent[v]) =>
               /\ Under(Append(got[w][v], Head(mesh[w][v])), nsent[v])
               /\ Under(Tail(mesh[w][v]), nsent[v])
      BY <2>1, <2>2, MoveRises
    <2>q. QED  BY <1>3, <2>3
  <1>5. InOrder'
    BY <1>2, <1>3, <1>4 DEF OrderInv, InOrder
  <1>6. PushedOnce'
    <2> SUFFICES ASSUME NEW t \in Workers, NEW v \in Workers, t # v, pc[v] \in {"tid", "push"}
                 PROVE  \/ pc[t] \in Past /\ \A s \in Slots : row[s] = t => s < at[v]
                        \/ Under(got'[t][v], nsent[v]) /\ Under(mesh'[t][v], nsent[v])
      BY <1>2 DEF PushedOnce
    <2>1. CASE t # w \/ mesh[t][v] = <<>>
      BY <1>3, <2>1 DEF OrderInv, PushedOnce
    <2>2. CASE t = w /\ mesh[w][v] # <<>>
      BY <1>4, <2>2 DEF OrderInv, PushedOnce
    <2>q. QED  BY <2>1, <2>2
  <1>7. NotToSelf'
    BY <1>2, <1>3 DEF OrderInv, NotToSelf
  <1>q. QED  BY <1>5, <1>6, <1>7 DEF OrderInv

\* The rest of a worker's steps are calm.
LEMMA WorkerOrders ==
  ASSUME RegInv, ClaimInv, MeshTyped, OrderInv, NEW w \in Workers, WorkerStep(w)
  PROVE  OrderInv'
  <1>0. at \in [Workers -> Nat] /\ pc = [v \in Workers |-> pc[v]]
    BY DEF RegInv, RegTyped
  <1>r. RegInv'
    BY WorkerKeeps
  <1>s. \A v \in Workers : pc[v] = "push" => row[at[v]] # v
    BY DEF OrderInv, NotToSelf
  <1>1. CASE Broadcast(w)  BY <1>1, BroadcastOrders
  <1>2. CASE PushRow(w)    BY <1>2, PushOrders
  <1>3. CASE Drain(w)      BY <1>3, DrainOrders
  <1>4. CASE Fill(w)
    <2>1. /\ UNCHANGED <<mesh, got, nsent, at>> /\ pc[w] = "fill" /\ at[w] \in Slots
          /\ pc' = [pc EXCEPT ![w] = "publish"] /\ row' = [row EXCEPT ![at[w]] = w]
      BY <1>4 DEF Fill, Goto, RegInv, Claimed, Filling
    <2>2. pc'[w] = "publish" /\ \A v \in Workers : v # w => pc'[v] = pc[v]
      BY <1>0, <2>1
    <2>3. \A s \in Slots : row'[s] = row[s] \/ row'[s] = w
      BY <2>1 DEF RegInv, RegTyped
    <2>4. \A v \in Workers : pc'[v] = "push" => row'[at'[v]] # v
      <3>1. \A v \in Workers : pc'[v] = "push" => v # w /\ pc[v] = "push" /\ at[v] \in Slots
        BY <2>2 DEF RegInv, Pushing
      <3>q. QED  BY <1>s, <2>1, <2>3, <3>1
    <2>5. Calm
      BY <1>0, <2>1, <2>2, <2>3, <2>4 DEF Calm, Past
    <2>q. QED  BY <1>r, <2>5, CalmKeeps
  <1>5. CASE LoadTid(w)
    <2>1. /\ UNCHANGED <<mesh, got, nsent, row>> /\ pc[w] = "tid"
          /\ \A v \in Workers : v # w => pc'[v] = pc[v] /\ at'[v] = at[v]
          /\ pc'[w] \in {"tid", "push", "loop"} /\ at[w] <= at'[w]
      BY <1>0, <1>5 DEF LoadTid, registry
    <2>2. pc'[w] = "push" => row'[at'[w]] # w
      <3>1. SUFFICES ASSUME pc'[w] = "push" PROVE row[at'[w]] # w
        BY <2>1
      <3>2. at' = at /\ at[w] <= NSlots /\ tid[at[w]] \in Workers /\ at[w] # srvrun_bcast_find(w)
        BY <1>0, <1>5, <3>1 DEF LoadTid
      <3>3. at[w] \in Slots
        BY <1>0, <2>1, <3>2, SlotsAssumption DEF Slots, RegInv, Pushing
      <3>4. tid[at[w]] # w
        BY <3>2, <3>3, FindExact
      <3>q. QED  BY <3>2, <3>3, <3>4 DEF RegInv, Published
    <2>3. \A v \in Workers : at[v] <= at'[v]
      BY <1>0, <2>1
    <2>4. Calm
      BY <1>s, <2>1, <2>2, <2>3 DEF Calm, Past
    <2>q. QED  BY <1>r, <2>4, CalmKeeps
  <1>6. CASE Register(w) \/ Claim(w) \/ Publish(w) \/ Count(w) \/ Unregister(w) \/ Uncount(w)
             \/ OpenFails(w) \/ Serve(w) \/ LoopEnds(w)
    <2>1. /\ UNCHANGED <<mesh, got, nsent, row>>
          /\ \A v \in Workers : v # w => pc'[v] = pc[v] /\ at'[v] = at[v]
          /\ pc'[w] \notin {"tid", "push"}
          /\ pc[w] \in Past => pc'[w] \in Past
      <3>1. CASE Register(w) \/ Claim(w)
        BY <1>0, <3>1 DEF Register, Claim, Goto, registry, Past
      <3>2. CASE Publish(w) \/ Count(w) \/ Unregister(w) \/ Uncount(w) \/ OpenFails(w)
                 \/ Serve(w) \/ LoopEnds(w)
        BY <1>0, <3>2 DEF Publish, Count, Unregister, Uncount, OpenFails, Serve, LoopEnds,
                          Goto, registry, Past
      <3>q. QED  BY <1>6, <3>1, <3>2
    <2>2. \A v \in Workers : pc'[v] \in {"tid", "push"} => v # w /\ at[v] <= at'[v]
      BY <1>0, <2>1
    <2>3. Calm
      BY <1>s, <2>1, <2>2 DEF Calm
    <2>q. QED  BY <1>r, <2>3, CalmKeeps
  <1>q. QED  BY <1>1, <1>2, <1>3, <1>4, <1>5, <1>6 DEF WorkerStep

\* wired_server_broadcast_datagram and srvrun_bcast_drain_self: for any fleet, ring
\* depth and number of broadcasts, a worker fans out another one's broadcasts at most
\* once each and in the order they were made, though slots change hands during a push.
THEOREM BroadcastsInOrder == Spec => []OnceInOrder
  <1>1. Init => OrderInv
    BY DEF Init, OrderInv, InOrder, PushedOnce, NotToSelf, Rising, Before, AtMost
  <1>2. ASSUME RegInv, LifeInv, ClaimInv, MeshTyped, OrderInv, [Next]_vars
        PROVE  OrderInv'
    <2>1. ASSUME NEW w \in Workers, WorkerStep(w) PROVE OrderInv'
      BY <1>2, <2>1, WorkerOrders
    <2>2. CASE ControlStep \/ RequestShutdown \/ UNCHANGED vars
      <3>1. /\ UNCHANGED <<mesh, got, nsent, row, at>>
            /\ UNCHANGED pc \/ \E w \in Workers \ spawned : pc' = [pc EXCEPT ![w] = "start"]
        BY <2>2 DEF ControlStep, Setup, Spawn, Wait, Join, RequestShutdown, vars, worker, registry
      <3>2. \A v \in Workers : \/ pc'[v] = pc[v]
                               \/ pc[v] = "unborn" /\ pc'[v] = "start"
        BY <1>2, <3>1 DEF RegInv, RegTyped, LifeInv, Unborn
      <3>3. \A v \in Workers : at[v] <= at'[v]
        BY <1>2, <3>1 DEF RegInv, RegTyped
      <3>4. Calm
        BY <1>2, <3>1, <3>2, <3>3 DEF Calm, Past, OrderInv, NotToSelf
      <3>5. RegInv'
        BY <1>2, RegNext DEF LifeInv
      <3>q. QED  BY <1>2, <3>4, <3>5, CalmKeeps
    <2>q. QED  BY <1>2, <2>1, <2>2 DEF Next
  <1>3. OrderInv => OnceInOrder
    BY DEF OrderInv, InOrder, Rising, OnceInOrder
  <1>q. QED
    BY <1>1, <1>2, <1>3, RegistryInvariant, ClaimInvariant, MeshAlwaysTyped, PTL DEF Spec
=============================================================================
