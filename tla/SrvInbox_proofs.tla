--------------------------- MODULE SrvInbox_proofs ---------------------------
(***************************************************************************)
(* Proofs about the inbox ring for every depth, counter width and set of   *)
(* messages: the two workers never share a slot, what is popped is what    *)
(* was pushed, and the ring implements the bounded lossy FIFO.             *)
(*                                                                         *)
(* The inductive invariant relates the wrapped counters to the unbounded   *)
(* counts and every slot between them to the message published there.      *)
(***************************************************************************)
EXTENDS SrvInbox, ModLemmas

Writing == {"write", "len", "publish"}   \* the producer owns slot prod
Reading == {"size", "copy", "release"}   \* the consumer owns slot cons

Counters ==
  /\ prod = nprod % Wrap /\ cons = ncons % Wrap
  /\ ncons <= nprod /\ nprod - ncons <= Depth
  /\ Len(sent) = nprod /\ Len(given) = ncons

Owners ==
  /\ ppc # "idle" => pmsg \in Msgs
  /\ ppc \in Writing => nprod - ncons < Depth
  /\ cpc \in Reading => ncons < nprod

Contents ==
  /\ \A k \in ncons + 1 .. nprod : buf[(k - 1) % Depth] = sent[k]
  /\ ppc \in {"len", "publish"} => buf[nprod % Depth] = pmsg
  /\ cpc = "release" => cbuf = sent[ncons + 1]
  /\ \A k \in 1 .. ncons : given[k] = sent[k]

Lengths ==
  /\ \A k \in ncons + 1 .. nprod : len[(k - 1) % Depth] = SizeOf[sent[k]]
  /\ ppc = "publish" => len[nprod % Depth] = SizeOf[pmsg]
  /\ cpc \in {"copy", "release"} => clen = SizeOf[sent[ncons + 1]]
  /\ cpc = "return" => ncons > 0 /\ clen = SizeOf[sent[ncons]]

\* The inductive invariant.
IInv == TypeOK /\ Counters /\ Owners /\ Contents /\ Lengths

-----------------------------------------------------------------------------
\* What the assumptions say of the ring's depth and the counters' width.
LEMMA Sizes == /\ Depth \in Nat \ {0} /\ Wrap \in Nat \ {0}
               /\ Depth < Wrap /\ Wrap % Depth = 0
BY DepthAssumption, WrapAssumption

\* The slot a wrapped counter selects is the slot of the real count.
LEMMA SlotOfCount == ASSUME NEW n \in Nat PROVE SlotOf(n % Wrap) = n % Depth
BY Sizes, ModMod DEF SlotOf

\* Every count selects a slot of the ring.
LEMMA SlotRange == ASSUME NEW n \in Nat PROVE n % Depth \in Slots
BY Sizes, DivMod DEF Slots

\* The full and the empty test of the ring are exact, across every wrap.
LEMMA TestsExact ==
  ASSUME Counters, nprod \in Nat, ncons \in Nat
  PROVE  /\ srvinbox_full_at(prod, cons) <=> nprod - ncons = Depth
         /\ srvinbox_empty_at(prod, cons) <=> nprod = ncons
<1>0. ncons <= nprod /\ nprod - ncons < Wrap BY Sizes DEF Counters
<1>1. Pending(prod, cons) = nprod - ncons
  <2>1. nprod - ncons = IF nprod % Wrap >= ncons % Wrap
                        THEN (nprod % Wrap) - (ncons % Wrap)
                        ELSE (nprod % Wrap) - (ncons % Wrap) + Wrap
    BY <1>0, Sizes, ModDifference
  <2> QED BY <2>1 DEF Counters, Pending
<1>2. prod = cons => nprod = ncons
  <2>1. nprod % Wrap = ncons % Wrap => nprod = ncons
    BY <1>0, Sizes, ModDistinct
  <2> QED BY <2>1 DEF Counters
<1> QED BY <1>1, <1>2 DEF Counters, srvinbox_full_at, srvinbox_empty_at

\* Incrementing a u32 counter follows the count it stands for.
LEMMA SuccCount == ASSUME NEW n \in Nat PROVE Succ(n % Wrap) = (n + 1) % Wrap
BY Sizes, ModSucc DEF Succ

-----------------------------------------------------------------------------
\* A zeroed ring (wired_srvinbox_ring_init) satisfies the invariant.
LEMMA InitIInv == Init => IInv
<1> SUFFICES ASSUME Init PROVE IInv OBVIOUS
<1>1. 0 % Wrap = 0 BY Sizes, ModIs
<1>2. TypeOK BY Sizes DEF Init, TypeOK
<1>3. Counters BY <1>1, Sizes DEF Init, Counters
<1>4. Owners BY DEF Init, Owners, Writing, Reading
<1>5. Contents BY DEF Init, Contents
<1>6. Lengths BY DEF Init, Lengths
<1> QED BY <1>2, <1>3, <1>4, <1>5, <1>6 DEF IInv

\* Steps of the producer.
LEMMA PushPreserves == IInv /\ Push => IInv'
<1> SUFFICES ASSUME IInv, Push PROVE IInv' OBVIOUS
<1> USE DEF consumer, ring
<1>t. TypeOK BY DEF IInv
<1>r. nprod % Depth \in Slots /\ SlotOf(prod) = nprod % Depth
  BY <1>t, SlotRange, SlotOfCount DEF IInv, TypeOK, Counters
<1>f. srvinbox_full_at(prod, cons) <=> nprod - ncons = Depth
  BY <1>t, TestsExact DEF IInv, TypeOK
<1>w. ppc \in Writing =>
        \A k \in ncons + 1 .. nprod : (k - 1) % Depth # nprod % Depth
  <2> SUFFICES ASSUME ppc \in Writing, NEW k \in ncons + 1 .. nprod,
                      (k - 1) % Depth = nprod % Depth
               PROVE  FALSE
    OBVIOUS
  <2>1. ncons \in Nat /\ nprod \in Nat /\ nprod - ncons < Depth
    BY DEF IInv, TypeOK, Owners
  <2>2. k - 1 \in Nat /\ k - 1 <= nprod /\ nprod - (k - 1) < Depth
    BY <2>1, Sizes
  <2>3. k - 1 = nprod BY <2>1, <2>2, Sizes, ModDistinct
  <2> QED BY <2>1, <2>3
<1>1. ASSUME NEW m \in Msgs, PushStart(m) PROVE IInv'
  <2> USE <1>1 DEF PushStart
  <2>1. TypeOK' BY DEF IInv, TypeOK
  <2>2. Counters' BY DEF IInv, Counters
  <2>3. Owners' BY DEF IInv, Owners, Writing, Reading
  <2>4. Contents' BY DEF IInv, Contents
  <2>5. Lengths' BY DEF IInv, Lengths
  <2> QED BY <2>1, <2>2, <2>3, <2>4, <2>5 DEF IInv
<1>2. CASE PushLook \/ PushReload
  <2> USE <1>2 DEF PushLook, PushReload
  <2>1. TypeOK' BY DEF IInv, TypeOK
  <2>2. Counters' BY DEF IInv, Counters
  <2>3. Owners'
    <3>1. ppc' \in Writing => nprod - ncons < Depth
      BY <1>f, Sizes DEF IInv, TypeOK, Counters, Writing
    <3> QED BY <3>1 DEF IInv, Owners, Reading
  <2>4. Contents' BY DEF IInv, Contents
  <2>5. Lengths' BY DEF IInv, Lengths
  <2> QED BY <2>1, <2>2, <2>3, <2>4, <2>5 DEF IInv
<1>3. CASE PushWrite
  <2> USE <1>3 DEF PushWrite
  <2>1. TypeOK' BY DEF IInv, TypeOK
  <2>2. Counters' BY DEF IInv, Counters
  <2>3. Owners' BY DEF IInv, Owners, Writing, Reading
  <2>4. \A k \in ncons + 1 .. nprod : (k - 1) % Depth # nprod % Depth
    BY <1>w DEF Writing
  <2>5. buf' = [buf EXCEPT ![nprod % Depth] = pmsg] BY <1>r
  <2>6. Contents'
    <3>1. ASSUME NEW k \in ncons + 1 .. nprod
          PROVE  buf'[(k - 1) % Depth] = sent[k]
      <4>1. k - 1 \in Nat BY DEF IInv, TypeOK
      <4> QED BY <4>1, <2>4, <2>5, SlotRange DEF IInv, TypeOK, Contents
    <3>2. buf'[nprod % Depth] = pmsg BY <1>r, <2>5 DEF IInv, TypeOK
    <3> QED BY <3>1, <3>2 DEF IInv, Contents
  <2>7. Lengths' BY DEF IInv, Lengths
  <2> QED BY <2>1, <2>2, <2>3, <2>6, <2>7 DEF IInv
<1>4. CASE PushLen
  <2> USE <1>4 DEF PushLen
  <2>1. SizeOf[pmsg] \in Nat BY SizeAssumption DEF IInv, Owners
  <2>2. TypeOK' BY <2>1 DEF IInv, TypeOK
  <2>3. Counters' BY DEF IInv, Counters
  <2>4. Owners' BY DEF IInv, Owners, Writing, Reading
  <2>5. Contents' BY DEF IInv, Contents
  <2>6. len' = [len EXCEPT ![nprod % Depth] = SizeOf[pmsg]] BY <1>r
  <2>7. Lengths'
    <3>1. ASSUME NEW k \in ncons + 1 .. nprod
          PROVE  len'[(k - 1) % Depth] = SizeOf[sent[k]]
      <4>1. (k - 1) % Depth # nprod % Depth BY <1>w DEF Writing
      <4>2. k - 1 \in Nat BY DEF IInv, TypeOK
      <4> QED BY <4>1, <4>2, <2>6, SlotRange DEF IInv, TypeOK, Lengths
    <3>2. len'[nprod % Depth] = SizeOf[pmsg] BY <1>r, <2>6 DEF IInv, TypeOK
    <3> QED BY <3>1, <3>2 DEF IInv, Lengths
  <2> QED BY <2>2, <2>3, <2>4, <2>5, <2>7 DEF IInv
<1>5. CASE PushPublish
  <2> USE <1>5 DEF PushPublish
  <2>1. pmsg \in Msgs BY DEF IInv, Owners
  <2>2. prod' = nprod' % Wrap
    <3>1. nprod \in Nat /\ prod = nprod % Wrap BY DEF IInv, TypeOK, Counters
    <3> QED BY <3>1, SuccCount
  <2>3. TypeOK'
    <3>1. prod' \in 0 .. Wrap - 1 BY <2>2, Sizes, DivMod DEF IInv, TypeOK
    <3>2. sent' \in Seq(Msgs) BY <2>1 DEF IInv, TypeOK
    <3> QED BY <3>1, <3>2 DEF IInv, TypeOK
  <2>4. Len(sent') = nprod + 1 BY DEF IInv, TypeOK, Counters
  <2>5. Counters'
    <3>1. nprod' - ncons' <= Depth /\ ncons' <= nprod'
      BY Sizes DEF IInv, TypeOK, Counters, Owners, Writing
    <3> QED BY <2>2, <2>4, <3>1 DEF IInv, Counters
  <2>6. Owners' BY DEF IInv, TypeOK, Owners, Writing, Reading
  <2>7. \A k \in 1 .. nprod : sent'[k] = sent[k]
    BY <2>1 DEF IInv, TypeOK, Counters
  <2>8. sent'[nprod + 1] = pmsg BY <2>1 DEF IInv, TypeOK, Counters
  <2>9. Contents'
    <3>1. ASSUME NEW k \in ncons + 1 .. nprod + 1
          PROVE  buf[(k - 1) % Depth] = sent'[k]
      <4>1. CASE k = nprod + 1
        <5>1. k - 1 = nprod BY <4>1 DEF IInv, TypeOK
        <5> QED BY <4>1, <5>1, <2>8 DEF IInv, Contents
      <4>2. CASE k # nprod + 1
        <5>1. k \in ncons + 1 .. nprod /\ k \in 1 .. nprod
          BY <4>2 DEF IInv, TypeOK
        <5> QED BY <5>1, <2>7 DEF IInv, Contents
      <4> QED BY <4>1, <4>2
    <3>2. cpc = "release" => cbuf = sent'[ncons + 1]
      <4> SUFFICES ASSUME cpc = "release" PROVE cbuf = sent'[ncons + 1]
        OBVIOUS
      <4>1. ncons + 1 \in 1 .. nprod
        BY DEF IInv, TypeOK, Owners, Reading
      <4> QED BY <4>1, <2>7 DEF IInv, Contents
    <3>3. ASSUME NEW k \in 1 .. ncons PROVE given[k] = sent'[k]
      <4>1. k \in 1 .. nprod BY DEF IInv, TypeOK, Counters
      <4> QED BY <4>1, <2>7 DEF IInv, Contents
    <3> QED BY <3>1, <3>2, <3>3 DEF Contents
  <2>10. Lengths'
    <3>1. ASSUME NEW k \in ncons + 1 .. nprod + 1
          PROVE  len[(k - 1) % Depth] = SizeOf[sent'[k]]
      <4>1. CASE k = nprod + 1
        <5>1. k - 1 = nprod BY <4>1 DEF IInv, TypeOK
        <5> QED BY <4>1, <5>1, <2>8 DEF IInv, Lengths
      <4>2. CASE k # nprod + 1
        <5>1. k \in ncons + 1 .. nprod /\ k \in 1 .. nprod
          BY <4>2 DEF IInv, TypeOK
        <5> QED BY <5>1, <2>7 DEF IInv, Lengths
      <4> QED BY <4>1, <4>2
    <3>2. cpc \in {"copy", "release"} => clen = SizeOf[sent'[ncons + 1]]
      <4> SUFFICES ASSUME cpc \in {"copy", "release"}
                   PROVE  clen = SizeOf[sent'[ncons + 1]]
        OBVIOUS
      <4>1. ncons + 1 \in 1 .. nprod
        BY DEF IInv, TypeOK, Owners, Reading
      <4> QED BY <4>1, <2>7 DEF IInv, Lengths
    <3>3. cpc = "return" => ncons > 0 /\ clen = SizeOf[sent'[ncons]]
      <4> SUFFICES ASSUME cpc = "return"
                   PROVE  ncons > 0 /\ clen = SizeOf[sent'[ncons]]
        OBVIOUS
      <4>1. ncons > 0 BY DEF IInv, Lengths
      <4>2. ncons \in 1 .. nprod BY <4>1 DEF IInv, TypeOK, Counters
      <4> QED BY <4>1, <4>2, <2>7 DEF IInv, Lengths
    <3> QED BY <3>1, <3>2, <3>3 DEF Lengths
  <2> QED BY <2>3, <2>5, <2>6, <2>9, <2>10 DEF IInv
<1> QED BY <1>1, <1>2, <1>3, <1>4, <1>5 DEF Push

\* Steps of the consumer.
LEMMA PopPreserves == IInv /\ Pop => IInv'
<1> SUFFICES ASSUME IInv, Pop PROVE IInv' OBVIOUS
<1> USE DEF producer, ring
<1>t. TypeOK BY DEF IInv
<1>r. ncons % Depth \in Slots /\ SlotOf(cons) = ncons % Depth
  BY <1>t, SlotRange, SlotOfCount DEF IInv, TypeOK, Counters
<1>e. srvinbox_empty_at(prod, cons) <=> nprod = ncons
  BY <1>t, TestsExact DEF IInv, TypeOK
<1>1. CASE PopStart
  <2> USE <1>1 DEF PopStart
  <2>1. TypeOK' BY DEF IInv, TypeOK
  <2>2. Counters' BY DEF IInv, Counters
  <2>3. Owners' BY DEF IInv, Owners, Writing, Reading
  <2>4. Contents' BY DEF IInv, Contents
  <2>5. Lengths' BY DEF IInv, Lengths
  <2> QED BY <2>1, <2>2, <2>3, <2>4, <2>5 DEF IInv
<1>2. CASE PopLook \/ PopReload
  <2> USE <1>2 DEF PopLook, PopReload, PopEmpty
  <2>1. TypeOK' BY DEF IInv, TypeOK
  <2>2. Counters' BY DEF IInv, Counters
  <2>3. Owners'
    <3>1. cpc' \in Reading => ncons < nprod
      BY <1>e DEF IInv, TypeOK, Counters, Reading
    <3> QED BY <3>1 DEF IInv, Owners, Writing
  <2>4. Contents' BY DEF IInv, Contents
  <2>5. Lengths' BY DEF IInv, Lengths
  <2> QED BY <2>1, <2>2, <2>3, <2>4, <2>5 DEF IInv
<1>3. CASE PopSize
  <2> USE <1>3 DEF PopSize, PopEmpty
  <2>1. len[SlotOf(cons)] \in Nat BY <1>r DEF IInv, TypeOK
  <2>2. TypeOK' BY <2>1 DEF IInv, TypeOK
  <2>3. Counters' BY DEF IInv, Counters
  <2>4. Owners' BY DEF IInv, Owners, Writing, Reading
  <2>5. Contents' BY DEF IInv, Contents
  <2>6. clen' = SizeOf[sent[ncons + 1]]
    <3>1. ncons + 1 \in ncons + 1 .. nprod
      BY DEF IInv, TypeOK, Owners, Reading
    <3>2. (ncons + 1) - 1 = ncons BY DEF IInv, TypeOK
    <3> QED BY <1>r, <3>1, <3>2 DEF IInv, Lengths
  <2>7. Lengths' BY <2>6 DEF IInv, Lengths
  <2> QED BY <2>2, <2>3, <2>4, <2>5, <2>7 DEF IInv
<1>4. CASE PopCopy
  <2> USE <1>4 DEF PopCopy
  <2>1. buf[ncons % Depth] \in Msgs \cup {None} BY <1>r DEF IInv, TypeOK
  <2>2. TypeOK' BY <1>r, <2>1 DEF IInv, TypeOK
  <2>3. Counters' BY DEF IInv, Counters
  <2>4. Owners' BY DEF IInv, Owners, Writing, Reading
  <2>5. cbuf' = sent[ncons + 1]
    <3>1. ncons + 1 \in ncons + 1 .. nprod
      BY DEF IInv, TypeOK, Owners, Reading
    <3>2. (ncons + 1) - 1 = ncons BY DEF IInv, TypeOK
    <3> QED BY <1>r, <3>1, <3>2 DEF IInv, Contents
  <2>6. Contents' BY <2>5 DEF IInv, Contents
  <2>7. Lengths' BY DEF IInv, Lengths
  <2> QED BY <2>2, <2>3, <2>4, <2>6, <2>7 DEF IInv
<1>5. CASE PopRelease
  <2> USE <1>5 DEF PopRelease
  <2>0. ncons < nprod /\ Len(sent) = nprod /\ Len(given) = ncons
    BY DEF IInv, TypeOK, Counters, Owners, Reading
  <2>1. cbuf \in Msgs
    <3>1. ncons + 1 \in 1 .. Len(sent) BY <2>0 DEF IInv, TypeOK
    <3> QED BY <3>1 DEF IInv, TypeOK, Contents
  <2>2. cons' = ncons' % Wrap
    <3>1. ncons \in Nat /\ cons = ncons % Wrap BY DEF IInv, TypeOK, Counters
    <3> QED BY <3>1, SuccCount
  <2>3. TypeOK'
    <3>1. cons' \in 0 .. Wrap - 1 BY <2>2, Sizes, DivMod DEF IInv, TypeOK
    <3>2. given' \in Seq(Msgs) BY <2>1 DEF IInv, TypeOK
    <3> QED BY <3>1, <3>2 DEF IInv, TypeOK
  <2>4. Counters'
    <3>1. nprod' - ncons' <= Depth /\ ncons' <= nprod'
      BY <2>0, Sizes DEF IInv, TypeOK, Counters
    <3>2. Len(given') = ncons' BY <2>0 DEF IInv, TypeOK
    <3> QED BY <2>2, <3>1, <3>2 DEF IInv, Counters
  <2>5. Owners'
    <3>1. ppc \in Writing => nprod' - ncons' < Depth
      BY Sizes DEF IInv, TypeOK, Owners
    <3> QED BY <3>1 DEF IInv, Owners, Reading
  <2>6. ASSUME NEW k \in 1 .. ncons + 1 PROVE given'[k] = sent[k]
    <3>1. CASE k = ncons + 1 BY <3>1, <2>0, <2>1 DEF IInv, TypeOK, Contents
    <3>2. CASE k # ncons + 1
      <4>1. k \in 1 .. ncons BY <3>2 DEF IInv, TypeOK
      <4> QED BY <4>1, <2>0, <2>1 DEF IInv, TypeOK, Contents
    <3> QED BY <3>1, <3>2
  <2>7. ASSUME NEW k \in ncons' + 1 .. nprod
        PROVE  buf[(k - 1) % Depth] = sent[k] /\ len[(k - 1) % Depth] = SizeOf[sent[k]]
    <3>1. k \in ncons + 1 .. nprod BY DEF IInv, TypeOK
    <3> QED BY <3>1 DEF IInv, Contents, Lengths
  <2>8. Contents' BY <2>6, <2>7 DEF IInv, Contents
  <2>9. Lengths' BY <2>7 DEF IInv, TypeOK, Lengths
  <2> QED BY <2>3, <2>4, <2>5, <2>8, <2>9 DEF IInv
<1>6. CASE PopReturn
  <2> USE <1>6 DEF PopReturn
  <2>1. TypeOK'
    <3>1. (IF cons = 0 THEN Wrap - 1 ELSE cons - 1) \in Nat
      BY Sizes DEF IInv, TypeOK
    <3>2. len[SlotOf(IF cons = 0 THEN Wrap - 1 ELSE cons - 1)] \in Nat
      BY <3>1, SlotRange DEF IInv, TypeOK, SlotOf
    <3>3. ret' \in [bytes : Msgs \cup {None}, n : Nat]
      BY <3>2 DEF IInv, TypeOK
    <3> QED BY <3>3 DEF IInv, TypeOK
  <2>2. Counters' BY DEF IInv, Counters
  <2>3. Owners' BY DEF IInv, Owners, Writing, Reading
  <2>4. Contents' BY DEF IInv, Contents
  <2>5. Lengths' BY DEF IInv, Lengths
  <2> QED BY <2>1, <2>2, <2>3, <2>4, <2>5 DEF IInv
<1> QED BY <1>1, <1>2, <1>3, <1>4, <1>5, <1>6 DEF Pop

\* Steps of neither worker.
LEMMA StutterPreserves == IInv /\ UNCHANGED vars => IInv'
BY DEF IInv, TypeOK, Counters, Owners, Contents, Lengths, vars

\* The invariant holds of every behaviour of the two workers.
THEOREM RingInductive == Spec => []IInv
<1>1. IInv /\ [Next]_vars => IInv'
  BY PushPreserves, PopPreserves, StutterPreserves DEF Next
<1> QED BY InitIInv, <1>1, PTL DEF Spec

-----------------------------------------------------------------------------
\* Every variable keeps its type; in particular the counters stay u32.
THEOREM RingTypeCorrect == Spec => []TypeOK
<1>1. IInv => TypeOK BY DEF IInv
<1> QED BY RingInductive, <1>1, PTL

\* Push never writes the slot that pop examines or copies: with both active
\* the counts differ by less than Depth and are not equal, so the slots differ.
THEOREM RingSlotExclusive == Spec => []SlotExclusive
<1>1. IInv => SlotExclusive
  <2> SUFFICES ASSUME IInv, ppc \in Writing, cpc \in Reading,
                      SlotOf(prod) = SlotOf(cons)
               PROVE  FALSE
    BY DEF SlotExclusive, Writing, Reading
  <2>1. /\ nprod \in Nat /\ ncons \in Nat
        /\ ncons < nprod /\ ncons <= nprod /\ nprod - ncons < Depth
    BY DEF IInv, TypeOK, Owners
  <2>2. nprod % Depth = ncons % Depth
    BY <2>1, SlotOfCount DEF IInv, Counters
  <2>3. ncons = nprod BY <2>1, <2>2, Sizes, ModDistinct
  <2> QED BY <2>1, <2>3
<1> QED BY RingInductive, <1>1, PTL

\* What pop copied out is what push published, message for message, and the
\* length its size check read is that message's.
THEOREM RingFifoExact == Spec => []FifoExact
<1>1. IInv => FifoExact
  <2> SUFFICES ASSUME IInv PROVE FifoExact OBVIOUS
  <2>1. nprod \in Nat /\ ncons \in Nat /\ ncons <= nprod
        /\ sent \in Seq(Msgs) /\ given \in Seq(Msgs)
        /\ Len(sent) = nprod /\ Len(given) = ncons
    BY DEF IInv, TypeOK, Counters
  <2>2. \A k \in 1 .. ncons : given[k] = sent[k] BY DEF IInv, Contents
  <2>3. SubSeq(sent, 1, ncons) = given BY <2>1, <2>2
  <2>4. cpc = "return" => ncons \in 1 .. ncons /\ clen = SizeOf[sent[ncons]]
    BY <2>1 DEF IInv, Lengths
  <2> QED BY <2>1, <2>2, <2>3, <2>4 DEF FifoExact
<1> QED BY RingInductive, <1>1, PTL

-----------------------------------------------------------------------------
\* What the ring holds and the message push is at work on: the refinement
\* mapping of ImplementsFifo.
Chan == SubSeq(sent, ncons + 1, nprod)
Offered == IF ppc = "idle" THEN None ELSE pmsg

\* The channel holds the messages between the two counts.
LEMMA ChanFacts ==
  ASSUME IInv
  PROVE  /\ Chan \in Seq(Msgs) /\ Len(Chan) = nprod - ncons
         /\ \A k \in 1 .. nprod - ncons : Chan[k] = sent[ncons + k]
<1>1. nprod \in Nat /\ ncons \in Nat /\ ncons <= nprod
      /\ sent \in Seq(Msgs) /\ Len(sent) = nprod
  BY DEF IInv, TypeOK, Counters
<1> QED BY <1>1 DEF Chan

\* A push that publishes is the channel accepting the message.
LEMMA PublishAccepts ==
  ASSUME IInv, PushPublish
  PROVE  Len(Chan) < Depth /\ Chan' = Append(Chan, pmsg)
<1> USE DEF PushPublish, consumer
<1>1. /\ nprod \in Nat /\ ncons \in Nat /\ ncons <= nprod
      /\ sent \in Seq(Msgs) /\ Len(sent) = nprod
      /\ pmsg \in Msgs /\ nprod - ncons < Depth
  BY DEF IInv, TypeOK, Counters, Owners, Writing
<1>2. Len(Chan) < Depth BY <1>1, ChanFacts
<1>3. Chan' = SubSeq(Append(sent, pmsg), ncons + 1, nprod + 1) BY DEF Chan
<1>4. Chan' = Append(Chan, pmsg)
  <2>1. Chan' \in Seq(Msgs) /\ Len(Chan') = nprod + 1 - ncons BY <1>1, <1>3
  <2>2. Append(Chan, pmsg) \in Seq(Msgs)
        /\ Len(Append(Chan, pmsg)) = nprod + 1 - ncons
    BY <1>1, ChanFacts
  <2>3. ASSUME NEW k \in 1 .. nprod + 1 - ncons
        PROVE  Chan'[k] = Append(Chan, pmsg)[k]
    <3> DEFINE new == Append(sent, pmsg)
    <3>a. new \in Seq(Msgs) /\ Len(new) = nprod + 1 /\ new[nprod + 1] = pmsg BY <1>1
    <3>b. Chan' = SubSeq(new, ncons + 1, nprod + 1) BY <1>3
    <3>c. new = Append(sent, pmsg) OBVIOUS
    <3> HIDE DEF new
    <3>d. k \in Nat /\ 1 <= k /\ k <= nprod + 1 - ncons BY <1>1
    <3>e. Chan'[k] = new[ncons + k] BY <1>1, <3>a, <3>b, <3>d
    <3>1. Chan'[k] = Append(sent, pmsg)[ncons + k] BY <3>c, <3>e
    <3>2. CASE k = nprod + 1 - ncons
      <4>1. ncons + k = nprod + 1 BY <1>1, <3>2
      <4>2. Chan'[k] = pmsg BY <3>a, <3>e, <4>1
      <4>3. Chan \in Seq(Msgs) /\ Len(Chan) = nprod - ncons BY <1>1, ChanFacts
      <4>4. Append(Chan, pmsg)[Len(Chan) + 1] = pmsg BY <1>1, <4>3
      <4>5. k = Len(Chan) + 1 BY <1>1, <3>2, <4>3
      <4> QED BY <4>2, <4>4, <4>5
    <3>3. CASE k # nprod + 1 - ncons
      <4>1. k \in 1 .. nprod - ncons /\ ncons + k \in 1 .. nprod
        BY <1>1, <3>3
      <4>2. Chan'[k] = sent[ncons + k] BY <1>1, <3>1, <4>1
      <4>3. Append(Chan, pmsg)[k] = Chan[k] BY <1>1, <4>1, ChanFacts
      <4> QED BY <4>1, <4>2, <4>3, ChanFacts
    <3> QED BY <3>2, <3>3
  <2> QED BY <2>1, <2>2, <2>3
<1> QED BY <1>1, <1>2, <1>4

\* A pop that releases its slot is the channel delivering its oldest message.
LEMMA ReleaseDelivers ==
  ASSUME IInv, PopRelease
  PROVE  /\ Chan # <<>> /\ given' = Append(given, Head(Chan))
         /\ Chan' = Tail(Chan)
<1> USE DEF PopRelease, producer, ring
<1>1. /\ nprod \in Nat /\ ncons \in Nat /\ ncons < nprod
      /\ sent \in Seq(Msgs) /\ Len(sent) = nprod /\ cbuf = sent[ncons + 1]
  BY DEF IInv, TypeOK, Counters, Owners, Reading, Contents
<1>2. Len(Chan) > 0 /\ Chan \in Seq(Msgs) BY <1>1, ChanFacts
<1>3. Chan # <<>> BY <1>2
<1>4. Head(Chan) = cbuf
  <2>1. 1 \in 1 .. nprod - ncons BY <1>1
  <2> QED BY <1>1, <1>2, <2>1, ChanFacts
<1>5. Chan' = SubSeq(sent, ncons + 2, nprod)
  BY <1>1 DEF Chan
<1>6. Chan' = Tail(Chan)
  <2>1. Chan' \in Seq(Msgs) /\ Len(Chan') = nprod - ncons - 1 BY <1>1, <1>5
  <2>2. Tail(Chan) \in Seq(Msgs) /\ Len(Tail(Chan)) = nprod - ncons - 1
    BY <1>1, <1>2, <1>3, ChanFacts
  <2>3. ASSUME NEW k \in 1 .. nprod - ncons - 1
        PROVE  Chan'[k] = Tail(Chan)[k]
    <3>1. Chan'[k] = sent[ncons + 1 + k] BY <1>1, <1>5
    <3>2. k + 1 \in 1 .. nprod - ncons BY <1>1
    <3>3. Tail(Chan)[k] = Chan[k + 1] BY <1>1, <1>2, <1>3, ChanFacts
    <3>4. Chan[k + 1] = sent[ncons + (k + 1)] BY <3>2, ChanFacts
    <3>5. ncons + 1 + k = ncons + (k + 1) BY <1>1
    <3> QED BY <3>1, <3>3, <3>4, <3>5
  <2> QED BY <2>1, <2>2, <2>3
<1> QED BY <1>3, <1>4, <1>6

\* The ring of srvinbox.c is a bounded lossy FIFO, for every depth and width: it
\* refuses a message only when it really holds Depth of them.
THEOREM RingImplementsFifo == Spec => ImplementsFifo
<1>1. Init => Fifo!Init
  BY DEF Init, Fifo!Init
<1>2. IInv /\ [Next]_vars => [Fifo!Next]_<<Offered, Chan, given>>
  <2> SUFFICES ASSUME IInv, [Next]_vars
               PROVE  Fifo!Next \/ UNCHANGED <<Offered, Chan, given>>
    OBVIOUS
  <2>t. ppc # "idle" => pmsg # None
    BY NoneAssumption DEF IInv, Owners
  <2>0. CASE UNCHANGED <<ppc, pmsg, sent, given, nprod, ncons>>
    BY <2>0 DEF Chan, Offered
  <2>1. ASSUME NEW m \in Msgs, PushStart(m)
        PROVE  Fifo!Next \/ UNCHANGED <<Offered, Chan, given>>
    <3>1. UNCHANGED <<Chan, given>>
      BY <2>1 DEF PushStart, Chan, ring, consumer
    <3>2. Offered = None /\ Offered' \in {None, m}
      BY <2>1 DEF PushStart, Offered
    <3> QED BY <3>1, <3>2 DEF Fifo!Next, Fifo!Offer, Offered, Chan
  <2>2. CASE PushReload /\ srvinbox_full_at(prod, cons)
    <3>1. UNCHANGED <<Chan, given>> BY <2>2 DEF PushReload, Chan, ring, consumer
    <3>2. Offered # None /\ Offered' = None
      BY <2>2, <2>t DEF PushReload, Offered
    <3>3. Len(Chan) = Depth
      <4>1. nprod - ncons = Depth BY <2>2, TestsExact DEF IInv, TypeOK
      <4> QED BY <4>1, ChanFacts
    <3> QED BY <3>1, <3>2, <3>3 DEF Fifo!Next, Fifo!Refuse, Offered, Chan
  <2>3. CASE \/ PushReload /\ ~ srvinbox_full_at(prod, cons)
             \/ PushLook \/ PushWrite \/ PushLen
    <3>1. UNCHANGED <<Chan, given>>
      BY <2>3 DEF PushReload, PushLook, PushWrite, PushLen, Chan, ring, consumer
    <3>2. Offered' = Offered
      BY <2>3 DEF PushReload, PushLook, PushWrite, PushLen, Offered
    <3> QED BY <3>1, <3>2
  <2>4. CASE PushPublish
    <3>1. given' = given BY <2>4 DEF PushPublish, consumer
    <3>2. Offered = pmsg /\ Offered # None /\ Offered' = None
      BY <2>4, <2>t DEF PushPublish, Offered
    <3> QED BY <2>4, <3>1, <3>2, PublishAccepts
            DEF Fifo!Next, Fifo!Accept, Chan, Offered
  <2>5. CASE PopRelease
    <3>1. Offered' = Offered BY <2>5 DEF PopRelease, producer, Offered
    <3> QED BY <2>5, <3>1, ReleaseDelivers
            DEF Fifo!Next, Fifo!Deliver, Chan, Offered
  <2>6. CASE Pop /\ ~ PopRelease
    BY <2>0, <2>6 DEF Pop, PopStart, PopLook, PopReload, PopSize, PopCopy,
                      PopReturn, producer, ring
  <2>7. CASE UNCHANGED vars BY <2>0, <2>7 DEF vars
  <2> QED BY <2>1, <2>2, <2>3, <2>4, <2>5, <2>6, <2>7 DEF Next, Push
<1> QED
  BY RingInductive, <1>1, <1>2, PTL
     DEF Spec, ImplementsFifo, Fifo!Spec, Chan, Offered
=============================================================================
