------------------------------- MODULE SrvInbox -------------------------------
(***************************************************************************)
(* One single-producer/single-consumer ring of the broadcast mesh          *)
(* (app/http3/server/srvinbox/srvinbox.c), one step per access to memory   *)
(* the two workers share: the counters prod and cons are atomic, the slots *)
(* are plain memory that only the counters protect.                        *)
(*                                                                         *)
(* nprod and ncons count what prod and cons would be if they never         *)
(* wrapped; sent and given are histories.  No step of the code reads them. *)
(***************************************************************************)
EXTENDS Integers, Sequences

CONSTANTS Msgs,     \* messages offered to the ring
          None,     \* what a buffer holds before anything is written to it
          SizeOf,   \* the length in bytes of each message
          Depth,    \* WIRED_SRVINBOX_DEPTH
          Wrap,     \* the counters are u32: they count modulo Wrap
          SlotMax,  \* WIRED_SRVINBOX_SLOT_MAX
          OutCap,   \* the capacity of the buffer every caller of pop passes
          MaxPush   \* bound: messages published in one behaviour

ASSUME DepthAssumption == Depth \in Nat \ {0}
ASSUME WrapAssumption  == Wrap \in Nat /\ Wrap > Depth /\ Wrap % Depth = 0
ASSUME NoneAssumption  == None \notin Msgs
ASSUME SizeAssumption  == SizeOf \in [Msgs -> Nat]
ASSUME CapAssumption   == SlotMax \in Nat /\ OutCap \in Nat
ASSUME BoundAssumption == MaxPush \in Nat

VARIABLES prod, cons,    \* the free-running counters (u32)
          buf, len,      \* slots[i].buf and slots[i].len
          ppc, pmsg,     \* producer: where it is in push, and the message
          cpc, cbuf, clen, \* consumer: where it is in pop, out_buf, slot->len
          ret,           \* what the last pop returned: bytes and length
          nprod, ncons, sent, given

vars == <<prod, cons, buf, len, ppc, pmsg, cpc, cbuf, clen, ret,
          nprod, ncons, sent, given>>

Slots == 0 .. Depth - 1
SlotOf(counter) == counter % Depth

\* Unsigned subtraction of two counters.
Pending(p, c) == IF p >= c THEN p - c ELSE p - c + Wrap
\* Defect: an off-by-one full test
FullAtOffByOne(p, c) == Pending(p, c) = Depth + 1

srvinbox_full_at(p, c)  == Pending(p, c) = Depth
srvinbox_empty_at(p, c) == c = p
\* Defect: the counter is not taken modulo its width
SuccNoWrap(x) == x + 1

Succ(x) == IF x = Wrap - 1 THEN 0 ELSE x + 1

TypeOK ==
  /\ prod \in 0 .. Wrap - 1 /\ cons \in 0 .. Wrap - 1
  /\ buf \in [Slots -> Msgs \cup {None}]
  /\ len \in [Slots -> Nat]
  /\ ppc \in {"idle", "look", "reload", "write", "len", "publish"}
  /\ pmsg \in Msgs \cup {None}
  /\ cpc \in {"idle", "look", "reload", "size", "copy", "release", "return"}
  /\ cbuf \in Msgs \cup {None} /\ clen \in Nat
  /\ ret \in [bytes : Msgs \cup {None}, n : Nat]
  /\ nprod \in Nat /\ ncons \in Nat
  /\ sent \in Seq(Msgs) /\ given \in Seq(Msgs)

Init ==
  /\ prod = 0 /\ cons = 0
  /\ buf = [s \in Slots |-> None] /\ len = [s \in Slots |-> 0]
  /\ ppc = "idle" /\ pmsg = None
  /\ cpc = "idle" /\ cbuf = None /\ clen = 0
  /\ ret = [bytes |-> None, n |-> 0]
  /\ nprod = 0 /\ ncons = 0 /\ sent = <<>> /\ given = <<>>

-----------------------------------------------------------------------------
\* Producer: wired_srvinbox_push.
consumer == <<cpc, cbuf, clen, ret, cons, ncons, given>>
ring     == <<prod, buf, len, nprod, sent>>

\* The caller enters push; an oversized message is refused before anything else.
PushStart(m) ==
  /\ ppc = "idle" /\ nprod < MaxPush
  /\ ppc' = IF SizeOf[m] > SlotMax THEN "idle" ELSE "look"
  /\ pmsg' = m
  /\ UNCHANGED <<ring, consumer>>

\* srvinbox_prod_full: a look that shows room goes on, a look that shows full
\* is taken once more, and only the second one drops the message.
PushLook ==
  /\ ppc = "look"
  /\ ppc' = IF srvinbox_full_at(prod, cons) THEN "reload" ELSE "write"
  /\ UNCHANGED <<pmsg, ring, consumer>>

\* Defect: the message is dropped on what the first look saw
PushReloadDrops ==
  /\ ppc = "reload" /\ ppc' = "idle"
  /\ UNCHANGED <<pmsg, ring, consumer>>

PushReload ==
  /\ ppc = "reload"
  /\ ppc' = IF srvinbox_full_at(prod, cons) THEN "idle" ELSE "write"
  /\ UNCHANGED <<pmsg, ring, consumer>>

\* Defect: prod is published before the slot is written
PushWriteEarlyPublish ==
  /\ ppc = "write" /\ ppc' = "len"
  /\ prod' = Succ(prod) /\ nprod' = nprod + 1 /\ sent' = Append(sent, pmsg)
  /\ UNCHANGED <<pmsg, buf, len, consumer>>

PushWrite ==
  /\ ppc = "write" /\ ppc' = "len"
  /\ buf' = [buf EXCEPT ![SlotOf(prod)] = pmsg]
  /\ UNCHANGED <<pmsg, prod, len, nprod, sent, consumer>>

PushLen ==
  /\ ppc = "len" /\ ppc' = "publish"
  /\ len' = [len EXCEPT ![SlotOf(prod)] = SizeOf[pmsg]]
  /\ UNCHANGED <<pmsg, prod, buf, nprod, sent, consumer>>

PushPublish ==
  /\ ppc = "publish" /\ ppc' = "idle"
  /\ prod' = Succ(prod)
  /\ nprod' = nprod + 1 /\ sent' = Append(sent, pmsg)
  /\ UNCHANGED <<pmsg, buf, len, consumer>>

-----------------------------------------------------------------------------
\* Consumer: wired_srvinbox_pop.
producer == <<ppc, pmsg, ring>>

PopStart ==
  /\ cpc = "idle" /\ cpc' = "look"
  /\ UNCHANGED <<cbuf, clen, ret, cons, ncons, given, producer>>

PopEmpty == ret' = [bytes |-> None, n |-> 0]

\* Defect: an empty ring is reported on the first look and never drained again
PopLookGivesUp ==
  /\ cpc = "look"
  /\ cpc' = IF srvinbox_empty_at(prod, cons) THEN "reload" ELSE "idle"
  /\ UNCHANGED <<cbuf, clen, ret, cons, ncons, given, producer>>

PopLook ==
  /\ cpc = "look"
  /\ cpc' = IF srvinbox_empty_at(prod, cons) THEN "reload" ELSE "size"
  /\ UNCHANGED <<cbuf, clen, ret, cons, ncons, given, producer>>

PopReload ==
  /\ cpc = "reload"
  /\ IF srvinbox_empty_at(prod, cons)
     THEN cpc' = "idle" /\ PopEmpty
     ELSE cpc' = "size" /\ UNCHANGED ret
  /\ UNCHANGED <<cbuf, clen, cons, ncons, given, producer>>

\* A message that does not fit out_buf is left where it is and 0 is returned.
PopSize ==
  /\ cpc = "size"
  /\ clen' = len[SlotOf(cons)]
  /\ IF len[SlotOf(cons)] > OutCap
     THEN cpc' = "idle" /\ PopEmpty
     ELSE cpc' = "copy" /\ UNCHANGED ret
  /\ UNCHANGED <<cbuf, cons, ncons, given, producer>>

PopCopy ==
  /\ cpc = "copy" /\ cpc' = "release"
  /\ cbuf' = buf[SlotOf(cons)]
  /\ UNCHANGED <<clen, ret, cons, ncons, given, producer>>

PopRelease ==
  /\ cpc = "release" /\ cpc' = "return"
  /\ cons' = Succ(cons)
  /\ ncons' = ncons + 1 /\ given' = Append(given, cbuf)
  /\ UNCHANGED <<cbuf, clen, ret, producer>>

\* "return slot->len" is a plain read that follows the release of the slot.
\* The compiler may have performed it before the release (the value the size
\* check saw) or perform it here, when the producer may own the slot again.
PopReturn ==
  /\ cpc = "return" /\ cpc' = "idle"
  /\ \E n \in {clen, len[SlotOf(IF cons = 0 THEN Wrap - 1 ELSE cons - 1)]} :
       ret' = [bytes |-> cbuf, n |-> n]
  /\ UNCHANGED <<cbuf, clen, cons, ncons, given, producer>>

-----------------------------------------------------------------------------
Push == \/ \E m \in Msgs : PushStart(m)
        \/ PushLook \/ PushReload \/ PushWrite \/ PushLen \/ PushPublish
Pop  == \/ PopStart \/ PopLook \/ PopReload \/ PopSize \/ PopCopy
        \/ PopRelease \/ PopReturn
Next == Push \/ Pop

Spec == Init /\ [][Next]_vars

\* Every worker drains its inbox row once per loop iteration (srvrun_step), so
\* a consumer always starts another pop and always finishes the one it is in.
FairSpec == Spec /\ WF_vars(Pop)
-----------------------------------------------------------------------------
\* Properties.

\* The slots are plain memory: the producer never writes a slot that the
\* consumer is still examining or copying (push's writes against pop's reads).
SlotExclusive ==
  ~ /\ ppc \in {"write", "len", "publish"}
    /\ cpc \in {"size", "copy", "release"}
    /\ SlotOf(prod) = SlotOf(cons)

\* What pop copied out is, message for message, what push published: nothing
\* lost, repeated, reordered or overwritten, across any wrap of the counters;
\* and the length its size check read is the length of that message.  The
\* length pop RETURNS is not covered: it is read again after the release (see
\* PopReturn) and may be that of the message which took the slot since,
\* against srvinbox.h:79, "number of bytes popped (== the message's length)".
FifoExact == /\ ncons <= nprod
             /\ given = SubSeq(sent, 1, ncons)
             /\ cpc = "return" => clen = SizeOf[given[ncons]]

\* The ring implements the bounded lossy FIFO: every message that fits a slot
\* and enters push is published, in order and once, or refused at a moment when
\* the ring really held Depth messages (srvinbox_prod_full's second look).  A
\* message larger than a slot is turned away at the door and never offered.
Fifo == INSTANCE LossyFifo WITH chan  <- SubSeq(sent, ncons + 1, nprod),
                                offer <- IF ppc = "idle" THEN None ELSE pmsg
ImplementsFifo == Fifo!Spec

\* A published message is popped: a drain per loop iteration empties the ring,
\* or pops go on for ever, one message each and in order, so that every message
\* has its turn.
EveryMessagePopped == []<>(ncons = nprod) \/ []<><<ncons' = ncons + 1>>_ncons
=============================================================================
