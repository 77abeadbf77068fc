------------------------------ MODULE LossyFifo ------------------------------
(***************************************************************************)
(* What one broadcast inbox ring promises its two workers: a bounded FIFO  *)
(* that takes every message it is offered unless it is full at that        *)
(* moment.  Refusing is a step of its own, so a ring that refuses with     *)
(* room left, or loses an offer without an answer, does not implement it.  *)
(* The ring of SrvInbox.tla does.                                          *)
(***************************************************************************)
EXTENDS Naturals, Sequences

CONSTANTS Msgs,      \* the messages a producer may offer
          None,      \* no message
          Depth      \* how many the channel holds (WIRED_SRVINBOX_DEPTH)

VARIABLES offer,     \* the message offered and not yet answered for
          chan,      \* messages accepted and not yet handed over, oldest first
          given      \* every message handed over, in order

TypeOK == /\ offer \in Msgs \cup {None}
          /\ chan \in Seq(Msgs)
          /\ Len(chan) <= Depth
          /\ given \in Seq(Msgs)

Init == offer = None /\ chan = <<>> /\ given = <<>>

Offer(m) == /\ offer = None
            /\ offer' = m
            /\ UNCHANGED <<chan, given>>

\* The message offered is queued, which takes room.
Accept == /\ offer # None /\ Len(chan) < Depth
          /\ chan' = Append(chan, offer)
          /\ offer' = None
          /\ UNCHANGED given

\* The message offered is dropped, which takes a full channel.
Refuse == /\ offer # None /\ Len(chan) = Depth
          /\ offer' = None
          /\ UNCHANGED <<chan, given>>

\* The oldest message is handed over, whole and once.
Deliver == /\ chan # <<>>
           /\ given' = Append(given, Head(chan))
           /\ chan' = Tail(chan)
           /\ UNCHANGED offer

Next == (\E m \in Msgs : Offer(m)) \/ Accept \/ Refuse \/ Deliver

Spec == Init /\ [][Next]_<<offer, chan, given>>
=============================================================================
