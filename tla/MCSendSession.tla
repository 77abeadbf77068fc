---------------------------- MODULE MCSendSession ----------------------------
(***************************************************************************)
(* Bytes out and in, checked side by side; a behaviour picks a part and    *)
(* stays with it, the other one rests in an initial state.                 *)
(*   tight, roomy  a response, sent from a ring of four bytes two bytes    *)
(*         (after a black hole one byte) to a packet, so that the ring     *)
(*         wraps and a lost slice has to be split: tight with up to five   *)
(*         bytes, a log and a requeue that fill up at two entries, roomy   *)
(*         with up to four bytes, eight entries, and packets that fail to  *)
(*         encode or to seal                                               *)
(*   recv  uploads of up to six bytes into windows of three (a request     *)
(*         body: two) bytes and a connection limit of five                *)
(***************************************************************************)
EXTENDS SendSession

CONSTANTS Parts, Uploads

VARIABLES part, case, v, cl

Roomy == INSTANCE SendSession WITH LogCap <- 8, MaxLen <- 4, MaxPn <- 4, SealFails <- TRUE

R == INSTANCE RecvCredit WITH Streams <- {1, 2}, Cases <- Uploads, Cap <- 3, BodyCap <- 2,
       InitData <- 5, RxCap <- 1

Upload(kind, size, may) == [kind |-> kind, size |-> size, may |-> may]

\* One stream with everything that may happen to it, and two at once, more than the
\* accounting has entries for.
AllKinds ==
  {Upload(<<"uni", "body">>, <<5, 0>>, {"connect", "hold", "cut"}),
   Upload(<<"bidi", "body">>, <<5, 0>>, {"connect", "hold", "cut"}),
   Upload(<<"raw", "raw">>, <<6, 0>>, {"hold", "cut"}),
   Upload(<<"body", "body">>, <<5, 0>>, {"cut"}),
   Upload(<<"body", "body">>, <<5, 2>>, {}),
   Upload(<<"uni", "bidi">>, <<3, 4>>, {"connect"}),
   Upload(<<"bidi", "body">>, <<4, 3>>, {"connect"}),
   Upload(<<"raw", "raw">>, <<4, 2>>, {}),
   Upload(<<"uni", "body">>, <<4, 0>>, {"connect", "lose"})}

\* Two request bodies and no session.
TwoBodies == {Upload(<<"body", "body">>, <<5, 2>>, {})}

SendNext == CASE part = "roomy" -> Roomy!Next [] part = "tight" -> Next [] OTHER -> FALSE

SizedInit ==
  /\ part \in Parts /\ R!Init /\ IF part = "roomy" THEN Roomy!Init ELSE Init
  /\ part = "recv" => qlen = 1 /\ ~ streaming
  /\ part # "recv" => case = CHOOSE u \in Uploads : TRUE

SizedSpec ==
  /\ SizedInit
  /\ [][\/ SendNext /\ UNCHANGED <<part, case, v, cl>>
        \/ part = "recv" /\ R!Next /\ UNCHANGED <<part, vars>>
      ]_<<part, vars, case, v, cl>>

\* Every variable has its type.
TypesOK == R!TypeOK /\ IF part = "roomy" THEN Roomy!TypeOK ELSE TypeOK

\* RecvCredit: what was acknowledged is kept and delivered in its place.
AckedIsKept == R!AckedIsKept
\* RecvCredit: a client within its limits is not closed.
NoFalseClose == R!NoFalseClose
\* RecvCredit: when all is delivered and granted, each stream that is not finished has
\* room for a byte more, and so has the connection while something moves (as
\* srvrun_grant_conn_credit's comment has it, "raising every open stream's own window
\* never outruns the shared connection ceiling"); as long as no stream was given up
\* before its end and no grant is lost.  When nothing moves (srvrun_conn_credit_moving),
\* as between two bodies on a connection without a session, the connection may have no
\* room and get none: MaxDataFollows, which the code does not keep.
RoomLeftUncut ==
  v.cut \cup cl.gone = {} /\ v.up # "closed" /\ "lose" \notin case.may =>
    R!StreamRoom /\ (R!srvrun_conn_credit_moving(v) => R!ConnRoom)

\* RecvCredit: MAX_DATA follows what is consumed, so that a client with more to send
\* and nothing under way has room on the connection (docs/features/rfc9000.md:119).
MaxDataFollows == R!ConnRoom
=============================================================================
