------------------------------ MODULE MCServer ------------------------------
(***************************************************************************)
(* The parts of one connection that share no state, checked side by side:  *)
(* a behaviour picks a part and stays with it.                             *)
(*   flow  two response slots for two streams, so that a slot is used      *)
(*         again and two responses share the connection's credit;          *)
(*         responses of up to three bytes in packets of two, against       *)
(*         limits that hold less than two packets at first                 *)
(*   req   three request streams on a table of two, so that a slot is used *)
(*         again: requests, broken ones and one or two CONNECTs, with room *)
(*         for one session, bodies buffered and streamed                   *)
(*   wt    two sessions on two slots, one of them used again, a bidi, a    *)
(*         uni and a stream of our own; the generation is about to wrap    *)
(***************************************************************************)
EXTENDS FlowCredit, ReqStreams, WtSessions, TLC

CONSTANTS s1, s2, r1, r2, x, y, UniSlots, Parts

VARIABLE part

AllVars == <<part, vars, reqVars, wtVars>>

MCStreams == {s1, s2}
MCSlots == {r1, r2}
Sym == Permutations(MCStreams) \cup Permutations(MCSlots)

-----------------------------------------------------------------------------
MCRequests == 0 .. 2
Case(first, second, third, takes) ==
  [kind |-> [s \in MCRequests |-> <<first, second, third>>[s + 1]], streamed |-> takes]
MixedCases == {Case("connect", "get", "bad", FALSE), Case("connect", "bad", "connect", TRUE),
               Case("wtbad", "get", "long", TRUE)}
CreditCases == {Case("connect", "wtbad", "get", FALSE)}

\* A frame of one of the first two streams, a whole request, or two ends at once.
MCDatagrams ==
  {<<>>, <<<<0, "reset">>, <<1, "reset">>>>} \cup {<<f>> : f \in (0 .. 1) \X {"head", "tail", "reset", "stop"}}
         \cup {<<<<s, "head">>, <<s, "tail">>>> : s \in MCRequests}
         \cup (IF StaleSlots THEN {<<<<s, "tail">>, <<s, "stop">>>> : s \in {1}} ELSE {})

-----------------------------------------------------------------------------
MCWtStreams == 0 .. 2
MCHomes == {[s \in MCWtStreams |-> IF s = 2 THEN y ELSE x]}
MCKindOf == [s \in MCWtStreams |-> <<"bidi", "local", "uni">>[s + 1]]
MCRxSlots == 1 .. 1 + UniSlots
MCTableOf == [i \in MCRxSlots |-> IF i = 1 THEN "bidi" ELSE "uni"]

-----------------------------------------------------------------------------
\* Only the part that runs chooses its inputs; the others stay at their start.
AtRest == CHOOSE q \in Cases : TRUE
ServerInit ==
  /\ part \in Parts
  /\ Init /\ ReqInit /\ WtInit
  /\ part # "req" => kind = AtRest.kind /\ c = NewConn(AtRest.streamed)

ServerNext ==
  /\ UNCHANGED part
  /\ \/ part = "flow" /\ Next /\ UNCHANGED <<reqVars, wtVars>>
     \/ part = "req" /\ ReqNext /\ UNCHANGED <<vars, wtVars>>
     \/ part = "wt" /\ WtNext /\ UNCHANGED <<vars, reqVars>>

ServerSpec == ServerInit /\ [][ServerNext]_AllVars
-----------------------------------------------------------------------------
\* Every variable of the three parts has its type.
TypesOK == TypeOK /\ ReqTypeOK /\ WtTypeOK
=============================================================================
