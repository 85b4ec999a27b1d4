---------------------------- MODULE OrderedLinks ----------------------------
(***************************************************************************)
(* What the sequence filter of MULTI BOX promises to the boxes that use it *)
(* ("dup/replay guard" in multi_box_protocol.h): of the packets a box      *)
(* sends, numbered 1, 2, 3, ..., a receiver acts on a strictly increasing  *)
(* selection.  Packets may be skipped, none is acted on twice or after a   *)
(* later one, and only entering the mode makes a receiver forget.          *)
(***************************************************************************)
EXTENDS Integers

CONSTANT Boxes

VARIABLES
  sent,            \* packets each box has sent
  got              \* got[b][c]: number of the last packet of c that b acted on

linkVars == <<sent, got>>

Init == sent = [b \in Boxes |-> 0] /\ got = [b \in Boxes |-> [c \in Boxes |-> 0]]

\* A box sends, possibly because of a packet it acts on.
Sends(b) == sent'[b] > sent[b] /\ sent' = [sent EXCEPT ![b] = sent'[b]]

Send(b) == Sends(b) /\ UNCHANGED got

Act(b, c) ==
  /\ got'[b][c] > got[b][c] /\ got'[b][c] <= sent[c]
  /\ got' = [got EXCEPT ![b][c] = got'[b][c]]
  /\ UNCHANGED sent \/ Sends(b)

Forget(b) == got' = [got EXCEPT ![b] = [c \in Boxes |-> 0]] /\ UNCHANGED sent

Next == \E b, c \in Boxes : Send(b) \/ Act(b, c) \/ Forget(b)

Spec == Init /\ [][Next]_linkVars
=============================================================================
