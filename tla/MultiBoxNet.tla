----------------------------- MODULE MultiBoxNet -----------------------------
(***************************************************************************)
(* A MAIN box and its sensing boxes, all paired, talking over ESP-NOW: the *)
(* requests of the START box, MAIN's announcements, DISARM of a box that   *)
(* leaves, and the 16-bit sequence numbers that keep a lost, duplicated or *)
(* reordered packet from being acted on twice.                             *)
(*                                                                         *)
(* The radio and the receive queue of a box are one set of packets: any of *)
(* them may be received next, again, or never; a packet that finds the     *)
(* queue full is lost, and so is one that waited for MB_QUEUE_STALE_MS.    *)
(* MainCoordinator and SensorNode have what the boxes do between packets:  *)
(* exposures end, the START box sees a runner and locks run out at any time*)
(* here.                                                                   *)
(***************************************************************************)
EXTENDS Integers, FiniteSets, Sequences

CONSTANTS
  Sensing,         \* the other boxes: "START" and FLASH boxes
  SeqMod,          \* sequence numbers (2^16 in the code)
  FirstSeqs,       \* numbers the boxes' counters have reached when the history begins
  StaleSends,      \* a box sends fewer packets than this within 3 s, MAIN two at once
  QueueMax,        \* slots of the receive queue (16 in the code)
  MaxSent,         \* bound: packets each box sends
  MaxRestarts      \* bound: power cycles

ASSUME NetAssumption ==
  /\ "START" \in Sensing /\ "MAIN" \notin Sensing
  /\ SeqMod \in Nat /\ SeqMod % 2 = 0
  /\ FirstSeqs \subseteq 0..(SeqMod - 1)
  /\ StaleSends \in Nat /\ 1 < StaleSends /\ 2 * StaleSends <= SeqMod
  /\ QueueMax \in Nat /\ MaxRestarts \in Nat
  /\ MaxSent \in [Sensing \cup {"MAIN"} -> Nat]

Boxes == Sensing \cup {"MAIN"}

VARIABLES
  on,              \* the box runs MULTI BOX mode
  seqno,           \* s_localSeq of each box
  last,            \* last[b][c]: lastSeq of c's entry at b, 0 for ~haveSeq
  inbox,           \* packets each box may still receive
  session,         \* MultiBoxState::Session of each box
  active,          \* sessionActive of each sensing box
  sent,            \* history: packets each box has sent
  got,             \* history: number of the last packet of c that b accepted
  born,            \* history: packets each box had sent when it last started up
  restarts         \* power cycles so far

linkVars == <<seqno, last, inbox, sent, got>>
vars == <<on, linkVars, session, active, born, restarts>>

Commands == {"START", "START_ACK", "SHOT_DONE", "READY", "DISARM"}
IsPacket(p) ==
  /\ p.from \in Boxes /\ p.cmd \in Commands
  /\ p.seq \in 1..(SeqMod - 1)
  /\ p.nr \in 1..sent[p.from]

TypeOK ==
  /\ on \in [Boxes -> BOOLEAN]
  /\ seqno \in [Boxes -> 0..(SeqMod - 1)]
  /\ last \in [Boxes -> [Boxes -> 0..(SeqMod - 1)]]
  /\ \A b \in Boxes :
       Cardinality(inbox[b]) <= QueueMax /\ \A p \in inbox[b] : IsPacket(p)
  /\ session["MAIN"] \in {"IDLE", "READY", "EXPOSING", "REARM"}
  /\ \A b \in Sensing : session[b] \in {"IDLE", "READY", "LOCKED"}
  /\ active \in [Sensing -> BOOLEAN]
  /\ \A b \in Boxes : sent[b] \in 0..MaxSent[b] /\ born[b] \in 0..sent[b]
  /\ \A b, c \in Boxes : got[b][c] \in 0..sent[c]
  /\ restarts \in 0..MaxRestarts

NoneHeard == [c \in Boxes |-> 0]

\* The boxes are in their menus, having been up for any while.
Init ==
  /\ on = [b \in Boxes |-> FALSE]
  /\ seqno \in [Boxes -> FirstSeqs]
  /\ last = [b \in Boxes |-> NoneHeard]
  /\ inbox = [b \in Boxes |-> {}]
  /\ session = [b \in Boxes |-> "IDLE"]
  /\ active = [b \in Sensing |-> FALSE]
  /\ sent = [b \in Boxes |-> 0]
  /\ got = [b \in Boxes |-> NoneHeard]
  /\ born = [b \in Boxes |-> 0]
  /\ restarts = 0

-----------------------------------------------------------------------------
(* Sequence numbers.                                                       *)

\* nextSequence(): 0 is "no sequence yet".
NextSeq(s) == IF s = SeqMod - 1 THEN 1 ELSE s + 1

\* seq - lastSeq as an unsigned 16-bit number.
Diff(a, b) == IF a >= b THEN a - b ELSE a - b + SeqMod

\* Mutation of Newer: the same number is let in again.
NewerOrSame(a, b) == 2 * Diff(a, b) < SeqMod

\* ... which is positive as a signed one.
Newer(a, b) == Diff(a, b) > 0 /\ 2 * Diff(a, b) < SeqMod

\* Mutation of Accepts: a gap is not accepted.
AcceptsNext(b, p) == last[b][p.from] = 0 \/ p.seq = NextSeq(last[b][p.from])

\* acceptSequence(), the question and the answer's effect.
Accepts(b, p) == last[b][p.from] = 0 \/ Newer(p.seq, last[b][p.from])

\* Mutation of Note: only the first number is kept.
NoteFirst(b, p) ==
  /\ last' = IF last[b][p.from] = 0 THEN [last EXCEPT ![b][p.from] = p.seq] ELSE last
  /\ got' = [got EXCEPT ![b][p.from] = p.nr]

Note(b, p) ==
  /\ last' = [last EXCEPT ![b][p.from] = p.seq]
  /\ got' = [got EXCEPT ![b][p.from] = p.nr]

-----------------------------------------------------------------------------
(* The radio.                                                              *)

\* A packet of `b' that its next `k' ones do not make too old: once a sender
\* has sent StaleSends more, 3 s have passed.
Fresh(p, b, k) == p.from = b => p.nr + StaleSends > sent[b] + k

\* The i-th packet `b' is about to send.
Packet(b, cmd, i) ==
  [from |-> b, cmd |-> cmd, nr |-> sent[b] + i,
   seq |-> IF i = 1 THEN NextSeq(seqno[b]) ELSE NextSeq(NextSeq(seqno[b]))]

Addressed(p, c) ==
  /\ c # p.from
  /\ p.cmd = "START_ACK" => c = "START"
  /\ p.cmd = "START" /\ p.from # "MAIN" => c = "MAIN"

\* sendTo(), broadcastTo(): the commands in turn, each of which reaches any of
\* its addressees that run the mode and have room; `rest' is what the queues
\* held before.
Send(b, cmds, rest) ==
  LET k    == Len(cmds)
      news == {Packet(b, cmds[i], i) : i \in 1..k}
      kept == [c \in Boxes |-> {p \in rest[c] : Fresh(p, b, k)}]
  IN /\ sent[b] + k <= MaxSent[b]
     /\ sent' = [sent EXCEPT ![b] = @ + k]
     /\ seqno' = [seqno EXCEPT ![b] = Packet(b, "", k).seq]
     /\ \E came \in [Boxes -> SUBSET news] :
          /\ \A c \in Boxes :
               /\ \A p \in came[c] : on[c] /\ Addressed(p, c)
               /\ Cardinality(kept[c] \cup came[c]) <= QueueMax
          /\ inbox' = [c \in Boxes |-> kept[c] \cup came[c]]

\* A packet taken from the queue; the radio may have delivered it twice.
Rests(b, p) == {inbox, [inbox EXCEPT ![b] = @ \ {p}]}

\* PONG, HELLO_ACK and FLASH_FIRE take a number and are not filtered.
Chatter(b) ==
  /\ on[b] /\ sent[b] < MaxSent[b]
  /\ sent' = [sent EXCEPT ![b] = @ + 1]
  /\ seqno' = [seqno EXCEPT ![b] = NextSeq(@)]
  /\ inbox' = [c \in Boxes |-> {p \in inbox[c] : Fresh(p, b, 1)}]
  /\ UNCHANGED <<on, last, got, session, active, born, restarts>>

-----------------------------------------------------------------------------
(* MAIN.                                                                   *)

\* centerOnStart(): a request opens a session, or is used up without one.
CenterOnStart(p) ==
  /\ on["MAIN"] /\ p \in inbox["MAIN"] /\ p.cmd = "START"
  /\ \E rest \in Rests("MAIN", p) :
       \/ /\ Accepts("MAIN", p) /\ session["MAIN"] = "READY"
          /\ session' = [session EXCEPT !["MAIN"] = "EXPOSING"]
          /\ Note("MAIN", p)
          /\ Send("MAIN", <<"START_ACK", "START">>, rest)
       \/ /\ Accepts("MAIN", p) /\ session["MAIN"] # "READY"
          /\ Note("MAIN", p)
          /\ inbox' = rest
          /\ UNCHANGED <<session, seqno, sent>>
       \/ /\ ~Accepts("MAIN", p)
          /\ inbox' = rest
          /\ UNCHANGED <<session, seqno, sent, last, got>>
  /\ UNCHANGED <<on, active, born, restarts>>

\* DISARM at MAIN is not filtered: the exposure ends, and nobody is told.
CenterOnDisarm(p) ==
  /\ on["MAIN"] /\ p \in inbox["MAIN"] /\ p.cmd = "DISARM"
  /\ inbox' \in Rests("MAIN", p)
  /\ session' = [session EXCEPT !["MAIN"] = "READY"]
  /\ UNCHANGED <<on, seqno, last, sent, got, active, born, restarts>>

\* centerCloseBulbIfDue(): the exposure ends, and later the rest.
CloseBulb ==
  /\ on["MAIN"] /\ session["MAIN"] = "EXPOSING"
  /\ session' = [session EXCEPT !["MAIN"] = "REARM"]
  /\ Send("MAIN", <<"SHOT_DONE">>, inbox)
  /\ UNCHANGED <<on, last, got, active, born, restarts>>

Rearmed ==
  /\ on["MAIN"] /\ session["MAIN"] = "REARM"
  /\ session' = [session EXCEPT !["MAIN"] = "READY"]
  /\ Send("MAIN", <<"READY">>, inbox)
  /\ UNCHANGED <<on, last, got, active, born, restarts>>

-----------------------------------------------------------------------------
(* The sensing boxes.                                                      *)

\* A hit: the START box asks for a session and locks itself.
Ask ==
  /\ on["START"] /\ session["START"] # "LOCKED" /\ ~active["START"]
  /\ session' = [session EXCEPT !["START"] = "LOCKED"]
  /\ Send("START", <<"START">>, inbox)
  /\ UNCHANGED <<on, last, got, active, born, restarts>>

\* nodeOnCenterBroadcast().
Announced(b, p) ==
  \/ /\ p.cmd = "START"
     /\ active' = [active EXCEPT ![b] = TRUE]
     /\ session' = IF b = "START" THEN [session EXCEPT ![b] = "LOCKED"] ELSE session
  \/ /\ p.cmd \in {"SHOT_DONE", "DISARM"}
     /\ active' = [active EXCEPT ![b] = FALSE]
     /\ session' = [session EXCEPT ![b] = "READY"]
  \/ /\ p.cmd \in {"START_ACK", "READY"}
     /\ UNCHANGED <<active, session>>

NodeOnCenterBroadcast(b, p) ==
  /\ b \in Sensing /\ on[b] /\ p \in inbox[b] /\ p.from = "MAIN"
  /\ inbox' \in Rests(b, p)
  /\ \/ Accepts(b, p) /\ Note(b, p) /\ Announced(b, p)
     \/ ~Accepts(b, p) /\ UNCHANGED <<last, got, active, session>>
  /\ UNCHANGED <<on, seqno, sent, born, restarts>>

\* The fallback of a locked box, or of a FLASH box once a hit locks it: MAIN is
\* silent, or the cap reached.
Unlock(b) ==
  /\ on[b]
  /\ session[b] = "LOCKED" \/ (b # "START" /\ active[b])
  /\ session' = [session EXCEPT ![b] = "READY"]
  /\ active' = [active EXCEPT ![b] = FALSE]
  /\ UNCHANGED <<on, linkVars, born, restarts>>

-----------------------------------------------------------------------------
(* The way in and out of the mode.                                         *)

\* init() and begin(): what was learned of the peers is gone, the counter and
\* the queue are not.  A MAIN whose role row is not loaded yet stays IDLE.
Enter(b) ==
  /\ ~on[b]
  /\ on' = [on EXCEPT ![b] = TRUE]
  /\ \E s \in IF b = "MAIN" THEN {"IDLE", "READY"} ELSE {"READY"} :
       session' = [session EXCEPT ![b] = s]
  /\ active' = [c \in Sensing |-> c # b /\ active[c]]
  /\ last' = [last EXCEPT ![b] = NoneHeard]
  /\ got' = [got EXCEPT ![b] = NoneHeard]
  /\ UNCHANGED <<seqno, inbox, sent, born, restarts>>

\* requestExit(): the exposure is closed, the others are told.
RequestExit(b) ==
  /\ on[b]
  /\ on' = [on EXCEPT ![b] = FALSE]
  /\ session' = [session EXCEPT ![b] = "IDLE"]
  /\ active' = [c \in Sensing |-> c # b /\ active[c]]
  /\ Send(b, <<"DISARM">>, inbox)
  /\ UNCHANGED <<last, got, born, restarts>>

\* A box that was switched off is back: its counter starts again at 0.  By then
\* 3 s have passed, and its earlier packets are stale.
PowerCycle(b) ==
  /\ restarts < MaxRestarts
  /\ restarts' = restarts + 1
  /\ on' = [on EXCEPT ![b] = FALSE]
  /\ seqno' = [seqno EXCEPT ![b] = 0]
  /\ inbox' = [c \in Boxes |-> IF c = b THEN {} ELSE {p \in inbox[c] : p.from # b}]
  /\ born' = [born EXCEPT ![b] = sent[b]]
  /\ session' = [session EXCEPT ![b] = "IDLE"]
  /\ active' = [c \in Sensing |-> c # b /\ active[c]]
  /\ UNCHANGED <<last, sent, got>>

Next ==
  \/ Ask \/ CloseBulb \/ Rearmed
  \/ \E p \in inbox["MAIN"] : CenterOnStart(p) \/ CenterOnDisarm(p)
  \/ \E b \in Sensing : Unlock(b) \/ \E p \in inbox[b] : NodeOnCenterBroadcast(b, p)
  \/ \E b \in Boxes : Chatter(b) \/ Enter(b) \/ RequestExit(b) \/ PowerCycle(b)

Spec == Init /\ [][Next]_vars

-----------------------------------------------------------------------------
(* Properties.                                                             *)

\* "dup/replay guard": whatever the radio repeats or reorders and whoever
\* restarts, a packet that would be let in is newer than every packet of its
\* sender let in since this box entered the mode.
AcceptedIsNew ==
  \A b \in Boxes : \A p \in inbox[b] : on[b] /\ Accepts(b, p) => p.nr > got[b][p.from]

\* ... and one that would be refused is not, unless its sender started up
\* since, or sent half the range of numbers since: a box that answers PINGs for
\* nine hours without a session does.
RefusedIsOld ==
  \A b \in Boxes : \A p \in inbox[b] :
    on[b] /\ ~Accepts(b, p) /\ p.nr > got[b][p.from] =>
      \/ got[b][p.from] <= born[p.from]
      \/ 2 * (p.nr - got[b][p.from] + 1) >= SeqMod

\* The test of a sequence number lets in what is new, and hardly less.
NumbersTellTheOrder == AcceptedIsNew /\ RefusedIsOld

\* Every link of the network is an ordered one.
Links == INSTANCE OrderedLinks
LinksAreOrdered == Links!Spec

=============================================================================
