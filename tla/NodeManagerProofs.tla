-------------------------- MODULE NodeManagerProofs --------------------------
(***************************************************************************)
(* Proofs about NodeManager: MultiBoxNet, for any number of boxes and      *)
(* packets, queues of any length and sequence numbers of any width that    *)
(* meet NetAssumption (with SeqMod = 2^16, the numbers the firmware has),  *)
(* and PeerTable, for every set of boxes and ids, every size of the table  *)
(* and every pair of times.  The two specifications share no variable;     *)
(* each theorem is about one of them.                                      *)
(*                                                                         *)
(* The table's invariant adds to its properties what makes them last:      *)
(* flash holds unique ids too, a linked peer was heard, or the clash that  *)
(* credits it noted, no longer ago than its link is old, and an address two*)
(* entries share now is among the twins.                                   *)
(***************************************************************************)
EXTENDS MultiBoxNet, PeerTable, TLAPS

-----------------------------------------------------------------------------
(* The radio.                                                              *)

Packets == [from : Boxes, cmd : Commands, seq : 1..(SeqMod - 1), nr : Nat]

\* The sets the radio's variables are drawn from.
LinksTyped ==
  /\ on \in [Boxes -> BOOLEAN]
  /\ seqno \in [Boxes -> 0..(SeqMod - 1)]
  /\ last \in [Boxes -> [Boxes -> 0..(SeqMod - 1)]]
  /\ inbox \in [Boxes -> SUBSET Packets]
  /\ sent \in [Boxes -> Nat]
  /\ got \in [Boxes -> [Boxes -> Nat]]
  /\ born \in [Boxes -> Nat]

\* The number k packets before s; there is no number 0.
Back(s, k) == IF s > k THEN s - k ELSE s - k + SeqMod - 1

\* seq is what c's packet nr was numbered, unless c was switched off since or
\* its numbers went all the way round since.
Numbered(c, seq, nr) ==
  nr > born[c] /\ sent[c] - nr < SeqMod - 1 => seq = Back(seqno[c], sent[c] - nr)

\* A box that sent a packet since it started up has left 0 behind.
SeqInv ==
  \A b \in Boxes : born[b] <= sent[b] /\ (born[b] < sent[b] => seqno[b] > 0)

\* A packet on its way was sent since its sender started up, lately, and
\* carries its number.
Recent(p) ==
  /\ p.nr <= sent[p.from] /\ p.nr > born[p.from]
  /\ p.nr + StaleSends > sent[p.from]
  /\ Numbered(p.from, p.seq, p.nr)

PacketInv == \A b \in Boxes : \A p \in inbox[b] : Recent(p)

\* What a box remembers of another is the number of the last packet accepted.
LastInv ==
  \A b, c \in Boxes :
    /\ got[b][c] <= sent[c]
    /\ last[b][c] = 0 <=> got[b][c] = 0
    /\ last[b][c] # 0 => Numbered(c, last[b][c], got[b][c])

\* The inductive invariant.
IInv == LinksTyped /\ SeqInv /\ PacketInv /\ LastInv

-----------------------------------------------------------------------------
(* Arithmetic of the numbers.                                              *)

(* The constants are numbers; at least two packets are fresh, fewer than half
   the numbers are. *)
LEMMA Constants ==
  /\ SeqMod \in Nat /\ StaleSends \in Nat /\ SeqMod >= 4
  /\ StaleSends >= 2 /\ 2 * StaleSends <= SeqMod
  /\ FirstSeqs \subseteq 0..(SeqMod - 1)
BY NetAssumption DEF NetAssumption

(* The next number is one. *)
LEMMA NextRange ==
  ASSUME NEW s \in 0..(SeqMod - 1)
  PROVE  NextSeq(s) \in 1..(SeqMod - 1)
BY Constants DEF NextSeq

(* One packet more, and every number lies one further back. *)
LEMMA BackNext ==
  ASSUME NEW s \in 1..(SeqMod - 1), NEW n \in Nat, n + 1 < SeqMod - 1
  PROVE  Back(NextSeq(s), n + 1) = Back(s, n)
BY Constants DEF Back, NextSeq

(* The number just taken is the last. *)
LEMMA BackZero ==
  ASSUME NEW s \in 1..(SeqMod - 1)
  PROVE  Back(s, 0) = s
BY DEF Back

(* Of two recent packets the earlier is never taken for the newer one. *)
LEMMA OlderIsNotNewer ==
  ASSUME NEW s \in 1..(SeqMod - 1), NEW k \in Nat, NEW m \in Nat,
         m <= k, k < StaleSends
  PROVE  ~Newer(Back(s, k), Back(s, m))
BY Constants DEF Newer, Diff, Back

(* A packet less than half the range ahead is taken for the newer one. *)
LEMMA LaterIsNewer ==
  ASSUME NEW s \in 1..(SeqMod - 1), NEW k \in Nat, NEW m \in Nat,
         k < m, m < SeqMod - 1, 2 * (m - k + 1) < SeqMod
  PROVE  Newer(Back(s, k), Back(s, m))
BY Constants DEF Newer, Diff, Back

-----------------------------------------------------------------------------
(* A box sends.                                                            *)

(* Sending one packet more keeps the numbers of all before it. *)
LEMMA OneMore ==
  ASSUME LinksTyped, SeqInv, NEW b \in Boxes,
         NEW k \in 1..2,
         sent' = [sent EXCEPT ![b] = @ + k],
         seqno' = [seqno EXCEPT ![b] = IF k = 1 THEN NextSeq(seqno[b])
                                               ELSE NextSeq(NextSeq(seqno[b]))],
         born' = born
  PROVE  /\ sent' \in [Boxes -> Nat] /\ seqno' \in [Boxes -> 0..(SeqMod - 1)]
         /\ SeqInv'
         /\ \A c \in Boxes : sent'[c] >= sent[c]
         /\ \A c \in Boxes : \A seq : \A nr \in Nat :
              nr <= sent[c] /\ Numbered(c, seq, nr) =>
                (nr > born'[c] /\ sent'[c] - nr < SeqMod - 1
                   => seq = Back(seqno'[c], sent'[c] - nr))
<1> DEFINE s0 == seqno[b]
           s1 == NextSeq(s0)
           s2 == NextSeq(s1)
<1>1. s0 \in 0..(SeqMod - 1) /\ sent[b] \in Nat /\ born[b] \in Nat
  BY DEF LinksTyped
<1>2. s1 \in 1..(SeqMod - 1)
  BY <1>1, NextRange
<1>3. s2 \in 1..(SeqMod - 1)
  <2>1. s1 \in 0..(SeqMod - 1)
    BY <1>2
  <2>2. QED
    BY <2>1, NextRange
<1> HIDE DEF s1, s2
<1>4. seqno'[b] = (IF k = 1 THEN s1 ELSE s2) /\ sent'[b] = sent[b] + k
  BY DEF LinksTyped, s1, s2
<1>5. \A c \in Boxes \ {b} : seqno'[c] = seqno[c] /\ sent'[c] = sent[c]
  BY DEF LinksTyped
<1>6. sent' \in [Boxes -> Nat] /\ seqno' \in [Boxes -> 0..(SeqMod - 1)]
  <2>1. sent[b] + k \in Nat
    BY <1>1
  <2>2. (IF k = 1 THEN s1 ELSE s2) \in 0..(SeqMod - 1)
    BY <1>2, <1>3
  <2>3. QED
    BY <2>1, <2>2 DEF LinksTyped, s1, s2
<1>7. \A c \in Boxes : sent'[c] >= sent[c]
  BY <1>1, <1>4, <1>5 DEF LinksTyped
<1>8. SeqInv'
  <2>1. ASSUME NEW c \in Boxes
        PROVE  born[c] <= sent'[c] /\ (born[c] < sent'[c] => seqno'[c] > 0)
    <3>1. CASE c = b
      BY <1>1, <1>2, <1>3, <1>4, <3>1 DEF SeqInv
    <3>2. CASE c # b
      BY <1>5, <3>2 DEF SeqInv
    <3>3. QED
      BY <3>1, <3>2
  <2>2. QED
    BY <2>1 DEF SeqInv
<1>9. ASSUME NEW c \in Boxes, NEW seq, NEW nr \in Nat, nr <= sent[c], Numbered(c, seq, nr),
             nr > born[c], sent'[c] - nr < SeqMod - 1
      PROVE  seq = Back(seqno'[c], sent'[c] - nr)
  <2>1. CASE c # b
    BY <1>5, <1>9, <2>1 DEF Numbered
  <2>2. CASE c = b
    <3>1. s0 \in 1..(SeqMod - 1)
      BY <1>1, <1>9, <2>2 DEF SeqInv
    <3> DEFINE n == sent[b] - nr
    <3>2. n \in Nat /\ sent'[b] - nr = n + k /\ n + k < SeqMod - 1
      BY <1>1, <1>4, <1>9, <2>2
    <3>3. seq = Back(s0, n)
      BY <1>9, <2>2, <3>2, Constants DEF Numbered
    <3> HIDE DEF n
    <3>4. Back(s1, n + 1) = Back(s0, n)
      BY <3>1, <3>2, BackNext, Constants DEF s1
    <3>5. k = 2 => Back(s2, (n + 1) + 1) = Back(s1, n + 1)
      <4>1. n + 1 \in Nat /\ (k = 2 => (n + 1) + 1 < SeqMod - 1)
        BY <3>2
      <4>2. QED
        BY <4>1, <1>2, BackNext DEF s2
    <3>6. CASE k = 1
      BY <1>4, <2>2, <3>2, <3>3, <3>4, <3>6
    <3>7. CASE k = 2
      <4>1. n + 2 = (n + 1) + 1
        BY <3>2
      <4>2. QED
        BY <1>4, <2>2, <3>2, <3>3, <3>4, <3>5, <3>7, <4>1
    <3>8. QED
      BY <3>6, <3>7
  <2>3. QED
    BY <2>1, <2>2
<1>10. QED
  BY <1>6, <1>7, <1>8, <1>9

(* A packet that is fresh enough to be kept by what is sent stays a recent one. *)
LEMMA KeptIsRecent ==
  ASSUME LinksTyped, SeqInv, NEW b \in Boxes, NEW k \in 1..2,
         sent' = [sent EXCEPT ![b] = @ + k],
         seqno' = [seqno EXCEPT ![b] = IF k = 1 THEN NextSeq(seqno[b])
                                               ELSE NextSeq(NextSeq(seqno[b]))],
         born' = born,
         NEW p \in Packets, Recent(p), Fresh(p, b, k)
  PROVE  Recent(p)'
<1>1. p.from \in Boxes /\ p.nr \in Nat
  BY DEF Packets
<1>2. sent[p.from] \in Nat /\ sent[b] \in Nat
  BY <1>1 DEF LinksTyped
<1>3. sent'[p.from] = IF p.from = b THEN sent[b] + k ELSE sent[p.from]
  BY <1>1 DEF LinksTyped
<1>4. p.nr <= sent[p.from] /\ Numbered(p.from, p.seq, p.nr)
  BY DEF Recent
<1>5. p.nr > born'[p.from] /\ sent'[p.from] - p.nr < SeqMod - 1
         => p.seq = Back(seqno'[p.from], sent'[p.from] - p.nr)
  BY <1>1, <1>4, OneMore
<1>6. p.nr <= sent'[p.from] /\ p.nr > born'[p.from] /\ p.nr + StaleSends > sent'[p.from]
  BY <1>1, <1>2, <1>3, Constants DEF Recent, Fresh
<1>7. QED
  BY <1>5, <1>6 DEF Recent, Numbered

(* What sendTo() and broadcastTo() put on the air is recent, and what they leave
   there still is. *)
LEMMA Sending ==
  ASSUME LinksTyped, SeqInv, PacketInv, NEW b \in Boxes,
         NEW cmds, Len(cmds) \in 1..2, \A i \in 1..Len(cmds) : cmds[i] \in Commands,
         NEW rest, \A c \in Boxes : rest[c] \subseteq inbox[c],
         Send(b, cmds, rest), born' = born
  PROVE  /\ sent' = [sent EXCEPT ![b] = @ + Len(cmds)]
         /\ seqno' = [seqno EXCEPT ![b] = IF Len(cmds) = 1 THEN NextSeq(seqno[b])
                                                ELSE NextSeq(NextSeq(seqno[b]))]
         /\ inbox' \in [Boxes -> SUBSET Packets]
         /\ PacketInv'
<1> DEFINE k    == Len(cmds)
           news == {Packet(b, cmds[i], i) : i \in 1..k}
           kept == [c \in Boxes |-> {p \in rest[c] : Fresh(p, b, k)}]
<1>1. sent' = [sent EXCEPT ![b] = @ + k]
  BY Zenon DEF Send
<1>2. seqno' = [seqno EXCEPT ![b] = IF k = 1 THEN NextSeq(seqno[b])
                                            ELSE NextSeq(NextSeq(seqno[b]))]
  <2>1. seqno' = [seqno EXCEPT ![b] = Packet(b, "", k).seq]
    BY Zenon DEF Send
  <2>2. QED
    BY <2>1 DEF Packet
<1>3. PICK came \in [Boxes -> SUBSET news] : inbox' = [c \in Boxes |-> kept[c] \cup came[c]]
  BY Zenon DEF Send
<1> HIDE DEF k
<1>4. k \in 1..2
  BY DEF k
<1>5. sent[b] \in Nat /\ seqno[b] \in 0..(SeqMod - 1) /\ born[b] \in Nat /\ born[b] <= sent[b]
  BY DEF LinksTyped, SeqInv
<1>6. sent'[b] = sent[b] + k /\ seqno'[b] = IF k = 1 THEN NextSeq(seqno[b])
                                                     ELSE NextSeq(NextSeq(seqno[b]))
  BY <1>1, <1>2 DEF LinksTyped
<1>7. ASSUME NEW p \in news
      PROVE  p \in Packets /\ Recent(p)'
  <2>1. PICK i \in 1..k : p = Packet(b, cmds[i], i)
    OBVIOUS
  <2>2. cmds[i] \in Commands
    BY DEF k
  <2> DEFINE s1 == NextSeq(seqno[b])
             s2 == NextSeq(s1)
  <2>3. s1 \in 1..(SeqMod - 1)
    BY <1>5, NextRange
  <2>4. s2 \in 1..(SeqMod - 1)
    <3>1. s1 \in 0..(SeqMod - 1)
      BY <2>3
    <3>2. QED
      BY <3>1, NextRange
  <2>5. /\ p = [from |-> b, cmd |-> cmds[i], nr |-> sent[b] + i, seq |-> IF i = 1 THEN s1 ELSE s2]
    BY <2>1 DEF Packet
  <2>6. seqno'[b] = IF k = 1 THEN s1 ELSE s2
    BY <1>6
  <2> HIDE DEF s1
  <2>7. s2 = NextSeq(s1)
    OBVIOUS
  <2> HIDE DEF s2
  <2>8. p \in Packets
    BY <1>4, <1>5, <2>2, <2>3, <2>4, <2>5 DEF Packets
  <2>9. /\ p.from = b /\ p.nr = sent[b] + i /\ p.seq = IF i = 1 THEN s1 ELSE s2
    BY <2>5
  <2>10. p.nr <= sent'[b] /\ p.nr > born'[b] /\ p.nr + StaleSends > sent'[b]
    BY <1>4, <1>5, <1>6, <2>9, Constants
  <2>11. sent'[b] - p.nr < SeqMod - 1 => p.seq = Back(seqno'[b], sent'[b] - p.nr)
    <3>1. CASE i = k
      <4>1. sent'[b] - p.nr = 0 /\ p.seq = seqno'[b]
        BY <1>4, <1>5, <1>6, <2>6, <2>9, <3>1
      <4>2. QED
        BY <2>3, <2>4, <2>6, <4>1, BackZero
    <3>2. CASE i # k
      <4>1. i = 1 /\ k = 2 /\ sent'[b] - p.nr = 0 + 1
        BY <1>4, <1>5, <1>6, <2>9, <3>2
      <4>2. 0 + 1 < SeqMod - 1 => Back(s2, 0 + 1) = Back(s1, 0)
        BY <2>3, <2>7, BackNext
      <4>3. QED
        BY <2>3, <2>6, <2>9, <4>1, <4>2, BackZero
    <3>3. QED
      BY <3>1, <3>2
  <2>12. QED
    BY <2>8, <2>9, <2>10, <2>11 DEF Recent, Numbered
<1>8. ASSUME NEW c \in Boxes, NEW p \in kept[c]
      PROVE  p \in Packets /\ Recent(p)'
  <2>1. p \in inbox[c] /\ Fresh(p, b, k)
    OBVIOUS
  <2>2. p \in Packets /\ Recent(p)
    BY <2>1 DEF LinksTyped, PacketInv
  <2>3. QED
    BY <1>1, <1>2, <1>4, <2>1, <2>2, KeptIsRecent
<1>9. \A c \in Boxes : \A p \in inbox'[c] : p \in Packets /\ Recent(p)'
  BY <1>3, <1>7, <1>8
<1>10. inbox' \in [Boxes -> SUBSET Packets]
  BY <1>3, <1>9
<1>11. QED
  BY <1>1, <1>2, <1>9, <1>10 DEF PacketInv, k

-----------------------------------------------------------------------------
(* What a box remembers.                                                   *)

\* The step numbers no packet anew.
NumbersKept ==
  \A c \in Boxes :
    /\ sent'[c] >= sent[c]
    /\ \A seq : \A nr \in Nat :
         nr <= sent[c] /\ Numbered(c, seq, nr) =>
           (nr > born'[c] /\ sent'[c] - nr < SeqMod - 1
              => seq = Back(seqno'[c], sent'[c] - nr))

\* Box b enters the mode.
Forgets(b) ==
  last' = [last EXCEPT ![b] = NoneHeard] /\ got' = [got EXCEPT ![b] = NoneHeard]

(* What is remembered stays right, whether a packet is accepted, the mode
   entered, or neither. *)
LEMMA LastStep ==
  ASSUME IInv, NumbersKept, sent' \in [Boxes -> Nat],
         \/ UNCHANGED <<last, got>>
         \/ \E b \in Boxes : \E p \in inbox[b] : Note(b, p)
         \/ \E b \in Boxes : Forgets(b)
  PROVE  /\ last' \in [Boxes -> [Boxes -> 0..(SeqMod - 1)]]
         /\ got' \in [Boxes -> [Boxes -> Nat]]
         /\ LastInv'
<1>1. LinksTyped /\ PacketInv /\ LastInv
  BY DEF IInv
<1>2. ASSUME NEW b \in Boxes, NEW c \in Boxes, last'[b][c] = last[b][c], got'[b][c] = got[b][c]
      PROVE  /\ last'[b][c] \in 0..(SeqMod - 1) /\ got'[b][c] \in Nat
             /\ got'[b][c] <= sent'[c]
             /\ last'[b][c] = 0 <=> got'[b][c] = 0
             /\ last'[b][c] # 0 => Numbered(c, last[b][c], got[b][c])'
  <2>1. last[b][c] \in 0..(SeqMod - 1) /\ got[b][c] \in Nat /\ sent[c] \in Nat /\ sent'[c] \in Nat
    BY <1>1 DEF LinksTyped
  <2>2. got[b][c] <= sent[c] /\ sent'[c] >= sent[c] /\ (last[b][c] = 0 <=> got[b][c] = 0)
    BY <1>1 DEF LastInv, NumbersKept
  <2>3. ASSUME last[b][c] # 0
        PROVE  Numbered(c, last[b][c], got[b][c])'
    <3>1. Numbered(c, last[b][c], got[b][c])
      BY <1>1, <2>3 DEF LastInv
    <3>2. got[b][c] > born'[c] /\ sent'[c] - got[b][c] < SeqMod - 1
             => last[b][c] = Back(seqno'[c], sent'[c] - got[b][c])
      BY <2>1, <2>2, <3>1 DEF NumbersKept
    <3>3. QED
      BY <1>2, <3>2 DEF Numbered
  <2>4. QED
    BY <1>2, <2>1, <2>2, <2>3
<1>3. CASE UNCHANGED <<last, got>>
  <2>1. \A b, c \in Boxes : last'[b][c] = last[b][c] /\ got'[b][c] = got[b][c]
    BY <1>3
  <2>2. last' \in [Boxes -> [Boxes -> 0..(SeqMod - 1)]] /\ got' \in [Boxes -> [Boxes -> Nat]]
    BY <1>1, <1>3 DEF LinksTyped
  <2>3. QED
    BY <1>2, <2>1, <2>2 DEF LastInv
<1>4. ASSUME NEW e \in Boxes, NEW p \in inbox[e], Note(e, p)
      PROVE  /\ last' \in [Boxes -> [Boxes -> 0..(SeqMod - 1)]]
             /\ got' \in [Boxes -> [Boxes -> Nat]]
             /\ LastInv'
  <2>1. p \in Packets /\ Recent(p)
    BY <1>1 DEF LinksTyped, PacketInv
  <2> DEFINE f == p.from
  <2>2. f \in Boxes /\ p.seq \in 1..(SeqMod - 1) /\ p.nr \in Nat
    BY <2>1 DEF Packets
  <2>3. last' = [last EXCEPT ![e][f] = p.seq] /\ got' = [got EXCEPT ![e][f] = p.nr]
    BY <1>4 DEF Note
  <2>4. born[f] \in Nat /\ sent[f] \in Nat /\ sent'[f] \in Nat
    BY <1>1, <2>2 DEF LinksTyped
  <2>5. p.nr <= sent[f] /\ p.nr > born[f] /\ Numbered(f, p.seq, p.nr)
    BY <2>1 DEF Recent
  <2> HIDE DEF f
  <2>6. last' \in [Boxes -> [Boxes -> 0..(SeqMod - 1)]] /\ got' \in [Boxes -> [Boxes -> Nat]]
    BY <1>1, <2>2, <2>3 DEF LinksTyped
  <2>7. last'[e][f] = p.seq /\ got'[e][f] = p.nr
    BY <1>1, <2>2, <2>3 DEF LinksTyped
  <2>8. p.nr <= sent'[f] /\ p.seq # 0 /\ p.nr # 0
    BY <2>2, <2>4, <2>5 DEF NumbersKept
  <2>9. p.nr > born'[f] /\ sent'[f] - p.nr < SeqMod - 1
          => p.seq = Back(seqno'[f], sent'[f] - p.nr)
    BY <2>2, <2>5 DEF NumbersKept
  <2>10. ASSUME NEW b \in Boxes, NEW c \in Boxes
         PROVE  /\ got'[b][c] <= sent'[c]
                /\ last'[b][c] = 0 <=> got'[b][c] = 0
                /\ last'[b][c] # 0 => Numbered(c, last[b][c], got[b][c])'
    <3>1. CASE b = e /\ c = f
      BY <2>7, <2>8, <2>9, <3>1 DEF Numbered
    <3>2. CASE ~(b = e /\ c = f)
      <4>1. last'[b][c] = last[b][c] /\ got'[b][c] = got[b][c]
        BY <1>1, <2>2, <2>3, <3>2 DEF LinksTyped
      <4>2. QED
        BY <1>2, <4>1
    <3>3. QED
      BY <3>1, <3>2
  <2>11. QED
    BY <2>6, <2>10 DEF LastInv
<1>5. ASSUME NEW e \in Boxes, Forgets(e)
      PROVE  /\ last' \in [Boxes -> [Boxes -> 0..(SeqMod - 1)]]
             /\ got' \in [Boxes -> [Boxes -> Nat]]
             /\ LastInv'
  <2>1. last' \in [Boxes -> [Boxes -> 0..(SeqMod - 1)]] /\ got' \in [Boxes -> [Boxes -> Nat]]
    <3>1. NoneHeard \in [Boxes -> 0..(SeqMod - 1)] /\ NoneHeard \in [Boxes -> Nat]
      BY Constants DEF NoneHeard
    <3>2. QED
      BY <1>1, <1>5, <3>1 DEF Forgets, LinksTyped
  <2>2. ASSUME NEW b \in Boxes, NEW c \in Boxes
        PROVE  /\ got'[b][c] <= sent'[c]
               /\ last'[b][c] = 0 <=> got'[b][c] = 0
               /\ last'[b][c] # 0 => Numbered(c, last[b][c], got[b][c])'
    <3>1. CASE b = e
      <4>1. last'[b][c] = 0 /\ got'[b][c] = 0
        BY <1>1, <1>5, <3>1 DEF Forgets, NoneHeard, LinksTyped
      <4>2. QED
        BY <4>1
    <3>2. CASE b # e
      <4>1. last'[b][c] = last[b][c] /\ got'[b][c] = got[b][c]
        BY <1>1, <1>5, <3>2 DEF Forgets, LinksTyped
      <4>2. QED
        BY <1>2, <4>1
    <3>3. QED
      BY <3>1, <3>2
  <2>3. QED
    BY <2>1, <2>2 DEF LastInv
<1>6. QED
  BY <1>3, <1>4, <1>5

-----------------------------------------------------------------------------
(* The invariant is inductive.                                             *)

(* Nothing was sent yet. *)
LEMMA InitInv ==
  ASSUME Init
  PROVE  IInv
<1>1. LinksTyped
  <2>1. seqno \in [Boxes -> 0..(SeqMod - 1)]
    BY Constants DEF Init
  <2>2. NoneHeard \in [Boxes -> 0..(SeqMod - 1)] /\ NoneHeard \in [Boxes -> Nat]
    BY Constants DEF NoneHeard
  <2>3. last \in [Boxes -> [Boxes -> 0..(SeqMod - 1)]] /\ got \in [Boxes -> [Boxes -> Nat]]
    BY <2>2 DEF Init
  <2>4. inbox \in [Boxes -> SUBSET Packets] /\ on \in [Boxes -> BOOLEAN]
    BY DEF Init
  <2>5. sent \in [Boxes -> Nat] /\ born \in [Boxes -> Nat]
    BY DEF Init
  <2>6. QED
    BY <2>1, <2>3, <2>4, <2>5 DEF LinksTyped
<1>2. SeqInv /\ PacketInv
  BY DEF Init, SeqInv, PacketInv
<1>3. LastInv
  BY DEF Init, LastInv, NoneHeard
<1>4. QED
  BY <1>1, <1>2, <1>3 DEF IInv

(* A packet is among those that may yet be received, whether it is or not. *)
LEMMA RestsTyped ==
  ASSUME LinksTyped, NEW b \in Boxes, NEW p, NEW rest \in Rests(b, p)
  PROVE  rest \in [Boxes -> SUBSET Packets] /\ \A c \in Boxes : rest[c] \subseteq inbox[c]
<1>1. inbox \in [Boxes -> SUBSET Packets]
  BY DEF LinksTyped
<1>2. CASE rest = inbox
  BY <1>1, <1>2
<1>3. CASE rest = [inbox EXCEPT ![b] = @ \ {p}]
  BY <1>1, <1>3
<1>4. QED
  BY <1>2, <1>3 DEF Rests

(* A handler that sends, and may have accepted a packet. *)
LEMMA SendStep ==
  ASSUME IInv, NEW b \in Boxes,
         NEW cmds, Len(cmds) \in 1..2, \A i \in 1..Len(cmds) : cmds[i] \in Commands,
         NEW rest, \A c \in Boxes : rest[c] \subseteq inbox[c],
         Send(b, cmds, rest), born' = born, on' \in [Boxes -> BOOLEAN],
         \/ UNCHANGED <<last, got>>
         \/ \E e \in Boxes : \E p \in inbox[e] : Note(e, p)
  PROVE  IInv'
<1>1. LinksTyped /\ SeqInv /\ PacketInv
  BY DEF IInv
<1>2. /\ sent' = [sent EXCEPT ![b] = @ + Len(cmds)]
      /\ seqno' = [seqno EXCEPT ![b] = IF Len(cmds) = 1 THEN NextSeq(seqno[b])
                                             ELSE NextSeq(NextSeq(seqno[b]))]
      /\ inbox' \in [Boxes -> SUBSET Packets]
      /\ PacketInv'
  BY <1>1, Sending
<1>3. /\ sent' \in [Boxes -> Nat] /\ seqno' \in [Boxes -> 0..(SeqMod - 1)]
      /\ SeqInv' /\ NumbersKept
  BY <1>1, <1>2, OneMore DEF NumbersKept
<1>4. /\ last' \in [Boxes -> [Boxes -> 0..(SeqMod - 1)]]
      /\ got' \in [Boxes -> [Boxes -> Nat]]
      /\ LastInv'
  BY <1>3, LastStep
<1>5. born' \in [Boxes -> Nat]
  BY <1>1 DEF LinksTyped
<1>6. QED
  BY <1>2, <1>3, <1>4, <1>5 DEF IInv, LinksTyped

(* A step that sends nothing: packets are taken, or dropped, or left. *)
LEMMA QuietStep ==
  ASSUME IInv, UNCHANGED <<seqno, sent, born>>, on' \in [Boxes -> BOOLEAN],
         inbox' \in [Boxes -> SUBSET Packets],
         \A c \in Boxes : inbox'[c] \subseteq inbox[c],
         \/ UNCHANGED <<last, got>>
         \/ \E b \in Boxes : \E p \in inbox[b] : Note(b, p)
         \/ \E b \in Boxes : Forgets(b)
  PROVE  IInv'
<1>1. LinksTyped /\ SeqInv /\ PacketInv
  BY DEF IInv
<1>2. NumbersKept
  BY <1>1 DEF NumbersKept, Numbered, LinksTyped
<1>3. sent' \in [Boxes -> Nat] /\ seqno' \in [Boxes -> 0..(SeqMod - 1)] /\ born' \in [Boxes -> Nat]
  BY <1>1 DEF LinksTyped
<1>4. /\ last' \in [Boxes -> [Boxes -> 0..(SeqMod - 1)]]
      /\ got' \in [Boxes -> [Boxes -> Nat]]
      /\ LastInv'
  BY <1>2, <1>3, LastStep
<1>5. SeqInv'
  BY <1>1 DEF SeqInv
<1>6. PacketInv'
  BY <1>1 DEF PacketInv, Recent, Numbered
<1>7. QED
  BY <1>3, <1>4, <1>5, <1>6 DEF IInv, LinksTyped

(* A box is switched off and comes back: its packets on their way are stale by
   then, and what others remember of it is not of this life. *)
LEMMA PowerCycleStep ==
  ASSUME IInv, NEW b \in Boxes, PowerCycle(b)
  PROVE  IInv'
<1>1. LinksTyped /\ SeqInv /\ PacketInv /\ LastInv
  BY DEF IInv
<1>2. /\ seqno' = [seqno EXCEPT ![b] = 0] /\ born' = [born EXCEPT ![b] = sent[b]]
      /\ inbox' = [c \in Boxes |-> IF c = b THEN {} ELSE {p \in inbox[c] : p.from # b}]
      /\ sent' = sent /\ last' = last /\ got' = got
      /\ on' = [on EXCEPT ![b] = FALSE]
  BY DEF PowerCycle
<1>3. LinksTyped'
  <2>1. seqno' \in [Boxes -> 0..(SeqMod - 1)] /\ born' \in [Boxes -> Nat] /\ on' \in [Boxes -> BOOLEAN]
    BY <1>1, <1>2, Constants DEF LinksTyped
  <2>2. inbox' \in [Boxes -> SUBSET Packets]
    BY <1>1, <1>2 DEF LinksTyped
  <2>3. QED
    BY <1>1, <1>2, <2>1, <2>2 DEF LinksTyped
<1>4. /\ born'[b] = sent[b]
      /\ \A c \in Boxes \ {b} : seqno'[c] = seqno[c] /\ born'[c] = born[c]
  BY <1>1, <1>2 DEF LinksTyped
<1>5. \A c \in Boxes : sent[c] \in Nat
  BY <1>1 DEF LinksTyped
<1>6. SeqInv'
  <2>1. ASSUME NEW c \in Boxes
        PROVE  born'[c] <= sent'[c] /\ (born'[c] < sent'[c] => seqno'[c] > 0)
    <3>1. CASE c = b
      BY <1>2, <1>4, <1>5, <3>1
    <3>2. CASE c # b
      BY <1>1, <1>2, <1>4, <3>2 DEF SeqInv
    <3>3. QED
      BY <3>1, <3>2
  <2>2. QED
    BY <2>1 DEF SeqInv
<1>7. PacketInv'
  <2>1. ASSUME NEW c \in Boxes, NEW p \in inbox'[c]
        PROVE  Recent(p)'
    <3>1. p \in inbox[c] /\ p.from # b
      BY <1>2, <2>1
    <3>2. p.from \in Boxes /\ Recent(p)
      BY <1>1, <3>1 DEF LinksTyped, PacketInv, Packets
    <3>3. QED
      BY <1>2, <1>4, <3>1, <3>2 DEF Recent, Numbered
  <2>2. QED
    BY <2>1 DEF PacketInv
<1>8. LastInv'
  <2>1. ASSUME NEW d \in Boxes, NEW c \in Boxes
        PROVE  /\ got'[d][c] <= sent'[c]
               /\ last'[d][c] = 0 <=> got'[d][c] = 0
               /\ last'[d][c] # 0 => Numbered(c, last[d][c], got[d][c])'
    <3>1. /\ got[d][c] <= sent[c] /\ got[d][c] \in Nat
          /\ last[d][c] = 0 <=> got[d][c] = 0
          /\ last[d][c] # 0 => Numbered(c, last[d][c], got[d][c])
      BY <1>1 DEF LastInv, LinksTyped
    <3>2. CASE c = b
      BY <1>2, <1>4, <1>5, <3>1, <3>2 DEF Numbered
    <3>3. CASE c # b
      BY <1>2, <1>4, <3>1, <3>3 DEF Numbered
    <3>4. QED
      BY <3>2, <3>3
  <2>2. QED
    BY <2>1 DEF LastInv
<1>9. QED
  BY <1>3, <1>6, <1>7, <1>8 DEF IInv

(* MAIN answers a request it accepts, or uses it up; one it refuses is dropped. *)
LEMMA CenterOnStartStep ==
  ASSUME IInv, NEW p, CenterOnStart(p)
  PROVE  IInv'
<1>1. "MAIN" \in Boxes /\ p \in inbox["MAIN"] /\ born' = born
  BY DEF CenterOnStart, Boxes
<1>2. LinksTyped /\ on' \in [Boxes -> BOOLEAN]
  BY DEF IInv, LinksTyped, CenterOnStart
<1>3. PICK rest \in Rests("MAIN", p) :
        \/ Note("MAIN", p) /\ Send("MAIN", <<"START_ACK", "START">>, rest)
        \/ Note("MAIN", p) /\ inbox' = rest /\ UNCHANGED <<seqno, sent>>
        \/ inbox' = rest /\ UNCHANGED <<seqno, sent, last, got>>
  BY Zenon DEF CenterOnStart
<1>4. rest \in [Boxes -> SUBSET Packets] /\ \A c \in Boxes : rest[c] \subseteq inbox[c]
  BY <1>1, <1>2, RestsTyped
<1>5. CASE Note("MAIN", p) /\ Send("MAIN", <<"START_ACK", "START">>, rest)
  <2> DEFINE cmds == <<"START_ACK", "START">>
  <2>1. Len(cmds) \in 1..2 /\ \A i \in 1..Len(cmds) : cmds[i] \in Commands
    BY DEF Commands
  <2> HIDE DEF cmds
  <2>2. Send("MAIN", cmds, rest)
    BY <1>5 DEF cmds
  <2>3. QED
    BY <1>1, <1>2, <1>4, <1>5, <2>1, <2>2, SendStep
<1>6. CASE Note("MAIN", p) /\ inbox' = rest /\ UNCHANGED <<seqno, sent>>
  BY <1>1, <1>2, <1>4, <1>6, QuietStep
<1>7. CASE inbox' = rest /\ UNCHANGED <<seqno, sent, last, got>>
  BY <1>1, <1>2, <1>4, <1>7, QuietStep
<1>8. QED
  BY <1>3, <1>5, <1>6, <1>7

(* A sensing box hears MAIN, or drops what it refuses. *)
LEMMA BroadcastStep ==
  ASSUME IInv, NEW b, NEW p, NodeOnCenterBroadcast(b, p)
  PROVE  IInv'
<1>1. b \in Boxes /\ p \in inbox[b] /\ UNCHANGED <<seqno, sent, born>>
  BY DEF NodeOnCenterBroadcast, Boxes
<1>2. LinksTyped /\ on' \in [Boxes -> BOOLEAN]
  BY DEF IInv, LinksTyped, NodeOnCenterBroadcast
<1>3. inbox' \in Rests(b, p) /\ (Note(b, p) \/ UNCHANGED <<last, got>>)
  BY Zenon DEF NodeOnCenterBroadcast
<1>4. inbox' \in [Boxes -> SUBSET Packets] /\ \A c \in Boxes : inbox'[c] \subseteq inbox[c]
  BY <1>1, <1>2, <1>3, RestsTyped
<1>5. QED
  BY <1>1, <1>2, <1>3, <1>4, QuietStep

(* One packet sent of a box's own accord. *)
LEMMA SendOneStep ==
  ASSUME IInv, NEW b \in Boxes, NEW cmd \in Commands, Send(b, <<cmd>>, inbox),
         UNCHANGED <<last, got, born>>, on' \in [Boxes -> BOOLEAN]
  PROVE  IInv'
<1> DEFINE cmds == <<cmd>>
<1>1. Len(cmds) \in 1..2 /\ \A i \in 1..Len(cmds) : cmds[i] \in Commands
  OBVIOUS
<1>2. Send(b, cmds, inbox)
  OBVIOUS
<1> HIDE DEF cmds
<1>3. QED
  BY <1>1, <1>2, SendStep

(* Chatter takes a number and is kept from nobody. *)
LEMMA ChatterStep ==
  ASSUME IInv, NEW b \in Boxes, Chatter(b)
  PROVE  IInv'
<1>1. LinksTyped /\ SeqInv /\ PacketInv
  BY DEF IInv
<1> PICK k \in 1..2 : k = 1
  OBVIOUS
<1>2. /\ sent' = [sent EXCEPT ![b] = @ + k]
      /\ seqno' = [seqno EXCEPT ![b] = IF k = 1 THEN NextSeq(seqno[b])
                                             ELSE NextSeq(NextSeq(seqno[b]))]
      /\ inbox' = [c \in Boxes |-> {p \in inbox[c] : Fresh(p, b, k)}]
      /\ born' = born /\ UNCHANGED <<last, got>> /\ on' = on
  BY DEF Chatter
<1>3. /\ sent' \in [Boxes -> Nat] /\ seqno' \in [Boxes -> 0..(SeqMod - 1)]
      /\ SeqInv' /\ NumbersKept
  BY <1>1, <1>2, OneMore DEF NumbersKept
<1>4. \A c \in Boxes : \A p \in inbox'[c] : p \in Packets /\ Recent(p)'
  <2>1. ASSUME NEW c \in Boxes, NEW p \in inbox'[c]
        PROVE  p \in Packets /\ Recent(p)'
    <3>1. p \in inbox[c] /\ Fresh(p, b, k)
      BY <1>2, <2>1
    <3>2. p \in Packets /\ Recent(p)
      BY <1>1, <3>1 DEF LinksTyped, PacketInv
    <3>3. QED
      BY <1>1, <1>2, <3>1, <3>2, KeptIsRecent
  <2>2. QED
    BY <2>1
<1>5. inbox' \in [Boxes -> SUBSET Packets]
  BY <1>2, <1>4
<1>6. LastInv'
  BY <1>2, <1>3, LastStep
<1>7. LinksTyped'
  BY <1>1, <1>2, <1>3, <1>5 DEF LinksTyped
<1>8. QED
  BY <1>3, <1>4, <1>6, <1>7 DEF IInv, PacketInv

(* Every step keeps the invariant. *)
LEMMA InvStep ==
  ASSUME IInv, [Next]_vars
  PROVE  IInv'
<1>1. LinksTyped /\ "MAIN" \in Boxes /\ "START" \in Boxes /\ Sensing \subseteq Boxes
  BY NetAssumption DEF IInv, Boxes, NetAssumption
<1>2. CASE Ask
  <2>1. Send("START", <<"START">>, inbox) /\ UNCHANGED <<on, last, got, born>>
    BY <1>2, Zenon DEF Ask
  <2>2. QED
    BY <1>1, <2>1, SendOneStep DEF Commands, LinksTyped
<1>3. CASE CloseBulb
  <2>1. Send("MAIN", <<"SHOT_DONE">>, inbox) /\ UNCHANGED <<on, last, got, born>>
    BY <1>3, Zenon DEF CloseBulb
  <2>2. QED
    BY <1>1, <2>1, SendOneStep DEF Commands, LinksTyped
<1>4. CASE Rearmed
  <2>1. Send("MAIN", <<"READY">>, inbox) /\ UNCHANGED <<on, last, got, born>>
    BY <1>4, Zenon DEF Rearmed
  <2>2. QED
    BY <1>1, <2>1, SendOneStep DEF Commands, LinksTyped
<1>5. ASSUME NEW b \in Boxes, RequestExit(b)
      PROVE  IInv'
  <2>1. Send(b, <<"DISARM">>, inbox) /\ UNCHANGED <<last, got, born>>
    BY <1>5, Zenon DEF RequestExit
  <2>2. on' \in [Boxes -> BOOLEAN]
    BY <1>1, <1>5 DEF RequestExit, LinksTyped
  <2>3. QED
    BY <1>1, <2>1, <2>2, SendOneStep DEF Commands
<1>6. ASSUME NEW p, CenterOnDisarm(p)
      PROVE  IInv'
  <2>1. inbox' \in Rests("MAIN", p) /\ UNCHANGED <<on, seqno, last, sent, got, born>>
    BY <1>6 DEF CenterOnDisarm
  <2>2. inbox' \in [Boxes -> SUBSET Packets] /\ \A c \in Boxes : inbox'[c] \subseteq inbox[c]
    BY <1>1, <2>1, RestsTyped
  <2>3. QED
    BY <1>1, <2>1, <2>2, QuietStep DEF LinksTyped
<1>7. ASSUME NEW b \in Boxes, Enter(b)
      PROVE  IInv'
  <2>1. UNCHANGED <<seqno, inbox, sent, born>> /\ Forgets(b)
    BY <1>7 DEF Enter, Forgets
  <2>2. on' \in [Boxes -> BOOLEAN]
    BY <1>1, <1>7 DEF Enter, LinksTyped
  <2>3. inbox' \in [Boxes -> SUBSET Packets] /\ \A c \in Boxes : inbox'[c] \subseteq inbox[c]
    BY <1>1, <2>1 DEF LinksTyped
  <2>4. QED
    BY <2>1, <2>2, <2>3, QuietStep
<1>8. CASE (\E b \in Sensing : Unlock(b)) \/ UNCHANGED vars
  <2>1. UNCHANGED <<on, seqno, last, inbox, sent, got, born>>
    BY <1>8 DEF Unlock, vars, linkVars
  <2>2. inbox' \in [Boxes -> SUBSET Packets] /\ \A c \in Boxes : inbox'[c] \subseteq inbox[c]
    BY <1>1, <2>1 DEF LinksTyped
  <2>3. QED
    BY <1>1, <2>1, <2>2, QuietStep DEF LinksTyped
<1>9. QED
  BY <1>2, <1>3, <1>4, <1>5, <1>6, <1>7, <1>8, CenterOnStartStep, BroadcastStep, ChatterStep,
     PowerCycleStep, Zenon DEF Next

(* The numbers keep their meaning in every reachable state. *)
THEOREM Invariance == Spec => []IInv
<1>1. Init => IInv
  BY InitInv
<1>2. IInv /\ [Next]_vars => IInv'
  BY InvStep
<1>3. QED
  BY <1>1, <1>2, PTL DEF Spec

-----------------------------------------------------------------------------
(* What the filter is for.                                                 *)

(* What is let in is newer than all that was: a repeated, an overtaken and a
   late packet are refused. *)
LEMMA AcceptedNewer ==
  ASSUME IInv
  PROVE  AcceptedIsNew
<1>1. ASSUME NEW b \in Boxes, NEW p \in inbox[b], Accepts(b, p), p.nr <= got[b][p.from]
      PROVE  FALSE
  <2> DEFINE f == p.from
             k == sent[f] - p.nr
             m == sent[f] - got[b][f]
  <2>1. p \in Packets /\ Recent(p) /\ LinksTyped /\ LastInv /\ SeqInv
    BY DEF IInv, LinksTyped, PacketInv
  <2>2. f \in Boxes /\ p.nr \in Nat
    BY <2>1 DEF Packets
  <2>3. /\ sent[f] \in Nat /\ born[f] \in Nat /\ got[b][f] \in Nat
        /\ seqno[f] \in 0..(SeqMod - 1)
    BY <2>1, <2>2 DEF LinksTyped
  <2>4. p.nr <= sent[f] /\ p.nr > born[f] /\ p.nr + StaleSends > sent[f] /\ Numbered(f, p.seq, p.nr)
    BY <2>1 DEF Recent
  <2>5. /\ got[b][f] <= sent[f]
        /\ last[b][f] = 0 <=> got[b][f] = 0
        /\ last[b][f] # 0 => Numbered(f, last[b][f], got[b][f])
    BY <2>1, <2>2 DEF LastInv
  <2>6. got[b][f] > 0 /\ got[b][f] > born[f]
    BY <1>1, <2>2, <2>3, <2>4
  <2>7. k \in Nat /\ m \in Nat /\ m <= k /\ k < StaleSends /\ k < SeqMod - 1
    BY <1>1, <2>2, <2>3, <2>4, <2>5, Constants
  <2>8. seqno[f] \in 1..(SeqMod - 1)
    BY <2>1, <2>2, <2>3, <2>4 DEF SeqInv
  <2>9. p.seq = Back(seqno[f], k) /\ last[b][f] = Back(seqno[f], m)
    BY <2>4, <2>5, <2>6, <2>7, Constants DEF Numbered
  <2> HIDE DEF k, m
  <2>10. ~Newer(p.seq, last[b][f])
    BY <2>7, <2>8, <2>9, OlderIsNotNewer
  <2>11. QED
    BY <1>1, <2>5, <2>6, <2>10 DEF Accepts
<1>2. \A b \in Boxes : \A p \in inbox[b] : p.nr \in Nat /\ got[b][p.from] \in Nat
  BY DEF IInv, LinksTyped, Packets
<1>3. QED
  BY <1>1, <1>2 DEF AcceptedIsNew

(* What is refused is not, but for a sender that started up since or sent half
   the range of numbers since. *)
LEMMA RefusedOlder ==
  ASSUME IInv
  PROVE  RefusedIsOld
<1>1. ASSUME NEW b \in Boxes, NEW p \in inbox[b], ~Accepts(b, p), p.nr > got[b][p.from],
             ~(got[b][p.from] <= born[p.from]), ~(2 * (p.nr - got[b][p.from] + 1) >= SeqMod)
      PROVE  FALSE
  <2> DEFINE f == p.from
             k == sent[f] - p.nr
             m == sent[f] - got[b][f]
  <2>1. p \in Packets /\ Recent(p) /\ LinksTyped /\ LastInv /\ SeqInv
    BY DEF IInv, LinksTyped, PacketInv
  <2>2. f \in Boxes /\ p.nr \in Nat
    BY <2>1 DEF Packets
  <2>3. /\ sent[f] \in Nat /\ born[f] \in Nat /\ got[b][f] \in Nat
        /\ seqno[f] \in 0..(SeqMod - 1)
    BY <2>1, <2>2 DEF LinksTyped
  <2>4. p.nr <= sent[f] /\ p.nr > born[f] /\ p.nr + StaleSends > sent[f] /\ Numbered(f, p.seq, p.nr)
    BY <2>1 DEF Recent
  <2>5. got[b][f] <= sent[f] /\ (last[b][f] # 0 => Numbered(f, last[b][f], got[b][f]))
    BY <2>1, <2>2 DEF LastInv
  <2>6. last[b][f] # 0 /\ ~Newer(p.seq, last[b][f])
    BY <1>1 DEF Accepts
  <2>7. k \in Nat /\ m \in Nat /\ k < m /\ 2 * (m - k + 1) < SeqMod /\ m < SeqMod - 1
    BY <1>1, <2>2, <2>3, <2>4, <2>5, Constants
  <2>8. seqno[f] \in 1..(SeqMod - 1)
    BY <2>1, <2>2, <2>3, <2>4 DEF SeqInv
  <2>9. p.seq = Back(seqno[f], k) /\ last[b][f] = Back(seqno[f], m)
    BY <1>1, <2>3, <2>4, <2>5, <2>6, <2>7, Constants DEF Numbered
  <2> HIDE DEF k, m
  <2>10. Newer(p.seq, last[b][f])
    BY <2>7, <2>8, <2>9, LaterIsNewer
  <2>11. QED
    BY <2>6, <2>10
<1>2. QED
  BY <1>1 DEF RefusedIsOld

(* The filter tells new packets from old ones, for numbers of any width. *)
THEOREM OrderIsTold == Spec => []NumbersTellTheOrder
<1>1. IInv => NumbersTellTheOrder
  BY AcceptedNewer, RefusedOlder DEF NumbersTellTheOrder
<1>2. QED
  BY Invariance, <1>1, PTL

-----------------------------------------------------------------------------
(* Ordered links.                                                          *)

(* What is sent in a step is sent by one box. *)
LEMMA SendsOne ==
  ASSUME IInv, NEW b \in Boxes, NEW k \in 1..2, sent' = [sent EXCEPT ![b] = @ + k]
  PROVE  Links!Sends(b)
<1>1. sent \in [Boxes -> Nat]
  BY DEF IInv, LinksTyped
<1>2. sent'[b] = sent[b] + k /\ sent[b] \in Nat
  BY <1>1
<1>3. QED
  BY <1>1, <1>2 DEF Links!Sends

(* A packet accepted is one the link lets through. *)
LEMMA NoteActs ==
  ASSUME IInv, NEW b \in Boxes, on[b], NEW p \in inbox[b], Accepts(b, p), Note(b, p),
         UNCHANGED sent \/ Links!Sends(b)
  PROVE  \E c \in Boxes : Links!Act(b, c)
<1>1. LinksTyped /\ p \in Packets /\ Recent(p)
  BY DEF IInv, LinksTyped, PacketInv
<1>2. p.from \in Boxes /\ p.nr \in Nat /\ p.nr <= sent[p.from]
  BY <1>1 DEF Packets, Recent
<1>3. p.nr > got[b][p.from]
  BY AcceptedNewer DEF AcceptedIsNew
<1>4. got' = [got EXCEPT ![b][p.from] = p.nr]
  BY DEF Note
<1>5. got'[b][p.from] = p.nr
  BY <1>1, <1>2, <1>4 DEF LinksTyped
<1>6. Links!Act(b, p.from)
  BY <1>2, <1>3, <1>4, <1>5 DEF Links!Act
<1>7. QED
  BY <1>2, <1>6

(* Whatever repeats, reorders, drops or restarts, every box acts on the packets
   of every other in order and once: the network implements OrderedLinks. *)
THEOREM LinksOrdered == Spec => LinksAreOrdered
<1>1. Init => Links!Init
  BY DEF Init, Links!Init, NoneHeard
<1>2. ASSUME IInv, [Next]_vars
      PROVE  [Links!Next]_(Links!linkVars)
  <2>1. "MAIN" \in Boxes /\ "START" \in Boxes /\ Sensing \subseteq Boxes
    BY NetAssumption DEF Boxes, NetAssumption
  <2>2. ASSUME NEW b \in Boxes, NEW k \in 1..2, sent' = [sent EXCEPT ![b] = @ + k], UNCHANGED got
        PROVE  Links!Next
    <3>1. Links!Send(b)
      BY <1>2, <2>2, SendsOne DEF Links!Send
    <3>2. QED
      BY <3>1 DEF Links!Next
  <2>3. ASSUME NEW p, CenterOnStart(p)
        PROVE  [Links!Next]_(Links!linkVars)
    <3>1. on["MAIN"] /\ p \in inbox["MAIN"]
      BY <2>3 DEF CenterOnStart
    <3>2. CASE UNCHANGED <<sent, got>>
      BY <3>2 DEF Links!linkVars
    <3>3. CASE Accepts("MAIN", p) /\ Note("MAIN", p) /\ UNCHANGED sent
      BY <1>2, <2>1, <3>1, <3>3, NoteActs DEF Links!Next
    <3>4. ASSUME NEW rest, Accepts("MAIN", p), Note("MAIN", p),
                 Send("MAIN", <<"START_ACK", "START">>, rest)
          PROVE  Links!Next
      <4> DEFINE cmds == <<"START_ACK", "START">>
      <4>1. Len(cmds) \in 1..2
        OBVIOUS
      <4> HIDE DEF cmds
      <4>2. sent' = [sent EXCEPT !["MAIN"] = @ + Len(cmds)]
        BY <3>4, Zenon DEF Send, cmds
      <4>3. Links!Sends("MAIN")
        BY <1>2, <2>1, <4>1, <4>2, SendsOne
      <4>4. QED
        BY <1>2, <2>1, <3>1, <3>4, <4>3, NoteActs DEF Links!Next
    <3>5. QED
      BY <2>3, <3>2, <3>3, <3>4, Zenon DEF CenterOnStart
  <2>4. ASSUME NEW b, NEW p, NodeOnCenterBroadcast(b, p)
        PROVE  [Links!Next]_(Links!linkVars)
    <3>1. b \in Boxes /\ on[b] /\ p \in inbox[b] /\ UNCHANGED sent
      BY <2>1, <2>4 DEF NodeOnCenterBroadcast
    <3>2. CASE UNCHANGED got
      BY <3>1, <3>2 DEF Links!linkVars
    <3>3. CASE Accepts(b, p) /\ Note(b, p)
      BY <1>2, <3>1, <3>3, NoteActs DEF Links!Next
    <3>4. QED
      BY <2>4, <3>2, <3>3, Zenon DEF NodeOnCenterBroadcast
  <2>5. ASSUME NEW b \in Boxes, NEW cmd, NEW rest, Send(b, <<cmd>>, rest), UNCHANGED got
        PROVE  Links!Next
    <3>1. sent' = [sent EXCEPT ![b] = @ + Len(<<cmd>>)]
      BY <2>5, Zenon DEF Send
    <3>2. Len(<<cmd>>) \in 1..2
      OBVIOUS
    <3>3. QED
      BY <2>2, <2>5, <3>1, <3>2, Zenon
  <2>6. CASE Ask \/ CloseBulb \/ Rearmed
    BY <2>1, <2>5, <2>6, Zenon DEF Ask, CloseBulb, Rearmed
  <2>7. ASSUME NEW b \in Boxes, RequestExit(b)
        PROVE  Links!Next
    BY <2>5, <2>7, Zenon DEF RequestExit
  <2>8. ASSUME NEW b \in Boxes, Chatter(b)
        PROVE  Links!Next
    <3>1. 1 \in 1..2
      OBVIOUS
    <3>2. QED
      BY <2>2, <2>8, <3>1, Zenon DEF Chatter
  <2>9. ASSUME NEW b \in Boxes, Enter(b)
        PROVE  Links!Next
    <3>1. Links!Forget(b)
      BY <2>9 DEF Enter, NoneHeard, Links!Forget
    <3>2. QED
      BY <3>1 DEF Links!Next
  <2>10. ASSUME \/ \E p : CenterOnDisarm(p)
                \/ \E b \in Sensing : Unlock(b)
                \/ \E b \in Boxes : PowerCycle(b)
                \/ UNCHANGED vars
         PROVE  UNCHANGED Links!linkVars
    BY <2>10 DEF CenterOnDisarm, Unlock, PowerCycle, vars, linkVars, Links!linkVars
  <2>11. QED
    BY <1>2, <2>3, <2>4, <2>6, <2>7, <2>8, <2>9, <2>10, Zenon DEF Next
<1>3. QED
  BY Invariance, <1>1, <1>2, PTL DEF Spec, LinksAreOrdered, Links!Spec

-----------------------------------------------------------------------------
(* The peer table.                                                         *)

LinkIsEarned ==
  \A i \in Entries(table) :
    Linked(table[i]) =>
      heard[table[i].mac] <= table[i].age \/ clash <= table[i].age \/ table[i].moved

\* What begin() would load is what RAM holds.
FlashNamesTheSame ==
  /\ Len(Loaded(flash)) = Len(table)
  /\ \A i \in Entries(table) :
       table[i].id = flash.peers[i].id /\ table[i].mac = flash.peers[i].mac

TableInv ==
  /\ TableTypeOK
  /\ OneEntryPerId
  /\ UniqueIds(flash.peers)
  /\ LinkIsEarned
  /\ PairedIsReachable
  /\ Shared(table) \subseteq twins
  /\ FlashNamesTheSame

-----------------------------------------------------------------------------
(* Entries.                                                                *)

\* The fields of an entry have their types.
LEMMA PeerFields ==
  ASSUME NEW p \in Peers
  PROVE  /\ p.id \in Ids /\ p.mac \in Macs
         /\ p.age \in 0..(LinkTime + 1) /\ p.age \in Int
         /\ p.seqOf \in Macs \cup {NoMac} /\ p.moved \in BOOLEAN
BY PeerAssumption DEF Peers

\* An entry whose age changes is an entry of the same box.
LEMMA PeerAged ==
  ASSUME NEW p \in Peers, NEW a \in 0..(LinkTime + 1), NEW q, q = [p EXCEPT !.age = a]
  PROVE  q \in Peers /\ q.id = p.id /\ q.mac = p.mac /\ q.age = a /\ q.moved = p.moved
BY DEF Peers

\* And so is one its own box was heard through, by an identity packet or by
\* a session packet.
LEMMA PeerHeard ==
  ASSUME NEW p \in Peers, NEW q, NEW k \in Macs \cup {NoMac},
         \/ q = [p EXCEPT !.age = 0, !.moved = FALSE]
         \/ q = [p EXCEPT !.seqOf = k, !.age = 0, !.moved = FALSE]
  PROVE  q \in Peers /\ q.id = p.id /\ q.mac = p.mac /\ q.age = 0
<1>1. 0 \in 0..(LinkTime + 1)
  BY PeerAssumption
<1>2. CASE q = [p EXCEPT !.age = 0, !.moved = FALSE]
  BY <1>1, <1>2 DEF Peers
<1>3. CASE q = [p EXCEPT !.seqOf = k, !.age = 0, !.moved = FALSE]
  BY <1>1, <1>3 DEF Peers
<1> QED BY <1>2, <1>3

\* The positions of a table hold entries, and are those of its domain.
LEMMA TableEntries ==
  ASSUME NEW t \in Seq(Peers)
  PROVE  /\ Entries(t) = 1..Len(t) /\ Len(t) \in Nat
         /\ \A i \in 1..Len(t) : t[i] \in Peers
BY DEF Entries

-----------------------------------------------------------------------------
(* What begin() restores from flash.                                       *)

\* begin() restores a table of the right size and shape, no peer of it linked,
\* with the ids and addresses of the list in flash, in order.
LEMMA LoadedTable ==
  ASSUME NEW f \in FlashStates
  PROVE  /\ Loaded(f) \in Seq(Peers)
         /\ Len(Loaded(f)) = Smaller(f.count, Len(f.peers))
         /\ Len(Loaded(f)) <= MaxPeers
         /\ \A i \in 1..Len(Loaded(f)) :
              /\ Loaded(f)[i].id = f.peers[i].id
              /\ Loaded(f)[i].mac = f.peers[i].mac
              /\ ~Linked(Loaded(f)[i])
<1> DEFINE n == Smaller(f.count, Len(f.peers))
<1>1. n \in Nat /\ n <= Len(f.peers) /\ n <= MaxPeers
  BY PeerAssumption DEF Smaller, FlashStates
<1>2. \A i \in 1..n : f.peers[i] \in Kept
  BY <1>1 DEF FlashStates
<1>3. \A i \in 1..n : [id |-> f.peers[i].id, mac |-> f.peers[i].mac,
                       age |-> Lapsed, seqOf |-> NoMac, moved |-> FALSE] \in Peers
  BY <1>2, PeerAssumption DEF Kept, Peers, Lapsed
<1> QED BY <1>1, <1>3, PeerAssumption DEF Loaded, Linked, Lapsed

\* A restart keeps the invariant, whatever count is in flash.
LEMMA BeginKeeps ==
  ASSUME TableInv, NEW f \in FlashStates, UniqueIds(f.peers), Begin(f)
  PROVE  TableInv'
<1>1. /\ table' = Loaded(f) /\ flash' = f
      /\ registered' = {Loaded(f)[i].mac : i \in DOMAIN Loaded(f)}
      /\ twins' = Shared(Loaded(f))
      /\ clash' \in {clash, ClashTime + 1}
      /\ heard' = heard
  BY DEF Begin
<1>2. TableTypeOK'
  <2>1. Loaded(f) \in Seq(Peers) /\ Len(Loaded(f)) <= MaxPeers
    BY LoadedTable
  <2>2. registered' \subseteq Macs
    <3>1. \A i \in DOMAIN Loaded(f) : Loaded(f)[i].mac \in Macs
      BY <2>1, TableEntries, PeerFields DEF Entries
    <3> QED BY <1>1, <3>1, Zenon
  <2>3. twins' \subseteq Macs
    BY <1>1 DEF Shared
  <2>4. clash' \in 0..(ClashTime + 1)
    BY <1>1, PeerAssumption DEF TableInv, TableTypeOK
  <2> QED BY <1>1, <2>1, <2>2, <2>3, <2>4 DEF TableInv, TableTypeOK
<1>3. UniqueIds(Loaded(f))
  BY LoadedTable DEF UniqueIds, FlashStates, Smaller
<1>4. LinkIsEarned'
  BY <1>1, LoadedTable DEF LinkIsEarned, Entries
<1>5. PairedIsReachable'
  BY <1>1 DEF PairedIsReachable, Entries
<1>6. FlashNamesTheSame'
  BY <1>1, LoadedTable DEF FlashNamesTheSame, Entries
<1> QED BY <1>1, <1>2, <1>3, <1>4, <1>5, <1>6 DEF TableInv, OneEntryPerId

-----------------------------------------------------------------------------
(* Packets and time: every entry keeps its id and address.                 *)

\* What no step of this kind can disturb.
LEMMA NamesKept ==
  ASSUME TableInv, Len(table') = Len(table), table' \in Seq(Peers),
         \A i \in 1..Len(table) : table'[i].id = table[i].id /\ table'[i].mac = table[i].mac,
         UNCHANGED <<registered, flash, twins>>
  PROVE  /\ OneEntryPerId'
         /\ UniqueIds(flash.peers)'
         /\ PairedIsReachable'
         /\ (Shared(table) \subseteq twins)'
         /\ FlashNamesTheSame'
<1>1. DOMAIN table = 1..Len(table) /\ DOMAIN table' = 1..Len(table)
  BY DEF TableInv, TableTypeOK
<1>2. OneEntryPerId'
  BY <1>1 DEF TableInv, OneEntryPerId, UniqueIds
<1>3. PairedIsReachable'
  BY <1>1 DEF TableInv, PairedIsReachable, Entries
<1>4. (Shared(table) \subseteq twins)'
  BY <1>1 DEF TableInv, Shared, Entries
<1>5. FlashNamesTheSame'
  BY <1>1 DEF TableInv, FlashNamesTheSame, Entries
<1> QED BY <1>2, <1>3, <1>4, <1>5 DEF TableInv

\* A packet credited to its sender's entry, and to the entry with the id it
\* carries: if that one is another box, the clash is noted.
LEMMA IdentityKeeps ==
  ASSUME TableInv, NEW m \in Macs, NEW n \in Ids, NEW rival \in BOOLEAN,
         NEW seen \in {{}, FindByNodeId(n)}, OnIdentity(m, n, rival, seen)
  PROVE  TableInv'
<1>1. /\ table' = Refreshed(m, seen) /\ Noted(n, m, rival) /\ Heard(m)
      /\ UNCHANGED <<registered, flash, twins>>
  BY DEF OnIdentity
<1>2. table \in Seq(Peers) /\ heard \in [Macs -> 0..(LinkTime + 1)]
      /\ clash \in 0..(ClashTime + 1)
  BY DEF TableInv, TableTypeOK
<1>3. \A i \in 1..Len(table) :
        /\ table'[i] \in Peers
        /\ table'[i].id = table[i].id /\ table'[i].mac = table[i].mac
        /\ \/ table'[i].age = 0 /\ table[i].mac = m
           \/ table'[i].age = 0 /\ table[i].id = n /\ table[i].mac # m
           \/ table'[i] = table[i]
  <2> SUFFICES ASSUME NEW i \in 1..Len(table)
               PROVE  /\ table'[i] \in Peers
                      /\ table'[i].id = table[i].id /\ table'[i].mac = table[i].mac
                      /\ \/ table'[i].age = 0 /\ table[i].mac = m
                         \/ table'[i].age = 0 /\ table[i].id = n /\ table[i].mac # m
                         \/ table'[i] = table[i]
    OBVIOUS
  <2>1. table[i] \in Peers /\ i \in Entries(table) /\ 0 \in 0..(LinkTime + 1)
    BY <1>2, TableEntries, PeerAssumption
  <2>2. table'[i] = IF i \in FindByMac(m) THEN [table[i] EXCEPT !.age = 0, !.moved = FALSE]
                    ELSE IF i \in seen THEN [table[i] EXCEPT !.age = 0] ELSE table[i]
    BY <1>1, <2>1, Zenon DEF Refreshed
  <2>3. CASE i \in FindByMac(m)
    <3>1. table'[i] = [table[i] EXCEPT !.age = 0, !.moved = FALSE] /\ table[i].mac = m
      BY <2>2, <2>3 DEF FindByMac
    <3> QED BY <2>1, <3>1, PeerHeard
  <2>4. CASE i \notin FindByMac(m) /\ i \in seen
    <3>1. table'[i] = [table[i] EXCEPT !.age = 0] /\ table[i].id = n
      BY <2>2, <2>4 DEF FindByNodeId
    <3> QED BY <2>1, <3>1, PeerAged
  <2>5. CASE i \notin FindByMac(m) /\ i \notin seen
    BY <2>1, <2>2, <2>5
  <2> QED BY <2>3, <2>4, <2>5
<1>4. table' \in Seq(Peers) /\ Len(table') = Len(table)
  <2>1. \E e : table' = [i \in 1..Len(table) |-> e[i]]
    <3>1. Entries(table) = 1..Len(table)
      BY <1>2, TableEntries
    <3>2. table' = [i \in 1..Len(table) |-> table'[i]]
      BY <1>1, <3>1 DEF Refreshed
    <3> QED BY <3>2
  <2>2. Len(table) \in Nat
    BY <1>2
  <2> QED BY <1>3, <2>1, <2>2
<1>5. clash' \in 0..(ClashTime + 1) /\ clash' <= clash
  BY <1>1, <1>2, PeerAssumption DEF Noted
<1>6. heard' \in [Macs -> 0..(LinkTime + 1)] /\ heard'[m] = 0
      /\ \A k \in Macs : heard'[k] <= heard[k]
  BY <1>1, <1>2, PeerAssumption DEF Heard
<1>7. TableTypeOK'
  BY <1>1, <1>4, <1>5, <1>6 DEF TableInv, TableTypeOK
<1>8. LinkIsEarned'
  <2> SUFFICES ASSUME NEW i \in 1..Len(table), Linked(table[i])'
               PROVE  \/ heard'[table'[i].mac] <= table'[i].age
                      \/ clash' <= table'[i].age \/ table'[i].moved
    BY <1>4 DEF LinkIsEarned, Entries
  <2>1. CASE table'[i].age = 0 /\ table[i].mac = m
    BY <1>3, <1>6, <2>1
  <2>2. CASE table'[i].age = 0 /\ table[i].id = n /\ table[i].mac # m
    BY <1>1, <1>2, <2>2 DEF Noted, Clashes, Entries
  <2>3. CASE table'[i] = table[i]
    <3>1. table[i].mac \in Macs /\ table[i].age \in Int
      BY <1>2, TableEntries, PeerFields
    <3>2. heard[table[i].mac] <= table[i].age \/ clash <= table[i].age \/ table[i].moved
      BY <2>3, <1>2 DEF TableInv, LinkIsEarned, Linked, Entries
    <3> QED BY <1>2, <1>5, <1>6, <2>3, <3>1, <3>2
  <2> QED BY <1>3, <2>1, <2>2, <2>3
<1> QED BY <1>1, <1>3, <1>4, <1>7, <1>8, NamesKept DEF TableInv

\* A session packet is credited to its sender's entry.
LEMMA SessionKeeps ==
  ASSUME TableInv, NEW m \in Macs, OnSession(m)
  PROVE  TableInv'
<1>1. /\ table' = [i \in Entries(table) |->
                     IF i \in FindByMac(m)
                     THEN [table[i] EXCEPT !.seqOf = m, !.age = 0, !.moved = FALSE]
                     ELSE table[i]]
  BY DEF OnSession
<1>0. heard' = [heard EXCEPT ![m] = 0] /\ UNCHANGED <<registered, flash, clash, twins>>
  BY DEF OnSession, Heard
<1>2. table \in Seq(Peers) /\ heard \in [Macs -> 0..(LinkTime + 1)]
  BY DEF TableInv, TableTypeOK
<1>3. \A i \in 1..Len(table) :
        /\ table'[i] \in Peers
        /\ table'[i].id = table[i].id /\ table'[i].mac = table[i].mac
        /\ (table'[i].age = 0 /\ table[i].mac = m) \/ table'[i] = table[i]
  <2> SUFFICES ASSUME NEW i \in 1..Len(table)
               PROVE  /\ table'[i] \in Peers
                      /\ table'[i].id = table[i].id /\ table'[i].mac = table[i].mac
                      /\ (table'[i].age = 0 /\ table[i].mac = m) \/ table'[i] = table[i]
    OBVIOUS
  <2>1. table[i] \in Peers /\ i \in Entries(table)
    BY <1>2, TableEntries
  <2>2. CASE i \in FindByMac(m)
    <3>1. table'[i] = [table[i] EXCEPT !.seqOf = m, !.age = 0, !.moved = FALSE]
      BY <1>1, <2>1, <2>2, Zenon
    <3>2. table[i].mac = m
      BY <2>2 DEF FindByMac
    <3> QED BY <2>1, <3>1, <3>2, PeerHeard
  <2>3. CASE i \notin FindByMac(m)
    BY <1>1, <2>1, <2>3, Zenon
  <2> QED BY <2>2, <2>3
<1>4. table' \in Seq(Peers) /\ Len(table') = Len(table)
  <2>1. Entries(table) = 1..Len(table) /\ Len(table) \in Nat
    BY <1>2, TableEntries
  <2>2. table' = [i \in 1..Len(table) |-> table'[i]]
    BY <1>1, <2>1
  <2> QED BY <1>3, <2>1, <2>2
<1>5. heard' \in [Macs -> 0..(LinkTime + 1)] /\ heard'[m] = 0
      /\ \A k \in Macs : heard'[k] <= heard[k]
  BY <1>0, <1>2, PeerAssumption
<1>6. TableTypeOK'
  BY <1>0, <1>4, <1>5 DEF TableInv, TableTypeOK
<1>7. LinkIsEarned'
  <2> SUFFICES ASSUME NEW i \in 1..Len(table), Linked(table[i])'
               PROVE  \/ heard'[table'[i].mac] <= table'[i].age
                      \/ clash' <= table'[i].age \/ table'[i].moved
    BY <1>4 DEF LinkIsEarned, Entries
  <2>1. CASE table'[i].age = 0 /\ table[i].mac = m
    BY <1>3, <1>5, <2>1
  <2>2. CASE table'[i] = table[i]
    <3>1. table[i].mac \in Macs /\ table[i].age \in Int
      BY <1>2, TableEntries, PeerFields
    <3>2. heard[table[i].mac] <= table[i].age \/ clash <= table[i].age \/ table[i].moved
      BY <2>2, <1>2 DEF TableInv, LinkIsEarned, Linked, Entries
    <3> QED BY <1>0, <1>2, <1>5, <2>2, <3>1, <3>2
  <2> QED BY <1>3, <2>1, <2>2
<1> QED BY <1>0, <1>3, <1>4, <1>6, <1>7, NamesKept DEF TableInv

\* A tick ages the links, the warning and the silence alike.
LEMMA TickKeeps ==
  ASSUME TableInv, Tick
  PROVE  TableInv'
<1>1. /\ table' = Aged /\ clash' = Older(clash, ClashTime)
      /\ heard' = [m \in Macs |-> Older(heard[m], LinkTime)]
      /\ UNCHANGED <<registered, flash, twins>>
  BY DEF Tick
<1>2. table \in Seq(Peers) /\ heard \in [Macs -> 0..(LinkTime + 1)]
      /\ clash \in 0..(ClashTime + 1)
  BY DEF TableInv, TableTypeOK
<1>3. \A i \in 1..Len(table) :
        /\ table'[i] \in Peers
        /\ table'[i].id = table[i].id /\ table'[i].mac = table[i].mac
        /\ table'[i].age = Older(table[i].age, LinkTime) /\ table'[i].moved = table[i].moved
  <2> SUFFICES ASSUME NEW i \in 1..Len(table)
               PROVE  /\ table'[i] \in Peers
                      /\ table'[i].id = table[i].id /\ table'[i].mac = table[i].mac
                      /\ table'[i].age = Older(table[i].age, LinkTime)
                      /\ table'[i].moved = table[i].moved
    OBVIOUS
  <2>1. table[i] \in Peers /\ i \in Entries(table)
    BY <1>2, TableEntries
  <2>2. Older(table[i].age, LinkTime) \in 0..(LinkTime + 1)
    BY <2>1, PeerFields, PeerAssumption DEF Older
  <2>3. table'[i] = [table[i] EXCEPT !.age = Older(table[i].age, LinkTime)]
    BY <1>1, <2>1 DEF Aged
  <2> QED BY <2>1, <2>2, <2>3, PeerAged
<1>4. table' \in Seq(Peers) /\ Len(table') = Len(table)
  <2>1. Entries(table) = 1..Len(table) /\ Len(table) \in Nat
    BY <1>2, TableEntries
  <2>2. table' = [i \in 1..Len(table) |-> table'[i]]
    BY <1>1, <2>1 DEF Aged
  <2> QED BY <1>3, <2>1, <2>2
<1>5. heard' \in [Macs -> 0..(LinkTime + 1)] /\ clash' \in 0..(ClashTime + 1)
  BY <1>1, <1>2, PeerAssumption DEF Older
<1>6. TableTypeOK'
  BY <1>1, <1>4, <1>5 DEF TableInv, TableTypeOK
<1>7. LinkIsEarned'
  <2> SUFFICES ASSUME NEW i \in 1..Len(table), Linked(table[i])'
               PROVE  \/ heard'[table'[i].mac] <= table'[i].age
                      \/ clash' <= table'[i].age \/ table'[i].moved
    BY <1>4 DEF LinkIsEarned, Entries
  <2>1. table[i].mac \in Macs /\ table[i].age \in 0..(LinkTime + 1)
    BY <1>2, TableEntries, PeerFields
  <2>2. table[i].age < LinkTime /\ table'[i].age = table[i].age + 1
    BY <1>3, <2>1, PeerAssumption DEF Linked, Older
  <2>3. heard[table[i].mac] <= table[i].age \/ clash <= table[i].age \/ table[i].moved
    BY <2>1, <2>2, <1>2, PeerAssumption DEF TableInv, LinkIsEarned, Linked, Entries
  <2>4. CASE heard[table[i].mac] <= table[i].age
    BY <1>1, <1>2, <1>3, <2>1, <2>2, <2>4, PeerAssumption DEF Older
  <2>5. CASE clash <= table[i].age
    BY <1>1, <1>2, <2>1, <2>2, <2>5, PeerAssumption DEF Older
  <2>6. CASE table[i].moved
    BY <1>3, <2>6
  <2> QED BY <2>3, <2>4, <2>5, <2>6
<1> QED BY <1>1, <1>3, <1>4, <1>6, <1>7, NamesKept DEF TableInv

-----------------------------------------------------------------------------
(* Pairing and removing.                                                   *)

\* The search by id finds an entry whenever there is one: ids are unique, so
\* the first match is the only one.
LEMMA FoundById ==
  ASSUME TableInv, NEW n \in Ids, NEW i \in 1..Len(table), table[i].id = n
  PROVE  i \in FindByNodeId(n)
<1>1. Entries(table) = 1..Len(table)
  BY TableEntries DEF TableInv, TableTypeOK
<1>2. \A j \in 1..(i - 1) : table[j].id # n
  BY <1>1 DEF TableInv, OneEntryPerId, UniqueIds, Entries
<1> QED BY <1>1, <1>2 DEF FindByNodeId

\* addOrUpdatePeer() leaves a table of the right size with unique ids: an entry
\* found is given the new address, and unless that is its old one it is marked
\* as moved; else one entry is added for a new id.
LEMMA AddOrUpdateTable ==
  ASSUME TableInv, NEW n \in Ids, NEW m \in Macs, ~Full(n, m)
  PROVE  /\ AddOrUpdate(n, m) \in Seq(Peers)
         /\ Len(AddOrUpdate(n, m)) <= MaxPeers
         /\ UniqueIds(AddOrUpdate(n, m))
         /\ Len(AddOrUpdate(n, m)) >= Len(table)
         /\ \A i \in 1..Len(table) : AddOrUpdate(n, m)[i].id = table[i].id
         /\ \A i \in 1..Len(AddOrUpdate(n, m)) :
              LET e == AddOrUpdate(n, m)[i] IN
              /\ e.mac = m \/ (i \in 1..Len(table) /\ e.mac = table[i].mac)
              /\ Linked(e) => /\ i \in 1..Len(table) /\ e.age = table[i].age
                              /\ e.moved \/ e.mac = table[i].mac
                              /\ table[i].moved => e.moved
<1> DEFINE found == IF FindByNodeId(n) # {} THEN FindByNodeId(n) ELSE FindByMac(m)
           t == AddOrUpdate(n, m)
           new == [id |-> n, mac |-> m, age |-> Lapsed, seqOf |-> NoMac, moved |-> FALSE]
<1>1. table \in Seq(Peers) /\ Len(table) \in Nat /\ Len(table) <= MaxPeers
      /\ Entries(table) = 1..Len(table) /\ DOMAIN table = 1..Len(table)
  BY TableEntries DEF TableInv, TableTypeOK, Entries
<1>2. CASE found # {}
  <2>1. t = [i \in 1..Len(table) |->
               IF i \in found
               THEN [table[i] EXCEPT !.mac = m, !.moved = @ \/ table[i].mac # m]
               ELSE table[i]]
    BY <1>1, <1>2 DEF AddOrUpdate
  <2>2. \A i \in 1..Len(table) :
          /\ t[i] \in Peers /\ t[i].id = table[i].id /\ t[i].age = table[i].age
          /\ t[i].mac = m \/ t[i].mac = table[i].mac
          /\ t[i].moved \/ t[i].mac = table[i].mac
          /\ table[i].moved => t[i].moved
    <3> SUFFICES ASSUME NEW i \in 1..Len(table)
                 PROVE  /\ t[i] \in Peers /\ t[i].id = table[i].id /\ t[i].age = table[i].age
                        /\ t[i].mac = m \/ t[i].mac = table[i].mac
                        /\ t[i].moved \/ t[i].mac = table[i].mac
                        /\ table[i].moved => t[i].moved
      OBVIOUS
    <3>1. table[i] \in Peers
      BY <1>1, TableEntries
    <3>2. t[i] = IF i \in found
                 THEN [table[i] EXCEPT !.mac = m, !.moved = @ \/ table[i].mac # m]
                 ELSE table[i]
      BY <2>1
    <3> QED BY <3>1, <3>2 DEF Peers
  <2>3. t \in Seq(Peers) /\ Len(t) = Len(table)
    <3>1. t = [i \in 1..Len(table) |-> t[i]]
      BY <2>1
    <3> QED BY <1>1, <2>2, <3>1
  <2>4. UniqueIds(t)
    BY <1>1, <2>2, <2>3 DEF TableInv, OneEntryPerId, UniqueIds
  <2> QED BY <1>1, <2>2, <2>3, <2>4
<1>3. CASE found = {}
  <2>1. t = Append(table, new)
    BY <1>3 DEF AddOrUpdate
  <2>2. new \in Peers /\ ~Linked(new) /\ new.id = n /\ new.mac = m
    BY PeerAssumption DEF Peers, Linked, Lapsed
  <2>3. t \in Seq(Peers) /\ Len(t) = Len(table) + 1
        /\ t[Len(table) + 1] = new /\ \A i \in 1..Len(table) : t[i] = table[i]
    BY <1>1, <2>1, <2>2
  <2>4. Len(t) <= MaxPeers
    BY <1>1, <1>3, <2>3, PeerAssumption DEF Full
  <2>5. \A i \in 1..Len(table) : table[i].id # n
    BY <1>3, FoundById
  <2>6. UniqueIds(t)
    BY <1>1, <2>2, <2>3, <2>5 DEF TableInv, OneEntryPerId, UniqueIds
  <2> QED BY <1>1, <2>2, <2>3, <2>4, <2>6
<1> QED BY <1>2, <1>3

\* What saveAll() leaves in flash holds the ids and addresses of the table it
\* was called for.
LEMMA SavedNames ==
  ASSUME TableInv, NEW t \in Seq(Peers), Len(t) <= MaxPeers, UniqueIds(t), SaveAll(t)
  PROVE  /\ flash' \in FlashStates /\ UniqueIds(flash'.peers)
         /\ Len(Loaded(flash')) = Len(t)
         /\ \A i \in 1..Len(t) : flash'.peers[i].id = t[i].id /\ flash'.peers[i].mac = t[i].mac
<1>0. CASE t = <<>>
  <2>1. flash' = [count |-> 0, peers |-> flash.peers] /\ Len(t) = 0
    BY <1>0 DEF SaveAll
  <2>2. flash' \in FlashStates
    BY <2>1, PeerAssumption DEF TableInv, TableTypeOK, FlashStates
  <2>3. Smaller(flash'.count, Len(flash'.peers)) = 0
    BY <2>1, <2>2 DEF Smaller, FlashStates
  <2>4. Len(Loaded(flash')) = Len(t)
    BY <2>1, <2>2, <2>3, LoadedTable
  <2> QED BY <2>1, <2>2, <2>4 DEF TableInv
<1> SUFFICES ASSUME t # <<>>
             PROVE  /\ flash' \in FlashStates /\ UniqueIds(flash'.peers)
                    /\ Len(Loaded(flash')) = Len(t)
                    /\ \A i \in 1..Len(t) :
                         flash'.peers[i].id = t[i].id /\ flash'.peers[i].mac = t[i].mac
  BY <1>0
<1> DEFINE kept == [i \in 1..Len(t) |-> Record(t[i])]
<1>1. Len(t) \in Nat /\ DOMAIN t = 1..Len(t) /\ \A i \in 1..Len(t) : t[i] \in Peers
  BY TableEntries DEF Entries
<1>2. flash' = [count |-> Len(t), peers |-> kept]
  BY <1>1 DEF SaveAll, Names, Entries
<1>3. \A i \in 1..Len(t) : kept[i] \in Kept /\ kept[i].id = t[i].id /\ kept[i].mac = t[i].mac
  BY <1>1, PeerFields DEF Record, Kept
<1>4. kept \in Seq(Kept) /\ Len(kept) = Len(t)
  BY <1>1, <1>3
<1>5. flash' \in FlashStates
  BY <1>1, <1>2, <1>4, PeerAssumption DEF FlashStates
<1>6. UniqueIds(flash'.peers)
  BY <1>1, <1>2, <1>3, <1>4 DEF UniqueIds
<1>7. Len(Loaded(flash')) = Len(t)
  <2>1. flash'.count = Len(t) /\ Len(flash'.peers) = Len(t)
    BY <1>2, <1>4
  <2>2. Smaller(flash'.count, Len(flash'.peers)) = Len(t)
    BY <1>1, <2>1 DEF Smaller
  <2> QED BY <1>5, <2>2, LoadedTable
<1> QED BY <1>2, <1>3, <1>5, <1>6, <1>7

\* Power fails between the two writes: the next begin() is a restart with
\* another count.
LEMMA TornKeeps ==
  ASSUME TableInv, NEW t \in Seq(Peers), Len(t) <= MaxPeers, TornSave(t)
  PROVE  TableInv'
<1> DEFINE f == [flash EXCEPT !.count = Len(t)]
<1>1. f \in FlashStates /\ f.peers = flash.peers
  BY PeerAssumption DEF TableInv, TableTypeOK, FlashStates
<1> QED BY <1>1, BeginKeeps DEF TornSave, TableInv

\* Pairing keeps the invariant.
LEMMA PairKeeps ==
  ASSUME TableInv, NEW n \in Ids, NEW m \in Macs, Pair(n, m)
  PROVE  TableInv'
<1> DEFINE t == AddOrUpdate(n, m)
<1>0. ~Full(n, m)
  BY DEF Pair
<1>1. /\ t \in Seq(Peers) /\ Len(t) <= MaxPeers /\ UniqueIds(t) /\ Entries(t) = 1..Len(t)
      /\ DOMAIN t = 1..Len(t)
  BY <1>0, AddOrUpdateTable, TableEntries DEF Entries
<1>2. CASE TornSave(t)
  BY <1>1, <1>2, TornKeeps
<1>3. CASE /\ table' = t /\ SaveAll(t)
           /\ registered' = registered \cup {m}
           /\ twins' = twins \cup Shared(t)
           /\ UNCHANGED <<clash, heard>>
  <2>1. /\ flash' \in FlashStates /\ UniqueIds(flash'.peers)
        /\ Len(Loaded(flash')) = Len(t)
        /\ \A i \in 1..Len(t) : flash'.peers[i].id = t[i].id /\ flash'.peers[i].mac = t[i].mac
    BY <1>1, <1>3, SavedNames
  <2>2. TableTypeOK'
    BY <1>1, <1>3, <2>1 DEF TableInv, TableTypeOK, Shared
  <2>3. PairedIsReachable'
    <3> SUFFICES ASSUME NEW i \in 1..Len(t) PROVE t[i].mac \in registered' \cup twins'
      BY <1>1, <1>3 DEF PairedIsReachable
    <3>1. t[i].mac = m \/ (i \in 1..Len(table) /\ t[i].mac = table[i].mac)
      BY <1>0, AddOrUpdateTable
    <3>2. i \in 1..Len(table) => table[i].mac \in registered \cup twins
      BY TableEntries DEF TableInv, TableTypeOK, PairedIsReachable
    <3> QED BY <1>3, <3>1, <3>2
  <2>4. LinkIsEarned'
    <3> SUFFICES ASSUME NEW i \in 1..Len(t), Linked(t[i])
                 PROVE  heard[t[i].mac] <= t[i].age \/ clash <= t[i].age \/ t[i].moved
      BY <1>1, <1>3 DEF LinkIsEarned
    <3>1. /\ i \in 1..Len(table) /\ t[i].age = table[i].age
          /\ t[i].moved \/ t[i].mac = table[i].mac
          /\ table[i].moved => t[i].moved
      BY <1>0, AddOrUpdateTable
    <3>2. heard[table[i].mac] <= table[i].age \/ clash <= table[i].age \/ table[i].moved
      BY <3>1, TableEntries DEF TableInv, TableTypeOK, LinkIsEarned, Linked
    <3> QED BY <3>1, <3>2
  <2>5. (Shared(table) \subseteq twins)'
    BY <1>3
  <2>6. FlashNamesTheSame'
    BY <1>1, <1>3, <2>1 DEF FlashNamesTheSame
  <2> QED BY <1>1, <1>3, <2>1, <2>2, <2>3, <2>4, <2>5, <2>6 DEF TableInv, OneEntryPerId
<1> QED BY <1>2, <1>3 DEF Pair

\* Removing keeps the invariant.
LEMMA ForgetKeeps ==
  ASSUME TableInv, NEW k \in Entries(table), Forget(k)
  PROVE  TableInv'
<1> DEFINE t == Without(table, k)
           from(i) == IF i < k THEN i ELSE i + 1
<1>1. table \in Seq(Peers) /\ Len(table) \in Nat /\ Len(table) <= MaxPeers
      /\ k \in 1..Len(table) /\ \A i \in 1..Len(table) : table[i] \in Peers
  BY TableEntries DEF TableInv, TableTypeOK
<1>2. /\ t \in Seq(Peers) /\ Len(t) = Len(table) - 1 /\ Entries(t) = 1..Len(t)
      /\ DOMAIN t = 1..Len(t)
      /\ \A i \in 1..Len(t) : from(i) \in 1..Len(table) /\ from(i) # k /\ t[i] = table[from(i)]
  BY <1>1 DEF Without, Entries
<1>3. UniqueIds(t)
  <2> SUFFICES ASSUME NEW i \in 1..Len(t), NEW j \in 1..Len(t), t[i].id = t[j].id
               PROVE  i = j
    BY <1>2 DEF UniqueIds
  <2>1. table[from(i)].id = table[from(j)].id
    BY <1>2
  <2>2. from(i) \in DOMAIN table /\ from(j) \in DOMAIN table
    BY <1>1, <1>2
  <2>3. from(i) = from(j)
    BY <2>1, <2>2 DEF TableInv, OneEntryPerId, UniqueIds
  <2> QED BY <1>1, <1>2, <2>3
<1>4. CASE TornSave(t)
  BY <1>1, <1>2, <1>4, TornKeeps, PeerAssumption
<1>5. CASE /\ table' = t /\ SaveAll(t)
           /\ registered' = registered \ {table[k].mac}
           /\ UNCHANGED <<clash, heard, twins>>
  <2>1. Len(t) <= MaxPeers
    BY <1>1, <1>2, PeerAssumption
  <2>2. /\ flash' \in FlashStates /\ UniqueIds(flash'.peers)
        /\ Len(Loaded(flash')) = Len(t)
        /\ \A i \in 1..Len(t) : flash'.peers[i].id = t[i].id /\ flash'.peers[i].mac = t[i].mac
    BY <1>2, <1>3, <1>5, <2>1, SavedNames
  <2>3. TableTypeOK'
    BY <1>2, <1>5, <2>1, <2>2 DEF TableInv, TableTypeOK
  <2>4. Shared(t) \subseteq twins
    <3> SUFFICES ASSUME NEW m \in Macs, NEW i \in 1..Len(t), NEW j \in 1..Len(t),
                        i # j, t[i].mac = m, t[j].mac = m
                 PROVE  m \in twins
      BY <1>2 DEF Shared
    <3>1. from(i) # from(j)
      BY <1>1, <1>2
    <3>2. table[from(i)].mac = m /\ table[from(j)].mac = m
      BY <1>2
    <3>3. from(i) \in Entries(table) /\ from(j) \in Entries(table)
      BY <1>1, <1>2, TableEntries
    <3>4. m \in Shared(table)
      BY <3>1, <3>2, <3>3 DEF Shared
    <3> QED BY <3>4 DEF TableInv
  <2>5. PairedIsReachable'
    <3> SUFFICES ASSUME NEW i \in 1..Len(t) PROVE t[i].mac \in registered' \cup twins
      BY <1>2, <1>5 DEF PairedIsReachable
    <3>1. t[i].mac \in registered \cup twins
      BY <1>1, <1>2 DEF TableInv, PairedIsReachable, Entries
    <3>2. CASE t[i].mac # table[k].mac
      BY <1>5, <3>1, <3>2
    <3>3. CASE t[i].mac = table[k].mac
      <4>1. from(i) \in 1..Len(table) /\ from(i) # k /\ table[from(i)].mac = table[k].mac
        BY <1>2, <3>3
      <4>2. table[k].mac \in Macs
        BY <1>1, PeerFields
      <4> QED BY <1>1, <3>3, <4>1, <4>2 DEF TableInv, Shared, Entries
    <3> QED BY <3>2, <3>3
  <2>6. LinkIsEarned'
    <3> SUFFICES ASSUME NEW i \in 1..Len(t), Linked(t[i])
                 PROVE  heard[t[i].mac] <= t[i].age \/ clash <= t[i].age \/ t[i].moved
      BY <1>2, <1>5 DEF LinkIsEarned
    <3>1. from(i) \in Entries(table) /\ t[i] = table[from(i)]
      BY <1>1, <1>2, TableEntries
    <3> QED BY <3>1 DEF TableInv, LinkIsEarned
  <2>7. FlashNamesTheSame'
    BY <1>2, <1>5, <2>2 DEF FlashNamesTheSame
  <2> QED BY <1>3, <1>5, <2>2, <2>3, <2>4, <2>5, <2>6, <2>7 DEF TableInv, OneEntryPerId
<1> QED BY <1>4, <1>5 DEF Forget

-----------------------------------------------------------------------------
(* The theorems.                                                           *)

LEMMA TableInitInv == TableInit => TableInv
<1> SUFFICES ASSUME TableInit PROVE TableInv
  OBVIOUS
<1>1. table = <<>> /\ flash = [count |-> 0, peers |-> <<>>] /\ registered = {} /\ twins = {}
      /\ clash = ClashTime + 1 /\ heard = [m \in Macs |-> Lapsed]
  BY DEF TableInit
<1>2. flash \in FlashStates
  BY <1>1, PeerAssumption DEF FlashStates
<1>3. Len(Loaded(flash)) = 0
  BY <1>1, <1>2, LoadedTable DEF Smaller
<1>4. TableTypeOK
  BY <1>1, <1>2, PeerAssumption DEF TableTypeOK, Lapsed
<1> QED BY <1>1, <1>3, <1>4 DEF TableInv, OneEntryPerId, UniqueIds, LinkIsEarned,
        PairedIsReachable, Shared, FlashNamesTheSame, Entries

LEMMA TableStepInv == TableInv /\ [TableNext]_tableVars => TableInv'
<1> SUFFICES ASSUME TableInv, [TableNext]_tableVars PROVE TableInv'
  OBVIOUS
<1>1. ASSUME NEW n \in Ids, NEW m \in Macs, Pair(n, m) PROVE TableInv'
  BY <1>1, PairKeeps
<1>2. CASE RemovePeer
  BY <1>2, ForgetKeeps DEF RemovePeer
<1>3. ASSUME NEW m \in Macs, NEW n \in Ids, NEW rival \in BOOLEAN,
             OnPing(m, n, rival) \/ OnPong(m, n, rival)
      PROVE  TableInv'
  BY <1>3, IdentityKeeps DEF OnPing, OnPong
<1>4. ASSUME NEW m \in Macs, OnSession(m) PROVE TableInv'
  BY <1>4, SessionKeeps
<1>5. CASE Tick
  BY <1>5, TickKeeps
<1>6. CASE Restart
  BY <1>6, BeginKeeps DEF Restart, TableInv, TableTypeOK
<1>7. CASE UNCHANGED tableVars
  <2>1. /\ table' = table /\ registered' = registered /\ flash' = flash /\ clash' = clash
        /\ heard' = heard /\ twins' = twins
    BY <1>7 DEF tableVars
  <2> QED BY <2>1 DEF TableInv, TableTypeOK, OneEntryPerId, LinkIsEarned, Linked, PairedIsReachable,
                      Shared, FlashNamesTheSame, Entries
<1> QED BY <1>1, <1>2, <1>3, <1>4, <1>5, <1>6, <1>7 DEF TableNext

\* The inductive invariant holds in every reachable state.
THEOREM TableInvariance == TableSpec => []TableInv
BY TableInitInv, TableStepInv, PTL DEF TableSpec

\* The table keeps its types and its bound.
THEOREM TableTypeCorrect == TableSpec => []TableTypeOK
<1>1. TableInv => TableTypeOK
  BY DEF TableInv
<1> QED BY <1>1, TableInvariance, PTL

\* A node id names one entry, for every number of boxes, pairings, removals and
\* torn writes.
THEOREM IdsAreUnique == TableSpec => []OneEntryPerId
<1>1. TableInv => OneEntryPerId
  BY DEF TableInv
<1> QED BY <1>1, TableInvariance, PTL

\* A linked peer was heard within the timeout, or a clash is on the screen, or
\* its entry was re-addressed.
THEOREM LinksAreAlive == TableSpec => []LinkedIsAlive
<1>1. TableInv => LinkedIsAlive
  <2> SUFFICES ASSUME TableInv, NEW i \in Entries(table), Linked(table[i])
               PROVE  heard[table[i].mac] <= LinkTime \/ Clashing \/ table[i].moved
    BY DEF LinkedIsAlive
  <2>1. table[i] \in Peers
    BY TableEntries DEF TableInv, TableTypeOK
  <2>2. table[i].age <= LinkTime /\ table[i].age \in Int /\ table[i].mac \in Macs
    BY <2>1, PeerFields DEF Linked
  <2>3. heard[table[i].mac] \in Int /\ clash \in Int
    BY <2>2, PeerAssumption DEF TableInv, TableTypeOK
  <2>4. heard[table[i].mac] <= table[i].age \/ clash <= table[i].age \/ table[i].moved
    BY DEF TableInv, LinkIsEarned
  <2> QED BY <2>2, <2>3, <2>4, PeerAssumption DEF Clashing
<1> QED BY <1>1, TableInvariance, PTL

\* Every paired address is registered with the radio or was shared.
THEOREM PeersAreReachable == TableSpec => []PairedIsReachable
<1>1. TableInv => PairedIsReachable
  BY DEF TableInv
<1> QED BY <1>1, TableInvariance, PTL

\* Who is paired is what flash says, before and after a step that leaves flash
\* alone.
LEMMA SameFlashSameNames ==
  ASSUME TableInv, TableInv', flash' = flash
  PROVE  Names(table') = Names(table)
<1>1. /\ table \in Seq(Peers) /\ table' \in Seq(Peers)
      /\ DOMAIN table = 1..Len(table) /\ DOMAIN table' = 1..Len(table')
  BY DEF TableInv, TableTypeOK
<1>2. Len(table') = Len(table)
  BY DEF TableInv, FlashNamesTheSame
<1>3. \A i \in 1..Len(table) : Record(table'[i]) = Record(table[i])
  BY <1>1, <1>2 DEF TableInv, FlashNamesTheSame, Entries, Record
<1> QED BY <1>1, <1>2, <1>3 DEF Names, Entries

\* Equal names: the same entries, with the same ids.
LEMMA SameNamesSameIds ==
  ASSUME TableInv, TableInv', Names(table') = Names(table)
  PROVE  /\ Entries(table) \subseteq Entries(table')
         /\ \A i \in Entries(table) : table'[i].id = table[i].id
<1>1. DOMAIN Names(table) = Entries(table) /\ DOMAIN Names(table') = Entries(table')
  BY DEF Names
<1>2. \A i \in Entries(table) : Names(table)[i].id = table[i].id
  BY DEF Names, Record
<1>3. \A i \in Entries(table') : Names(table')[i].id = table'[i].id
  BY DEF Names, Record
<1> QED BY <1>1, <1>2, <1>3

\* What a torn save makes of the table: the new count of the old list.
LEMMA TornTable ==
  ASSUME TableInv, NEW t \in Seq(Peers), Len(t) <= MaxPeers, TornSave(t)
  PROVE  /\ Len(table') = Smaller(Len(t), Len(flash.peers))
         /\ Len(table) = Smaller(flash.count, Len(flash.peers))
         /\ flash.count \in Nat /\ Len(flash.peers) \in Nat /\ Len(t) \in Nat
         /\ \A i \in 1..Len(table') :
              table'[i].id = flash.peers[i].id /\ table'[i].mac = flash.peers[i].mac
<1> DEFINE f == [flash EXCEPT !.count = Len(t)]
<1>0. flash \in FlashStates
  BY DEF TableInv, TableTypeOK
<1>1. f \in FlashStates /\ f.peers = flash.peers /\ f.count = Len(t) /\ flash \in FlashStates
  <2>1. flash \in [count : 0..MaxPeers, peers : Seq(Kept)]
    BY <1>0 DEF FlashStates
  <2>2. f.count = Len(t) /\ f.peers = flash.peers
    BY <2>1
  <2>3. f \in FlashStates
    BY <1>0, PeerAssumption DEF FlashStates
  <2> QED BY <1>0, <2>2, <2>3
<1>2. table' = Loaded(f)
  BY DEF TornSave, Begin
<1>3. Len(table) = Smaller(flash.count, Len(flash.peers))
  BY <1>1, LoadedTable DEF TableInv, FlashNamesTheSame
<1>4. flash.count \in Nat /\ Len(flash.peers) \in Nat /\ Len(t) \in Nat
  BY <1>1 DEF FlashStates
<1> HIDE DEF f
<1> QED BY <1>1, <1>2, <1>3, <1>4, LoadedTable

\* A pairing leaves every entry in its place, under its number.
LEMMA PairSurvives ==
  ASSUME TableInv, NEW n \in Ids, NEW m \in Macs, Pair(n, m), TableInv'
  PROVE  /\ Entries(table) \subseteq Entries(table')
         /\ \A i \in Entries(table) : table'[i].id = table[i].id
<1> DEFINE t == AddOrUpdate(n, m)
<1>1. ~Full(n, m)
  BY DEF Pair
<1>2. /\ t \in Seq(Peers) /\ Len(t) <= MaxPeers /\ Len(t) >= Len(table)
      /\ \A i \in 1..Len(table) : t[i].id = table[i].id
  BY <1>1, AddOrUpdateTable
<1>3. /\ Entries(table) = 1..Len(table) /\ Len(table) \in Nat
      /\ Entries(table') = 1..Len(table') /\ Len(table') \in Nat
  BY DEF TableInv, TableTypeOK, Entries
<1>4. CASE table' = t
  BY <1>2, <1>3, <1>4
<1>5. CASE TornSave(t)
  <2> HIDE DEF t
  <2>1. /\ Len(table') = Smaller(Len(t), Len(flash.peers))
        /\ Len(table) = Smaller(flash.count, Len(flash.peers))
        /\ flash.count \in Nat /\ Len(flash.peers) \in Nat /\ Len(t) \in Nat
        /\ \A i \in 1..Len(table') : table'[i].id = flash.peers[i].id
    BY <1>2, <1>5, TornTable
  <2>2. Len(table) <= Len(table')
    BY <1>2, <2>1 DEF Smaller
  <2>3. \A i \in Entries(table) : table[i].id = flash.peers[i].id
    BY DEF TableInv, FlashNamesTheSame
  <2> QED BY <1>3, <2>1, <2>2, <2>3
<1> QED BY <1>4, <1>5 DEF Pair

\* A removal takes one entry out: the chosen one, or the last.
LEMMA ForgetTakesOne ==
  ASSUME TableInv, NEW k \in Entries(table), Forget(k), TableInv'
  PROVE  \E i \in Entries(table) : Names(table') = Without(Names(table), i)
<1> DEFINE t == Without(table, k)
<1>1. /\ table \in Seq(Peers) /\ Len(table) \in Nat /\ Len(table) <= MaxPeers
      /\ Entries(table) = 1..Len(table) /\ k \in 1..Len(table)
      /\ \A i \in 1..Len(table) : table[i] \in Peers
  BY TableEntries DEF TableInv, TableTypeOK
<1>2. /\ Names(table) = [i \in 1..Len(table) |-> Record(table[i])]
      /\ Len(Names(table)) = Len(table)
  <2>1. Names(table) = [i \in 1..Len(table) |-> Record(table[i])]
    BY <1>1 DEF Names
  <2> QED BY <1>1, <2>1
<1>3. \A i \in 1..Len(table) :
        Without(Names(table), i) =
          [j \in 1..(Len(table) - 1) |-> Record(table[IF j < i THEN j ELSE j + 1])]
  BY <1>1, <1>2 DEF Without
<1>4. /\ t = [j \in 1..(Len(table) - 1) |-> table[IF j < k THEN j ELSE j + 1]]
      /\ t \in Seq(Peers) /\ Len(t) = Len(table) - 1 /\ Entries(t) = 1..(Len(table) - 1)
  BY <1>1 DEF Without, Entries
<1>5. CASE table' = t
  <2>1. Names(table') = [j \in 1..(Len(table) - 1) |-> Record(t[j])]
    BY <1>4, <1>5 DEF Names
  <2>2. \A j \in 1..(Len(table) - 1) : t[j] = table[IF j < k THEN j ELSE j + 1]
    BY <1>4
  <2>3. Names(table') = Without(Names(table), k)
    BY <1>1, <1>3, <2>1, <2>2
  <2> QED BY <2>3
<1>6. CASE TornSave(t)
  <2> DEFINE final == Len(table)
  <2>1. Len(t) <= MaxPeers
    BY <1>1, <1>4, PeerAssumption
  <2> HIDE DEF t
  <2>2. /\ Len(table') = Smaller(Len(t), Len(flash.peers))
        /\ Len(table) = Smaller(flash.count, Len(flash.peers))
        /\ flash.count \in Nat /\ Len(flash.peers) \in Nat
        /\ \A i \in 1..Len(table') :
             table'[i].id = flash.peers[i].id /\ table'[i].mac = flash.peers[i].mac
    BY <1>4, <1>6, <2>1, TornTable
  <2>3. Len(table') = Len(table) - 1
    BY <1>1, <1>4, <2>2 DEF Smaller
  <2>4. \A i \in 1..Len(table) :
          table[i].id = flash.peers[i].id /\ table[i].mac = flash.peers[i].mac
    BY <1>1 DEF TableInv, FlashNamesTheSame
  <2>5. \A j \in 1..(Len(table) - 1) : Record(table'[j]) = Record(table[j])
    BY <1>1, <2>2, <2>3, <2>4 DEF Record
  <2>6. Entries(table') = 1..(Len(table) - 1)
    BY <2>3 DEF TableInv, TableTypeOK, Entries
  <2>7. Names(table') = [j \in 1..(Len(table) - 1) |-> Record(table[j])]
    BY <2>5, <2>6 DEF Names
  <2>8. final \in 1..Len(table) /\ \A j \in 1..(Len(table) - 1) : j < final
    BY <1>1
  <2>9. Without(Names(table), final) = [j \in 1..(Len(table) - 1) |-> Record(table[j])]
    BY <1>3, <2>8
  <2> QED BY <1>1, <2>7, <2>8, <2>9
<1> QED BY <1>5, <1>6 DEF Forget

\* Who is paired changes only with flash; a pairing takes nobody's place and a
\* removal takes out exactly one, wherever the power fails.
THEOREM PairedAreKept == TableSpec => PairedSurvive
<1> DEFINE Survive ==
             \/ /\ Entries(table) \subseteq Entries(table')
                /\ \A i \in Entries(table) : table'[i].id = table[i].id
             \/ \E i \in Entries(table) : Names(table') = Without(Names(table), i)
           Step == (flash' = flash => Names(table') = Names(table)) /\ Survive
<1>1. TableInv /\ TableInv' /\ [TableNext]_tableVars => Step
  <2> SUFFICES ASSUME TableInv, TableInv', [TableNext]_tableVars PROVE Step
    OBVIOUS
  <2>1. flash' = flash => Names(table') = Names(table)
    BY SameFlashSameNames
  <2>2. ASSUME flash' = flash PROVE Survive
    BY <2>1, <2>2, SameNamesSameIds
  <2>3. ASSUME NEW n \in Ids, NEW m \in Macs, Pair(n, m) PROVE Survive
    BY <2>3, PairSurvives
  <2>4. ASSUME RemovePeer PROVE Survive
    BY <2>4, ForgetTakesOne DEF RemovePeer
  <2>5. ASSUME NEW m \in Macs, NEW n \in Ids, NEW rival \in BOOLEAN,
               OnPing(m, n, rival) \/ OnPong(m, n, rival)
        PROVE  flash' = flash
    BY <2>5 DEF OnPing, OnPong, OnIdentity
  <2>6. ASSUME NEW m \in Macs, OnSession(m) PROVE flash' = flash
    BY <2>6 DEF OnSession
  <2>7. ASSUME Tick PROVE Survive
    BY <2>2, <2>7 DEF Tick
  <2>8. ASSUME Restart PROVE Survive
    BY <2>2, <2>8 DEF Restart, Begin
  <2>9. ASSUME UNCHANGED tableVars PROVE Survive
    BY <2>2, <2>9 DEF tableVars
  <2> HIDE DEF Survive
  <2> QED BY <2>1, <2>2, <2>3, <2>4, <2>5, <2>6, <2>7, <2>8, <2>9 DEF TableNext
<1> QED BY <1>1, TableInvariance, PTL DEF TableSpec, PairedSurvive

=============================================================================
