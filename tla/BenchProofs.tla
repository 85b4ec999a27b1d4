----------------------------- MODULE BenchProofs -----------------------------
(***************************************************************************)
(* Proofs about Bench, and with it about MULTI BOX's two screens and the   *)
(* role of the box, for every set of boxes, every size of their table,     *)
(* every room on the screen and every interval.                            *)
(*                                                                         *)
(* The inductive invariant adds to what the screens promise how the three  *)
(* copies of the role hang together (RolesFit), which sessions a role can  *)
(* be in (SessionFits), and what the harness owes its user: the clock its  *)
(* cycles wait for, and the role it has to give back.                      *)
(***************************************************************************)
EXTENDS Bench, SequenceTheorems, TLAPS

\* The edit buffer is the node manager's role, or not set yet; and away from
\* the screen that edits it, the node manager's is the one in flash, or not
\* read yet.
RolesFit ==
  /\ mode = "multi" => role \in {"NONE", nmRole}
  /\ mode \in {"off", "menu"} \/ (mode = "multi" /\ screen = "MAIN")
       => nmRole \in {"NONE", nvsRole}

\* Only a sensing box is locked, a FLASH box in a run, a START box for as long as
\* one lasts; only a FLASH box has a flash to arm; and only what is, or may claim
\* to be, MAIN exposes or rests.
SessionFits ==
  mode = "multi" =>
    /\ session = "LOCKED" => role = "START" \/ (role = "FLASH" /\ active)
    /\ role = "START" /\ active => session = "LOCKED"
    /\ flashing => role = "FLASH"
    /\ session \in {"EXPOSING", "REARM"} => role \in {"NONE", "MAIN"}

\* Elsewhere than in MULTI BOX its screens are as it will find them.
ScreensAtRest == mode # "multi" => screen = "MAIN" /\ state = "SELECTING"

ScreenInv ==
  /\ ScreenTypeOK
  /\ CursorOnARow /\ SelectionOnARow /\ DialogsHaveTheirScreen
  /\ RolesFit /\ SessionFits /\ ScreensAtRest

\* The clock of the last cycle is the time rested, and the role to give back
\* is the one that was in flash.
HarnessInv ==
  /\ rested = sinceCycle
  /\ mode = "dev" /\ warm => savedRole = before

\* The screen shows what was drawn last and pushed.
DisplayInv ==
  /\ ~Unseen => display = Picture
  /\ Unseen => /\ display.view = (IF pending = "REMOVE_PEER" THEN "PEER_LIST" ELSE "CONNECTION")
               /\ display.frame # <<>> /\ Hand \in DOMAIN display.frame
               /\ display.frame[Hand] = "lit"

IInv == TypeOK /\ ScreenInv /\ HarnessInv /\ DisplayInv


-----------------------------------------------------------------------------
(* Tables of boxes.                                                        *)

LEMMA TableFacts ==
  ASSUME NEW t \in Tables
  PROVE  /\ t \in Seq(Boxes) /\ Len(t) \in 0 .. MaxPeers
         /\ t # <<>> <=> Len(t) > 0
         /\ \A i, j \in 1 .. Len(t) : t[i] = t[j] => i = j
<1>1. PICK n \in 0 .. MaxPeers : t \in [1 .. n -> Boxes]
  BY DEF Tables
<1>2. t \in Seq(Boxes) /\ Len(t) = n
  BY <1>1, PeersAssumption
<1> QED BY <1>1, <1>2 DEF Tables, IsInjective

LEMMA TableMade ==
  ASSUME NEW t \in Seq(Boxes), Len(t) <= MaxPeers,
         \A i, j \in 1 .. Len(t) : t[i] = t[j] => i = j
  PROVE  t \in Tables
<1>1. t \in [1 .. Len(t) -> Boxes] /\ Len(t) \in 0 .. MaxPeers
  BY PeersAssumption
<1>2. IsInjective(t)
  BY <1>1 DEF IsInjective
<1> QED BY <1>1, <1>2 DEF Tables

LEMMA EmptyTable == <<>> \in Tables
<1>1. <<>> \in Seq(Boxes) /\ Len(<<>>) = 0
  OBVIOUS
<1>2. 0 <= MaxPeers
  BY PeersAssumption
<1>3. ASSUME NEW t \in Seq(Boxes), Len(t) = 0 PROVE t \in Tables
  <2>1. \A i, j \in 1 .. Len(t) : t[i] = t[j] => i = j
    BY <1>3
  <2>2. Len(t) <= MaxPeers
    BY <1>2, <1>3
  <2> QED BY <2>1, <2>2, TableMade
<1> QED BY <1>1, <1>3

\* A box that is not in the table is added behind the others.
LEMMA AppendedTable ==
  ASSUME NEW t \in Tables, NEW b \in Boxes, Len(t) < MaxPeers, ~Contains(t, b)
  PROVE  Append(t, b) \in Tables /\ Len(Append(t, b)) = Len(t) + 1
<1> DEFINE u == Append(t, b)
<1>1. t \in Seq(Boxes) /\ Len(t) \in Nat /\ \A i, j \in 1 .. Len(t) : t[i] = t[j] => i = j
  BY TableFacts, PeersAssumption
<1>2. /\ u \in Seq(Boxes) /\ Len(u) = Len(t) + 1
      /\ \A i \in 1 .. Len(t) : u[i] = t[i]
      /\ u[Len(t) + 1] = b
  BY <1>1, AppendProperties
<1>3. \A i \in 1 .. Len(t) : t[i] # b
  BY DEF Contains
<1>4. \A i, j \in 1 .. Len(u) : u[i] = u[j] => i = j
  <2> HIDE DEF u
  <2> QED BY <1>1, <1>2, <1>3
<1>5. Len(u) <= MaxPeers
  BY <1>1, <1>2, PeersAssumption
<1> QED BY <1>2, <1>4, <1>5, TableMade

\* Taking a row out closes the gap.
LEMMA ShortenedTable ==
  ASSUME NEW t \in Tables, NEW k \in 1 .. Len(t)
  PROVE  RemoveAt(t, k) \in Tables /\ Len(RemoveAt(t, k)) = Len(t) - 1
<1> DEFINE a == SubSeq(t, 1, k - 1)
           b == SubSeq(t, k + 1, Len(t))
           u == RemoveAt(t, k)
<1>1. /\ t \in Seq(Boxes) /\ Len(t) \in Nat /\ Len(t) <= MaxPeers
      /\ \A i, j \in 1 .. Len(t) : t[i] = t[j] => i = j
  BY TableFacts, PeersAssumption
<1>2. a \in Seq(Boxes) /\ Len(a) = k - 1 /\ \A i \in 1 .. k - 1 : a[i] = t[i]
  BY <1>1, SubSeqProperties
<1>3. /\ b \in Seq(Boxes) /\ Len(b) = Len(t) - k
      /\ \A i \in 1 .. Len(t) - k : b[i] = t[i + k]
  BY <1>1, SubSeqProperties
<1>4. u = a \o b
  BY DEF RemoveAt
<1> HIDE DEF a, b, u
<1>5. /\ u \in Seq(Boxes) /\ Len(u) = Len(t) - 1
      /\ \A i \in 1 .. Len(u) : u[i] = IF i < k THEN t[i] ELSE t[i + 1]
  <2>1. u \in Seq(Boxes) /\ Len(u) = Len(a) + Len(b)
    BY <1>2, <1>3, <1>4, ConcatProperties
  <2>2. Len(u) = Len(t) - 1
    BY <1>1, <1>2, <1>3, <2>1
  <2>3. ASSUME NEW i \in 1 .. Len(u) PROVE u[i] = IF i < k THEN t[i] ELSE t[i + 1]
    <3>1. u[i] = IF i <= Len(a) THEN a[i] ELSE b[i - Len(a)]
      BY <1>2, <1>3, <1>4, <2>1, ConcatProperties
    <3>2. CASE i < k
      BY <1>1, <1>2, <3>1, <3>2
    <3>3. CASE i >= k
      <4>1. i - (k - 1) \in 1 .. Len(t) - k /\ (i - (k - 1)) + k = i + 1
        BY <1>1, <2>2, <3>3
      <4> QED BY <1>1, <1>2, <1>3, <3>1, <3>3, <4>1
    <3> QED BY <3>2, <3>3
  <2> QED BY <2>1, <2>2, <2>3
<1>6. ASSUME NEW i \in 1 .. Len(u), NEW j \in 1 .. Len(u), u[i] = u[j] PROVE i = j
  <2> DEFINE at(n) == IF n < k THEN n ELSE n + 1
  <2>1. /\ at(i) \in 1 .. Len(t) /\ u[i] = t[at(i)]
        /\ at(j) \in 1 .. Len(t) /\ u[j] = t[at(j)]
    BY <1>1, <1>5
  <2>2. at(i) = at(j)
    <3> HIDE DEF at
    <3> QED BY <1>1, <1>6, <2>1
  <2> QED BY <1>1, <1>5, <2>2
<1>7. Len(u) <= MaxPeers
  BY <1>1, <1>5, PeersAssumption
<1> QED BY <1>5, <1>6, <1>7, TableMade DEF u

-----------------------------------------------------------------------------
(* Rows.                                                                   *)

\* Joining rows to a list that begins with the identity rows.
LEMMA RowsJoined ==
  ASSUME NEW R, NEW s \in Seq(Identity \cup R), NEW t \in Seq(R), Len(s) >= 2,
         s[1] = "NODE_ID", s[2] = "ROLE", \A i \in 3 .. Len(s) : s[i] \in R
  PROVE  /\ s \o t \in Seq(Identity \cup R) /\ Len(s \o t) = Len(s) + Len(t)
         /\ (s \o t)[1] = "NODE_ID" /\ (s \o t)[2] = "ROLE"
         /\ \A i \in 3 .. Len(s \o t) : (s \o t)[i] \in R
<1> DEFINE u == s \o t
<1>1. t \in Seq(Identity \cup R) /\ Len(s) \in Nat /\ Len(t) \in Nat
  OBVIOUS
<1>2. /\ u \in Seq(Identity \cup R) /\ Len(u) = Len(s) + Len(t)
      /\ \A i \in 1 .. Len(s) + Len(t) : u[i] = IF i <= Len(s) THEN s[i] ELSE t[i - Len(s)]
  BY <1>1, ConcatProperties
<1>3. \A i \in 1 .. Len(t) : t[i] \in R
  OBVIOUS
<1> HIDE DEF u
<1>4. u[1] = "NODE_ID" /\ u[2] = "ROLE"
  BY <1>1, <1>2
<1>5. ASSUME NEW i \in 3 .. Len(u) PROVE u[i] \in R
  <2>1. CASE i <= Len(s)
    BY <1>1, <1>2, <2>1
  <2>2. CASE i > Len(s)
    <3>1. i - Len(s) \in 1 .. Len(t)
      BY <1>1, <1>2, <2>2
    <3> QED BY <1>1, <1>2, <1>3, <2>2, <3>1
  <2> QED BY <1>1, <2>1, <2>2
<1> QED BY <1>2, <1>4, <1>5 DEF u

\* The table of counts counts the rows, the identity rows are the first two of
\* every role, and they are the only ones of a box without a role that have a
\* value.
LEMMA RowFacts ==
  ASSUME NEW r \in Roles
  PROVE  /\ Len(RowsOf(r)) = ConnRowCount(r)
         /\ ConnRowCount(r) \in 5 .. 13
         /\ \A i \in 0 .. 12 : /\ ConnRowKind(r, i) \in Identity <=> i \in {0, 1}
                               /\ ConnRowKind(r, i) = "ROLE" <=> i = 1
                               /\ r = "NONE" => ConnRowKind(r, i) \notin Values
<1> DEFINE bare == {"PAIR", "NODES", "BACK"}
           R    == IF r = "NONE" THEN bare ELSE bare \cup Values \cup {"RANGE_ON"}
           head == <<"NODE_ID", "ROLE">>
           mid  == IF r = "NONE" THEN <<>> ELSE SensorRows
           own  == CASE r = "FLASH" -> <<"FLASH_DELAY">>
                     [] r = "MAIN"  -> <<"MIN_BULB", "MAX_BULB", "REARM", "END_DELAY">>
                     [] OTHER       -> <<>>
           tail == <<"PAIR", "NODES", "BACK">>
<1>1. RowsOf(r) = ((head \o mid) \o own) \o tail
  BY DEF RowsOf
<1>2. /\ head \in Seq(Identity \cup R) /\ Len(head) = 2
      /\ head[1] = "NODE_ID" /\ head[2] = "ROLE"
      /\ Len(head) >= 2 /\ \A i \in 3 .. Len(head) : head[i] \in R
  BY DEF Identity
<1>3. mid \in Seq(R) /\ Len(mid) = IF r = "NONE" THEN 0 ELSE 4
  <2>1. CASE r = "NONE"
    BY <2>1, EmptySeq
  <2>2. CASE r # "NONE"
    BY <2>2 DEF SensorRows, Values
  <2> QED BY <2>1, <2>2
<1>4. own \in Seq(R) /\ Len(own) = CASE r = "FLASH" -> 1 [] r = "MAIN" -> 4 [] OTHER -> 0
  <2>1. CASE r = "FLASH"
    BY <2>1 DEF Values
  <2>2. CASE r = "MAIN"
    BY <2>2 DEF Values
  <2>3. CASE r \notin {"FLASH", "MAIN"}
    <3>1. own = <<>>
      BY <2>3
    <3> QED BY <2>3, <3>1, EmptySeq
  <2> QED BY <2>1, <2>2, <2>3
<1>5. tail \in Seq(R) /\ Len(tail) = 3
  <2>1. {"PAIR", "NODES", "BACK"} \subseteq R
    OBVIOUS
  <2> HIDE DEF R
  <2> QED BY <2>1
<1>6. \A x \in R \cup {"BACK"} : x \notin Identity /\ x # "ROLE" /\ (r = "NONE" => x \notin Values)
  BY DEF Values, Identity
<1> HIDE DEF head, mid, own, tail, R
<1> DEFINE u == RowsOf(r)
<1>7. /\ u \in Seq(Identity \cup R) /\ Len(u) = 2 + Len(mid) + Len(own) + 3
      /\ u[1] = "NODE_ID" /\ u[2] = "ROLE"
      /\ \A i \in 3 .. Len(u) : u[i] \in R
  <2> DEFINE a == head \o mid
             b == a \o own
  <2>1. /\ a \in Seq(Identity \cup R) /\ Len(a) = 2 + Len(mid)
        /\ a[1] = "NODE_ID" /\ a[2] = "ROLE"
        /\ \A i \in 3 .. Len(a) : a[i] \in R
    BY <1>2, <1>3, RowsJoined
  <2>2. Len(mid) \in Nat /\ Len(own) \in Nat
    BY <1>3, <1>4
  <2>3. b = a \o own /\ u = b \o tail
    BY <1>1
  <2> HIDE DEF a, b, u
  <2>4. Len(a) >= 2 /\ Len(a) + Len(own) >= 2
    BY <2>1, <2>2
  <2>5. /\ b \in Seq(Identity \cup R) /\ Len(b) = 2 + Len(mid) + Len(own)
        /\ b[1] = "NODE_ID" /\ b[2] = "ROLE"
        /\ \A i \in 3 .. Len(b) : b[i] \in R
    <3>1. /\ b \in Seq(Identity \cup R) /\ Len(b) = Len(a) + Len(own)
          /\ b[1] = "NODE_ID" /\ b[2] = "ROLE"
          /\ \A i \in 3 .. Len(b) : b[i] \in R
      BY <1>4, <2>1, <2>4, <2>3, RowsJoined
    <3> QED BY <2>1, <2>2, <3>1
  <2>6. Len(b) >= 2
    BY <2>2, <2>5
  <2>7. /\ u \in Seq(Identity \cup R) /\ Len(u) = Len(b) + Len(tail)
        /\ u[1] = "NODE_ID" /\ u[2] = "ROLE"
        /\ \A i \in 3 .. Len(u) : u[i] \in R
    BY <1>5, <2>3, <2>5, <2>6, RowsJoined
  <2> QED BY <1>5, <2>2, <2>5, <2>7
<1>8. Len(u) = ConnRowCount(r) /\ ConnRowCount(r) \in 5 .. 13
  <2> HIDE DEF u
  <2> QED BY <1>3, <1>4, <1>7 DEF ConnRowCount, Roles
<1>9. ASSUME NEW i \in 0 .. 12
      PROVE  ConnRowKind(r, i) = IF i < Len(u) THEN u[i + 1] ELSE "BACK"
  BY DEF ConnRowKind
<1> HIDE DEF u
<1>10. ASSUME NEW i \in 0 .. 12
       PROVE  /\ i = 0 => ConnRowKind(r, i) = "NODE_ID"
              /\ i = 1 => ConnRowKind(r, i) = "ROLE"
              /\ i > 1 => ConnRowKind(r, i) \in R \cup {"BACK"}
  <2>1. i < Len(u) => i + 1 \in 1 .. Len(u) /\ (i > 1 => i + 1 \in 3 .. Len(u))
    BY <1>8
  <2> QED BY <1>7, <1>8, <1>9, <2>1
<1>11. ASSUME NEW i \in 0 .. 12
       PROVE  /\ ConnRowKind(r, i) \in Identity <=> i \in {0, 1}
              /\ ConnRowKind(r, i) = "ROLE" <=> i = 1
              /\ r = "NONE" => ConnRowKind(r, i) \notin Values
  <2>1. CASE i \in {0, 1}
    BY <1>10, <2>1 DEF Identity, Values
  <2>2. CASE i > 1
    <3>1. ConnRowKind(r, i) \in R \cup {"BACK"}
      BY <1>10, <2>2
    <3> QED BY <1>6, <2>2, <3>1
  <2> QED BY <2>1, <2>2
<1> QED BY <1>8, <1>11 DEF u

\* Turning wraps around.
LEMMA WrappedInRange ==
  ASSUME NEW last \in Nat, NEW i \in 0 .. last, NEW d \in {-1, 1}
  PROVE  Wrapped(i, d, last + 1) \in 0 .. last
BY DEF Wrapped

\* The role row runs through roles.
LEMMA NextRoleFacts ==
  ASSUME NEW d \in {-1, 1}, role \in Roles
  PROVE  NextRole(d) \in Roles
<1> DEFINE order == <<"NONE", "START", "FLASH", "MAIN">>
           i == CHOOSE k \in 1 .. 4 : order[k] = role
<1>1. \E k \in 1 .. 4 : order[k] = role
  BY DEF Roles
<1>2. i \in 1 .. 4
  BY <1>1
<1>3. Wrapped(i - 1, d, 4) + 1 \in 1 .. 4
  <2>1. i - 1 \in 0 .. 3 /\ 3 \in Nat /\ 4 = 3 + 1
    BY <1>2
  <2>2. Wrapped(i - 1, d, 4) \in 0 .. 3
    BY <2>1, WrappedInRange
  <2> QED BY <2>2
<1>4. NextRole(d) = order[Wrapped(i - 1, d, 4) + 1]
  BY DEF NextRole
<1>5. \A k \in 1 .. 4 : order[k] \in Roles
  BY DEF Roles
<1> QED
  <2> HIDE DEF i, order
  <2> QED BY <1>3, <1>4, <1>5

-----------------------------------------------------------------------------
(* The steps of the two screens keep ScreenInv.                            *)

\* Entering, the exit dialog and the encoder, but for the role row.
LEMMA EnterKeeps ==
  ASSUME ScreenInv, EnterMultiBox \/ LongPressOnTop \/ AnswerExit \/ OpenConnection
  PROVE  ScreenInv'
<1> USE DEF ScreenInv, ScreenTypeOK, CursorOnARow, SelectionOnARow, DialogsHaveTheirScreen,
            RolesFit, SessionFits, ScreensAtRest, screenVars, roleVars, radioVars, runVars, RunEnds, Reading, Row, States
<1>1. CASE EnterMultiBox
  <2>1. 0 \in 0 .. 12 /\ 0 \in 0 .. MaxPeers
    BY PeersAssumption
  <2> QED BY <1>1, <2>1, Zenon DEF EnterMultiBox
<1>2. CASE LongPressOnTop
  BY <1>2 DEF LongPressOnTop
<1>3. CASE AnswerExit
  <2>1. CASE mode' = "menu" /\ RunEnds("IDLE")
    BY <1>3, <2>1, Zenon DEF AnswerExit
  <2>2. CASE UNCHANGED <<mode, runVars>>
    BY <1>3, <2>2 DEF AnswerExit
  <2> QED BY <1>3, <2>1, <2>2 DEF AnswerExit
<1>4. CASE OpenConnection
  BY <1>4, RowFacts DEF OpenConnection
<1> QED BY <1>1, <1>2, <1>3, <1>4

LEMMA EncoderKeeps ==
  ASSUME ScreenInv, NEW d \in {-1, 1}, RotateDialog \/ RotateList(d)
  PROVE  ScreenInv'
<1> USE DEF ScreenInv, ScreenTypeOK, CursorOnARow, SelectionOnARow, DialogsHaveTheirScreen,
            RolesFit, SessionFits, ScreensAtRest, screenVars, roleVars, radioVars, runVars, RunEnds, Reading, Row, States
<1>1. CASE RotateDialog
  BY <1>1 DEF RotateDialog
<1>2. CASE RotateList(d)
  <2>1. /\ Len(found) \in 0 .. MaxPeers /\ Len(peers) \in 0 .. MaxPeers
        /\ Len(RowsOf(role)) = ConnRowCount(role) /\ ConnRowCount(role) \in 5 .. 13
    BY TableFacts, RowFacts
  <2>2. CASE state = "SCANNING"
    <3>1. Wrapped(sel, d, Len(found) + 1) \in 0 .. Len(found)
      <4>1. Len(found) \in Nat /\ sel \in 0 .. Len(found)
        BY <2>1, <2>2, PeersAssumption
      <4> QED BY <4>1, WrappedInRange
    <3> QED BY <1>2, <2>1, <2>2, <3>1, PeersAssumption DEF RotateList
  <2>3. CASE state = "PEER_LIST"
    <3>1. Wrapped(sel, d, Len(peers) + 1) \in 0 .. Len(peers)
      <4>1. Len(peers) \in Nat /\ sel \in 0 .. Len(peers)
        BY <2>1, <2>3, PeersAssumption
      <4> QED BY <4>1, WrappedInRange
    <3> QED BY <1>2, <2>1, <2>3, <3>1, PeersAssumption DEF RotateList
  <2>4. CASE state = "SELECTING"
    <3>1. Wrapped(cursor, d, ConnRowCount(role)) \in 0 .. ConnRowCount(role) - 1
      <4> DEFINE last == ConnRowCount(role) - 1
      <4>1. last \in Nat /\ cursor \in 0 .. last /\ ConnRowCount(role) = last + 1
        BY <1>2, <2>1, <2>4 DEF RotateList
      <4> HIDE DEF last
      <4>2. Wrapped(cursor, d, last + 1) \in 0 .. last
        BY <4>1, WrappedInRange
      <4> QED BY <4>1, <4>2 DEF last
    <3>2. cursor' \in 0 .. 12 /\ cursor' < Len(RowsOf(role))
      <4>1. cursor' = Wrapped(cursor, d, ConnRowCount(role))
        BY <1>2, <2>4, Zenon DEF RotateList
      <4>2. \A n \in 5 .. 13, w \in Int : w \in 0 .. n - 1 => w \in 0 .. 12 /\ w < n
        OBVIOUS
      <4>3. ConnRowCount(role) \in 5 .. 13 /\ ConnRowCount(role) = Len(RowsOf(role))
        BY <2>1
      <4>4. cursor' \in 0 .. ConnRowCount(role) - 1 /\ cursor' \in Int
        BY <3>1, <4>1, <4>3
      <4> QED BY <4>2, <4>3, <4>4
    <3> QED BY <1>2, <2>4, <3>2, Zenon DEF RotateList
  <2> QED BY <1>2, <2>2, <2>3, <2>4 DEF RotateList
<1> QED BY <1>1, <1>2

\* The role row: it is a row of every role, so the cursor stays on it.
LEMMA RoleRowKeeps ==
  ASSUME ScreenInv, NEW d \in {-1, 1}, RotateRole(d)
  PROVE  ScreenInv'
<1> USE DEF ScreenInv, ScreenTypeOK, CursorOnARow, SelectionOnARow, DialogsHaveTheirScreen,
            RolesFit, SessionFits, ScreensAtRest, screenVars, roleVars, radioVars, runVars, RunEnds, Reading, Row, States
<1>1. role' \in Roles /\ nmRole' = role'
  BY NextRoleFacts DEF RotateRole
<1>2. cursor = 1
  BY RowFacts DEF RotateRole
<1>3. /\ Len(RowsOf(role')) = ConnRowCount(role') /\ ConnRowCount(role') \in 5 .. 13
      /\ ConnRowKind(role', 1) \in Identity
  BY <1>1, RowFacts
<1>4. cursor' = 1
  BY <1>2, <1>3 DEF RotateRole, ClampedCursor
<1>5. 1 \in 0 .. 12 /\ 1 < Len(RowsOf(role'))
  BY <1>3
<1> QED BY <1>1, <1>3, <1>4, <1>5, Zenon DEF RotateRole

\* The button, where it changes no table.
LEMMA ButtonKeeps ==
  ASSUME ScreenInv, PressEditing \/ PressValueRow \/ PressPair \/ PressNodes \/ PressBack
  PROVE  ScreenInv'
<1> USE DEF ScreenInv, ScreenTypeOK, CursorOnARow, SelectionOnARow, DialogsHaveTheirScreen,
            RolesFit, SessionFits, ScreensAtRest, screenVars, roleVars, radioVars, runVars, RunEnds, Reading,
            Pressing, Row, States
<1>1. CASE PressEditing
  BY <1>1 DEF PressEditing
<1>2. CASE PressValueRow
  <2>1. CASE Row \in Identity /\ IsBusy
    BY <1>2, <2>1, Zenon DEF PressValueRow
  <2>2. CASE ~(Row \in Identity /\ IsBusy)
    BY <1>2, <2>2, Zenon DEF PressValueRow
  <2> QED BY <2>1, <2>2
<1>3. CASE PressPair
  BY <1>3, EmptyTable, TableFacts, PeersAssumption DEF PressPair
<1>4. CASE PressNodes
  BY <1>4, TableFacts, PeersAssumption DEF PressNodes
<1>5. CASE PressBack
  BY <1>5 DEF PressBack, SaveConfig
<1> QED BY <1>1, <1>2, <1>3, <1>4, <1>5

\* Removing the peer in hand leaves the selection on a row.
LEMMA RemovalKeeps ==
  ASSUME ScreenInv, sel < Len(peers), RemoveShownPeer
  PROVE  /\ peers' \in Tables /\ sel' \in 0 .. MaxPeers
         /\ state' \in {"SELECTING", "PEER_LIST"}
         /\ state' = "PEER_LIST" => peers' # <<>> /\ sel' <= Len(peers')
<1> DEFINE rest == RemoveAt(peers, sel + 1)
<1>1. Len(peers) \in 0 .. MaxPeers /\ sel \in Nat /\ sel + 1 \in 1 .. Len(peers)
  BY TableFacts, PeersAssumption DEF ScreenInv, ScreenTypeOK
<1>2. rest \in Tables /\ Len(rest) = Len(peers) - 1
  BY <1>1, ShortenedTable DEF ScreenInv, ScreenTypeOK
<1> HIDE DEF rest
<1>3. peers' = rest /\ state' = AfterRemoval(rest) /\ sel' = ClampedSel(rest)
  BY DEF RemoveShownPeer, rest
<1>4. rest = <<>> \/ Len(rest) > 0
  BY <1>2, TableFacts
<1>5. CASE rest = <<>>
  <2>1. state' = "SELECTING" /\ sel' = 0
    BY <1>3, <1>5, Zenon DEF AfterRemoval, ClampedSel
  <2> QED BY <1>2, <1>3, <2>1, PeersAssumption
<1>6. CASE rest # <<>>
  <2>1. /\ state' = "PEER_LIST"
        /\ sel' = IF sel >= Len(rest) THEN Len(rest) - 1 ELSE sel
    BY <1>3, <1>6 DEF AfterRemoval, ClampedSel
  <2>2. sel' \in 0 .. MaxPeers /\ sel' <= Len(rest)
    BY <1>1, <1>2, <1>4, <1>6, <2>1, PeersAssumption
  <2> QED BY <1>2, <1>3, <1>6, <2>1, <2>2
<1> QED BY <1>5, <1>6

LEMMA ListKeeps ==
  ASSUME ScreenInv, PressScanning \/ PressPeer \/ AnswerDisrupt
  PROVE  ScreenInv'
<1> USE DEF ScreenInv, ScreenTypeOK, CursorOnARow, SelectionOnARow, DialogsHaveTheirScreen,
            RolesFit, SessionFits, ScreensAtRest, screenVars, roleVars, radioVars, runVars, RunEnds, Reading,
            Pressing, Row, States
<1>1. Len(peers) \in 0 .. MaxPeers /\ Len(found) \in 0 .. MaxPeers
  BY TableFacts
<1>2. CASE PressScanning
  <2>1. peers' \in Tables
    <3>1. CASE /\ scan = "off" /\ sel < Len(found) /\ Len(peers) < MaxPeers
               /\ ~Contains(peers, found[sel + 1])
      <4>1. sel + 1 \in 1 .. Len(found)
        BY <1>1, <3>1
      <4>2. found[sel + 1] \in Boxes
        BY <4>1, TableFacts, ElementOfSeq
      <4> QED BY <1>2, <3>1, <4>2, AppendedTable DEF PressScanning
    <3>2. CASE ~( /\ scan = "off" /\ sel < Len(found) /\ Len(peers) < MaxPeers
                  /\ ~Contains(peers, found[sel + 1]) )
      BY <1>2, <3>2 DEF PressScanning
    <3> QED BY <3>1, <3>2
  <2> QED BY <1>2, <2>1, EmptyTable, PeersAssumption DEF PressScanning
<1>3. CASE PressPeer
  <2>1. CASE sel < Len(peers) /\ ~IsBusy
    <3>1. RemoveShownPeer
      BY <1>1, <1>3, <2>1 DEF PressPeer
    <3> QED BY <1>3, <2>1, <3>1, RemovalKeeps DEF PressPeer
  <2>2. CASE ~(sel < Len(peers) /\ ~IsBusy)
    <3>1. 0 \in 0 .. MaxPeers
      BY PeersAssumption
    <3> QED BY <1>3, <2>2, <3>1, Zenon DEF PressPeer
  <2> QED BY <2>1, <2>2
<1>4. CASE AnswerDisrupt
  <2>1. CASE ok /\ pending = "REMOVE_PEER"
    <3>1. RemoveShownPeer /\ sel < Len(peers)
      BY <1>4, <2>1 DEF AnswerDisrupt
    <3> QED BY <1>4, <2>1, <3>1, RemovalKeeps DEF AnswerDisrupt
  <2>2. CASE ~(ok /\ pending = "REMOVE_PEER")
    <3>1. sel < Len(peers) => peers # <<>> /\ sel <= Len(peers)
      BY <1>1, TableFacts, PeersAssumption
    <3> QED BY <1>4, <2>2, <3>1, Zenon DEF AnswerDisrupt
  <2> QED BY <2>1, <2>2
<1> QED BY <1>2, <1>3, <1>4

LEMMA LongPressKeeps ==
  ASSUME ScreenInv, LongPress
  PROVE  ScreenInv'
<1>1. 0 \in 0 .. 12 /\ 0 \in 0 .. MaxPeers
  BY PeersAssumption
<1> QED
  BY <1>1, EmptyTable, Zenon
     DEF LongPress, BackOut, SaveConfig, ScreenInv, ScreenTypeOK, CursorOnARow, SelectionOnARow,
         DialogsHaveTheirScreen, RolesFit, SessionFits, ScreensAtRest, roleVars, runVars, Reading, Row, States

\* The radio.  A claim puts other rows under the cursor, but those a box without
\* a role can be editing are rows of MAIN too.
LEMMA RadioKeeps ==
  ASSUME ScreenInv,
         \/ \E b \in Boxes : OnDiscovered(b)
         \/ ScanWindowEnds \/ AutoClaimMain \/ SessionMoves \/ SaveAll
  PROVE  ScreenInv'
<1> USE DEF ScreenInv, ScreenTypeOK, CursorOnARow, SelectionOnARow, DialogsHaveTheirScreen,
            RolesFit, SessionFits, ScreensAtRest, screenVars, roleVars, radioVars, runVars, RunEnds, Running, Row, States
<1>1. ASSUME NEW b \in Boxes, OnDiscovered(b) PROVE ScreenInv'
  <2>1. found' \in Tables /\ Len(found') = Len(found) + 1 /\ Len(found) \in Nat
    BY <1>1, AppendedTable, TableFacts, PeersAssumption DEF OnDiscovered
  <2> QED BY <1>1, <2>1 DEF OnDiscovered
<1>2. CASE ScanWindowEnds
  BY <1>2 DEF ScanWindowEnds
<1>3. CASE AutoClaimMain
  <2>1. CASE UNCHANGED roleVars
    BY <1>3, <2>1, EmptyTable DEF AutoClaimMain
  <2>2. CASE role = "NONE" /\ role' = "MAIN" /\ nmRole' = "MAIN" /\ nvsRole' = "MAIN"
    <3>1. /\ Len(RowsOf("NONE")) = 5 /\ Len(RowsOf("MAIN")) = 13
          /\ \A i \in 0 .. 12 :
               ConnRowKind("NONE", i) \in Identity \cup Values => ConnRowKind("MAIN", i) \in Identity
      BY RowFacts DEF Roles, ConnRowCount
    <3>2. ScreenTypeOK' /\ SelectionOnARow' /\ DialogsHaveTheirScreen'
      BY <1>3, <2>2, EmptyTable DEF AutoClaimMain, Roles
    <3>3. CursorOnARow'
      <4>1. UNCHANGED screenVars
        BY <1>3 DEF AutoClaimMain
      <4>2. cursor < 5 /\ screen = "CONNECTION" => cursor < 13
        OBVIOUS
      <4>3. screen' = "CONNECTION" => cursor' < Len(RowsOf(role'))
        BY <2>2, <3>1, <4>1, <4>2
      <4>4. Row \in Identity \cup Values => Row' \in Identity
        BY <2>2, <3>1, <4>1
      <4> QED BY <4>1, <4>3, <4>4
    <3>4. RolesFit' /\ SessionFits' /\ ScreensAtRest'
      BY <1>3, <2>2 DEF AutoClaimMain
    <3> QED BY <3>2, <3>3, <3>4
  <2> QED BY <1>3, <2>1, <2>2 DEF AutoClaimMain
<1>4. CASE SessionMoves
  <2>1. UNCHANGED <<mode, peers, scan, found, screenVars, roleVars>>
    BY <1>4 DEF SessionMoves
  <2>2. /\ session' \in {"IDLE", "READY", "EXPOSING", "LOCKED", "REARM"}
        /\ active' \in BOOLEAN /\ flashing' \in BOOLEAN
        /\ SessionFits'
    <3>1. CASE CenterHears
      BY <2>1, <3>1, Zenon DEF CenterHears, Paired, Roles
    <3>2. CASE NodeHears
      BY <2>1, <3>2, Zenon DEF NodeHears, Paired, Roles
    <3>3. CASE CenterDeadlines
      BY <2>1, <3>3, Zenon DEF CenterDeadlines, Roles
    <3>4. CASE SensorHit
      BY <2>1, <3>4, Zenon DEF SensorHit, Roles
    <3>5. CASE NodeDeadlines
      <4>1. CASE flashing' = FALSE /\ UNCHANGED <<session, active>>
        BY <2>1, <4>1, Zenon
      <4>2. CASE role # "MAIN" /\ session = "LOCKED" /\ RunEnds("READY")
        BY <2>1, <4>2, Zenon
      <4> QED BY <3>5, <4>1, <4>2, Zenon DEF NodeDeadlines
    <3> QED BY <1>4, <3>1, <3>2, <3>3, <3>4, <3>5, Zenon DEF SessionMoves
  <2> HIDE DEF SessionFits
  <2> QED BY <2>1, <2>2
<1>5. CASE SaveAll
  BY <1>5 DEF SaveAll
<1> QED BY <1>1, <1>2, <1>3, <1>4, <1>5

LEMMA PowerKeeps ==
  ASSUME ScreenInv, PowerCut \/ PowerOn
  PROVE  ScreenInv'
<1> USE DEF ScreenInv, ScreenTypeOK, CursorOnARow, SelectionOnARow, DialogsHaveTheirScreen,
            RolesFit, SessionFits, ScreensAtRest, screenVars, roleVars, radioVars, runVars, RunEnds, Row, States
<1>1. CASE PowerCut
  <2>1. 0 \in 0 .. 12 /\ 0 \in 0 .. MaxPeers
    BY PeersAssumption
  <2> QED BY <1>1, <2>1, EmptyTable, Zenon DEF PowerCut, Roles
<1>2. CASE PowerOn
  BY <1>2 DEF PowerOn
<1> QED BY <1>1, <1>2

LEMMA ScreenKeeps ==
  ASSUME ScreenInv, ScreenNext
  PROVE  ScreenInv'
BY EnterKeeps, EncoderKeeps, RoleRowKeeps, ButtonKeeps, ListKeeps, LongPressKeeps, RadioKeeps,
   PowerKeeps DEF ScreenNext

-----------------------------------------------------------------------------
(* The steps of the harness.                                               *)

\* Whatever a lap makes of a session is a session.
LEMMA LapSession ==
  ASSUME TypeOK, Lap
  PROVE  session' \in {"IDLE", "READY", "EXPOSING", "LOCKED", "REARM"}
<1> DEFINE Sessions == {"IDLE", "READY", "EXPOSING", "LOCKED", "REARM"}
<1>1. ASSUME NEW p \in Sessions, NEW a PROVE AfterDeadlines(p, a) \subseteq Sessions
  BY <1>1 DEF AfterDeadlines
<1>2. AfterPacket(session) \subseteq Sessions
  <2>1. session \in Sessions
    BY DEF TypeOK, ScreenTypeOK
  <2> QED BY <2>1, Zenon DEF AfterPacket
<1>3. PICK s \in UNION {AfterDeadlines(p, IF p = session THEN age ELSE 0) :
                         p \in AfterPacket(session)} :
        session' = IF ~CycleDone(s) /\ CycleDue(s) THEN "EXPOSING" ELSE s
  BY Zenon DEF Lap
<1>4. s \in Sessions
  BY <1>1, <1>2, <1>3, Zenon
<1> QED BY <1>3, <1>4

\* A cycle that begins was due, and otherwise the two clocks stay together.
LEMMA LapFacts ==
  ASSUME TypeOK, HarnessInv, Lap
  PROVE  /\ running' \in BOOLEAN /\ inFlight' \in BOOLEAN
         /\ sinceCycle' \in {0, sinceCycle} /\ rested' = sinceCycle'
         /\ age' \in {0, age}
         /\ ~inFlight /\ inFlight' => sinceCycle >= Interval
<1>1. PICK s \in UNION {AfterDeadlines(p, IF p = session THEN age ELSE 0) :
                         p \in AfterPacket(session)} :
        /\ age' = IF session' = session THEN age ELSE 0
        /\ IF CycleDone(s)
           THEN /\ inFlight' = FALSE /\ sinceCycle' = 0 /\ rested' = 0
                /\ running' = ~single
           ELSE /\ inFlight' = (inFlight \/ CycleDue(s))
                /\ UNCHANGED <<running, sinceCycle, rested>>
  BY Zenon DEF Lap
<1>2. CASE CycleDone(s)
  BY <1>1, <1>2 DEF TypeOK
<1>3. CASE ~CycleDone(s)
  <2>1. rested' = sinceCycle' /\ sinceCycle' = sinceCycle /\ running' \in BOOLEAN
    BY <1>1, <1>3 DEF TypeOK, HarnessInv
  <2>2. inFlight' \in BOOLEAN /\ (~inFlight /\ inFlight' => sinceCycle >= Interval)
    BY <1>1, <1>3, Zenon DEF TypeOK, CycleDue
  <2> QED BY <1>1, <2>1, <2>2
<1> QED BY <1>2, <1>3

\* Time runs alike for both clocks.
LEMMA CappedFacts ==
  ASSUME NEW top \in Nat, NEW n \in 0 .. top
  PROVE  Capped(n + 1, top) \in 0 .. top
BY DEF Capped

LEMMA HarnessScreen ==
  ASSUME TypeOK, ScreenInv, BenchNext
  PROVE  ScreenInv'
<1> USE DEF ScreenInv, ScreenTypeOK, CursorOnARow, SelectionOnARow, DialogsHaveTheirScreen,
            RolesFit, SessionFits, ScreensAtRest, screenVars, roleVars, radioVars, runVars, RunEnds, Row, States
<1>1. CASE EnterBench
  <2>1. 0 \in 0 .. 12 /\ 0 \in 0 .. MaxPeers
    BY PeersAssumption
  <2> QED BY <1>1, <2>1, Zenon DEF EnterBench, Borrowed, Roles
<1>2. CASE Teardown
  <2>1. savedRole \in Roles
    BY DEF TypeOK
  <2>2. ScreenTypeOK'
    BY <1>2, <2>1, Zenon DEF Teardown, GivenBack
  <2>3. CursorOnARow'
    BY <1>2 DEF Teardown
  <2>4. SelectionOnARow' /\ DialogsHaveTheirScreen'
    BY <1>2 DEF Teardown
  <2>5. RolesFit' /\ SessionFits' /\ ScreensAtRest'
    BY <1>2 DEF Teardown, GivenBack
  <2> QED BY <2>2, <2>3, <2>4, <2>5
<1>3. CASE Lap
  BY <1>3, LapSession, Zenon DEF Lap
<1>4. CASE Tick
  BY <1>4 DEF Tick
<1>5. CASE Stop
  BY <1>5 DEF Stop, Quiet
<1>6. CASE Start \/ OpenPage \/ EditRow \/ ToggleShootMode \/ RequestExit \/ HoldBack
  <2>1. UNCHANGED <<mode, screenVars, roleVars, radioVars>>
    BY <1>6, Zenon DEF Start, OpenPage, EditRow, ToggleShootMode, RequestExit, HoldBack, Quiet
  <2> QED BY <2>1
<1> QED BY <1>1, <1>2, <1>3, <1>4, <1>5, <1>6, Zenon DEF BenchNext

LEMMA HarnessTyped ==
  ASSUME TypeOK, HarnessInv, BenchNext
  PROVE  /\ page' \in Pages
         /\ editing' \in BOOLEAN /\ single' \in BOOLEAN
         /\ running' \in BOOLEAN /\ inFlight' \in BOOLEAN
         /\ exitReq' \in BOOLEAN /\ warm' \in BOOLEAN
         /\ sinceCycle' \in 0 .. Interval /\ rested' \in 0 .. Interval
         /\ age' \in 0 .. MaxBulb
         /\ savedRole' \in Roles /\ before' \in Roles
<1> USE DEF TypeOK, ScreenTypeOK, HarnessInv
<1>1. /\ 0 \in 0 .. Interval /\ 0 \in 0 .. MaxBulb
      /\ Interval \in Nat /\ MaxBulb \in Nat /\ "NONE" \in Roles
  BY BenchAssumption DEF Roles
<1>2. CASE EnterBench
  <2>1. warm' \in BOOLEAN
    BY <1>2, Zenon DEF EnterBench
  <2> QED BY <1>1, <1>2, <2>1, Zenon DEF EnterBench, Borrowed, Pages
<1>3. CASE Teardown
  BY <1>1, <1>3, Zenon DEF Teardown, Closed, Pages
<1>4. CASE Lap
  <2>1. sinceCycle' \in 0 .. Interval /\ rested' \in 0 .. Interval /\ age' \in 0 .. MaxBulb
    BY <1>1, <1>4, LapFacts
  <2> QED BY <1>4, <2>1, LapFacts, Zenon DEF Lap
<1>5. CASE Tick
  <2>1. /\ sinceCycle' \in 0 .. Interval /\ rested' \in 0 .. Interval
        /\ age' \in 0 .. MaxBulb
    BY <1>1, <1>5, CappedFacts DEF Tick
  <2> QED BY <1>5, <2>1, Zenon DEF Tick
<1>6. CASE Start
  BY <1>1, <1>6, Zenon DEF Start, StartClock, Quiet
<1>7. CASE Stop
  BY <1>7, Zenon DEF Stop, Quiet
<1>8. CASE OpenPage
  <2>1. page' \in Pages
    BY <1>8 DEF OpenPage, Pages
  <2> QED BY <1>8, <2>1, Zenon DEF OpenPage, Quiet
<1>9. CASE EditRow \/ ToggleShootMode \/ RequestExit
  BY <1>9 DEF EditRow, ToggleShootMode, RequestExit, Quiet
<1>10. CASE HoldBack
  <2>1. page' \in Pages /\ editing' \in BOOLEAN
    BY <1>10 DEF HoldBack, Pages
  <2> QED BY <1>10, <2>1, Zenon DEF HoldBack, Quiet
<1> QED BY <1>2, <1>3, <1>4, <1>5, <1>6, <1>7, <1>8, <1>9, <1>10, Zenon DEF BenchNext

LEMMA HarnessKept ==
  ASSUME TypeOK, HarnessInv, BenchNext
  PROVE  HarnessInv'
<1> USE DEF HarnessInv
<1>1. CASE EnterBench
  BY <1>1 DEF EnterBench, Borrowed
<1>2. CASE Teardown
  BY <1>2 DEF Teardown, Closed
<1>3. CASE Lap
  BY <1>3, LapFacts DEF Lap
<1>4. CASE Tick
  BY <1>4 DEF Tick
<1>5. CASE Start
  BY <1>5 DEF Start, StartClock, Quiet
<1>6. CASE Stop \/ OpenPage \/ EditRow \/ ToggleShootMode \/ RequestExit \/ HoldBack
  BY <1>6 DEF Stop, OpenPage, EditRow, ToggleShootMode, RequestExit, HoldBack, Quiet
<1> QED BY <1>1, <1>2, <1>3, <1>4, <1>5, <1>6 DEF BenchNext

-----------------------------------------------------------------------------
(* What is drawn, and what is seen of it.                                  *)

\* Wherever the selection stands in a list, it is among the rows drawn.
LEMMA SelectionInSight ==
  ASSUME NEW fits \in Nat \ {0}, NEW count \in Nat, NEW i \in 0 .. count - 1
  PROVE  i \in Drawn(fits, i, count)
BY DEF Drawn, FirstVisible

\* The row in hand stands out in a frame that holds it.
LEMMA HandStandsOut ==
  ASSUME NEW rows, NEW hand \in rows, NEW accented \in BOOLEAN,
         NEW f, f = FrameOf(rows, hand, accented)
  PROVE  /\ hand \in DOMAIN f
         /\ accented => f[hand] = "accent"
         /\ ~accented => f[hand] = "lit"
BY DEF FrameOf

\* What is drawn in a state that is drawn to be seen.
LEMMA HandDrawn ==
  ASSUME ScreenInv, mode = "multi", state # "CONFIRM_DISRUPT", Frame # <<>>
  PROVE  /\ Hand \in DOMAIN Frame
         /\ Frame[Hand] = (IF state \in {"EDITING", "CONFIRM_EXIT"} THEN "accent" ELSE "lit")
<1> USE DEF ScreenInv, ScreenTypeOK, States
<1>1. Len(found) \in Nat /\ Len(peers) \in Nat /\ VisibleRows \in Nat \ {0}
  BY TableFacts, PeersAssumption, RoomAssumption
<1>2. CASE Asking
  <2>1. state = "CONFIRM_EXIT"
    BY <1>2 DEF Asking
  <2>2. Hand = (IF ok THEN 1 ELSE 0) /\ Hand \in {0, 1}
    BY <2>1 DEF Hand
  <2>3. Frame = FrameOf({0, 1}, Hand, TRUE)
    <3>1. View = "CONFIRM_EXIT"
      BY <1>2, <2>1 DEF View
    <3>2. Frame = ConfirmFrame
      BY <1>2, <3>1 DEF Frame
    <3> QED BY <2>2, <3>2, Zenon DEF ConfirmFrame
  <2>4. Hand \in DOMAIN Frame /\ Frame[Hand] = "accent"
    <3>1. Hand \in {0, 1} /\ TRUE \in BOOLEAN
      BY <2>2
    <3>2. /\ Hand \in DOMAIN Frame
          /\ TRUE => Frame[Hand] = "accent"
      BY <2>3, <3>1, HandStandsOut, Zenon
    <3> QED BY <3>2
  <2> QED BY <2>1, <2>4
<1>3. CASE ~Asking
  <2>1. screen = "CONNECTION"
    <3>1. CASE screen = "MAIN"
      <4>1. View = role
        BY <1>3, <3>1 DEF View
      <4>2. Frame = <<>>
        BY <1>3, <4>1 DEF Frame, Roles
      <4> QED BY <4>2
    <3> QED BY <3>1
  <2>2. CASE state \in {"SCANNING", "PEER_LIST"}
    <3>1. View = state
      BY <1>3, <2>1, <2>2 DEF View
    <3>2. Hand = sel /\ state \notin {"EDITING", "CONFIRM_EXIT"}
      BY <2>2 DEF Hand
    <3>3. PICK boxes \in {found, peers} : Frame = BoxesFrame(boxes) /\ sel <= Len(boxes)
      <4>1. CASE state = "SCANNING"
        BY <1>3, <3>1, <4>1 DEF Frame, ScanFrame, SelectionOnARow
      <4>2. CASE state = "PEER_LIST"
        BY <1>3, <3>1, <4>2 DEF Frame, PeerFrame, SelectionOnARow
      <4> QED BY <2>2, <4>1, <4>2
    <3> DEFINE count == Len(boxes) + 1
    <3>4. count \in Nat /\ sel \in 0 .. count - 1 /\ ~(sel >= count)
      BY <1>1, <3>3, PeersAssumption
    <3>5. Frame = FrameOf(Drawn(VisibleRows, sel, count), sel, FALSE)
      BY <3>3, <3>4, Zenon DEF BoxesFrame
    <3>6. sel \in Drawn(VisibleRows, sel, count)
      BY <1>1, <3>4, SelectionInSight
    <3>7. sel \in DOMAIN Frame /\ Frame[sel] = "lit"
      BY <3>5, <3>6, HandStandsOut
    <3> QED BY <3>2, <3>7
  <2>3. CASE state \in {"SELECTING", "EDITING"}
    <3>1. View = "CONNECTION"
      BY <1>3, <2>1, <2>3 DEF View
    <3>2. Hand = cursor /\ Frame = ConnectionFrame
      BY <1>3, <2>3, <3>1 DEF Hand, Frame
    <3>3. cursor \in 0 .. ConnRowCount(role) - 1 /\ ConnRowCount(role) \in Nat
      BY <2>1, RowFacts DEF CursorOnARow
    <3>4. cursor \in Drawn(VisibleRows, cursor, ConnRowCount(role))
      BY <1>1, <3>3, SelectionInSight
    <3> DEFINE edited == state = "EDITING"
    <3>5. edited \in BOOLEAN
      OBVIOUS
    <3>6. Frame = FrameOf(Drawn(VisibleRows, cursor, ConnRowCount(role)), cursor, edited)
      BY <3>2 DEF ConnectionFrame
    <3> HIDE DEF edited
    <3>7. /\ cursor \in DOMAIN Frame
          /\ edited => Frame[cursor] = "accent"
          /\ ~edited => Frame[cursor] = "lit"
      BY <3>4, <3>5, <3>6, HandStandsOut
    <3> QED BY <2>3, <3>2, <3>7 DEF edited
  <2> QED BY <1>3, <2>2, <2>3, <2>1 DEF Asking, DialogsHaveTheirScreen
<1> QED BY <1>2, <1>3

\* The lists a question is asked from are never empty.
LEMMA ListsAreDrawn ==
  ASSUME ScreenInv, mode = "multi"
  PROVE  /\ state = "PEER_LIST" => View = "PEER_LIST" /\ Frame # <<>>
         /\ screen = "CONNECTION" /\ state = "SELECTING" => View = "CONNECTION" /\ Frame # <<>>
<1> USE DEF ScreenInv, ScreenTypeOK, States
<1>1. Len(peers) \in Nat /\ VisibleRows \in Nat \ {0}
  BY TableFacts, PeersAssumption, RoomAssumption
<1>2. ASSUME NEW f, NEW i, i \in DOMAIN f PROVE f # <<>>
  BY <1>2
<1>3. CASE state = "PEER_LIST"
  <2>1. View = "PEER_LIST" /\ Frame = BoxesFrame(peers)
    BY <1>3 DEF View, Frame, Asking, DialogsHaveTheirScreen, PeerFrame
  <2> DEFINE count == Len(peers) + 1
  <2>2. count \in Nat /\ sel \in 0 .. count - 1 /\ ~(sel >= count)
    BY <1>1, <1>3, PeersAssumption DEF SelectionOnARow
  <2>3. Frame = FrameOf(Drawn(VisibleRows, sel, count), sel, FALSE)
    BY <2>1, <2>2, Zenon DEF BoxesFrame
  <2>4. sel \in DOMAIN Frame
    BY <1>1, <2>2, <2>3, SelectionInSight, HandStandsOut
  <2> QED BY <1>2, <1>3, <2>1, <2>4
<1>4. CASE screen = "CONNECTION" /\ state = "SELECTING"
  <2>1. View = "CONNECTION" /\ Frame = ConnectionFrame
    BY <1>4 DEF View, Frame, Asking
  <2>2. cursor \in 0 .. ConnRowCount(role) - 1 /\ ConnRowCount(role) \in Nat
    BY <1>4, RowFacts DEF CursorOnARow
  <2>3. Frame = FrameOf(Drawn(VisibleRows, cursor, ConnRowCount(role)), cursor, FALSE)
    BY <1>4, <2>1 DEF ConnectionFrame
  <2>4. cursor \in DOMAIN Frame
    BY <1>1, <2>2, <2>3, SelectionInSight, HandStandsOut
  <2> QED BY <1>2, <1>4, <2>1, <2>4
<1> QED BY <1>3, <1>4

\* The question whether to end a run is asked from a list that is on the screen,
\* and while it is open neither the screen nor what it is about changes.
LEMMA QuestionAsked ==
  ASSUME TypeOK, ScreenInv, Next, Unseen'
  PROVE  \/ Unseen /\ UNCHANGED <<pending, sel, cursor>>
         \/ /\ mode = "multi" /\ UNCHANGED <<sel, cursor>>
            /\ \/ state = "PEER_LIST" /\ pending' = "REMOVE_PEER"
               \/ screen = "CONNECTION" /\ state = "SELECTING" /\ pending' = "EDIT_ROW"
<1> USE DEF Unseen, screenVars, States, ScreenTypeOK, ScreenInv, DialogsHaveTheirScreen, ScreensAtRest
<1>1. CASE ScreenNext
  <2>1. CASE EnterMultiBox \/ LongPressOnTop \/ AnswerExit \/ OpenConnection \/ PowerOn
    BY <2>1 DEF EnterMultiBox, LongPressOnTop, AnswerExit, OpenConnection, PowerOn, Reading
  <2>2. CASE RotateDialog
    BY <2>2 DEF RotateDialog, Reading
  <2>3. ASSUME NEW d \in {-1, 1}, RotateList(d) \/ RotateRole(d) PROVE FALSE
    BY <2>3 DEF RotateList, RotateRole, Reading
  <2>4. CASE PressEditing \/ PressScanning \/ PressPair \/ PressNodes \/ PressBack
    BY <2>4 DEF PressEditing, PressScanning, PressPair, PressNodes, PressBack, Pressing, Reading
  <2>5. CASE PressPeer
    BY <2>5 DEF PressPeer, Pressing, Reading, RemoveShownPeer, AfterRemoval
  <2>6. CASE AnswerDisrupt
    BY <2>6 DEF AnswerDisrupt, Pressing, Reading, RemoveShownPeer, AfterRemoval
  <2>7. CASE PressValueRow
    BY <2>7 DEF PressValueRow, Pressing, Reading
  <2>8. CASE LongPress
    BY <2>8 DEF LongPress, BackOut, Reading
  <2>9. CASE (\E b \in Boxes : OnDiscovered(b)) \/ ScanWindowEnds \/ AutoClaimMain \/ SessionMoves \/ SaveAll
    BY <2>9 DEF OnDiscovered, ScanWindowEnds, AutoClaimMain, SessionMoves, SaveAll, Running
  <2> QED BY <1>1, <2>1, <2>2, <2>3, <2>4, <2>5, <2>6, <2>7, <2>8, <2>9 DEF ScreenNext
<1>2. CASE PowerCut
  BY <1>2 DEF PowerCut
<1>3. CASE BenchNext
  <2>1. mode # "multi" \/ mode' # "multi"
    BY <1>3 DEF BenchNext, EnterBench, Teardown, Lap, Tick, Start, Stop, OpenPage, EditRow,
                ToggleShootMode, RequestExit, HoldBack, Bench
  <2>2. mode' # "multi"
    BY <1>3, <2>1
       DEF BenchNext, EnterBench, Teardown, Lap, Tick, Start, Stop, OpenPage, EditRow,
           ToggleShootMode, RequestExit, HoldBack, Bench, Quiet
  <2> QED BY <2>2
<1> QED BY <1>1, <1>2, <1>3, Zenon DEF Next

LEMMA DisplayKept ==
  ASSUME TypeOK, ScreenInv, DisplayInv, Next
  PROVE  DisplayInv'
<1>1. Render
  BY Zenon DEF Next
<1>2. CASE ~Unseen'
  BY <1>1, <1>2 DEF Render, DisplayInv
<1>3. CASE Unseen'
  <2>1. display' = display
    BY <1>1, <1>3 DEF Render
  <2>2. Hand' = IF pending' = "REMOVE_PEER" THEN sel' ELSE cursor'
    BY <1>3 DEF Hand, Unseen
  <2>3. CASE Unseen /\ UNCHANGED <<pending, sel, cursor>>
    <3>1. Hand = IF pending = "REMOVE_PEER" THEN sel ELSE cursor
      BY <2>3 DEF Hand, Unseen
    <3>2. Hand' = Hand
      BY <2>2, <2>3, <3>1
    <3> QED BY <1>3, <2>1, <2>3, <3>2 DEF DisplayInv
  <2>4. CASE /\ mode = "multi" /\ UNCHANGED <<sel, cursor>>
             /\ \/ state = "PEER_LIST" /\ pending' = "REMOVE_PEER"
                \/ screen = "CONNECTION" /\ state = "SELECTING" /\ pending' = "EDIT_ROW"
    <3>1. ~Unseen
      BY <2>4 DEF Unseen
    <3>2. display.view = View /\ display.frame = Frame
      BY <2>4, <3>1 DEF DisplayInv, Picture
    <3>3. /\ Frame # <<>>
          /\ View = IF pending' = "REMOVE_PEER" THEN "PEER_LIST" ELSE "CONNECTION"
      BY <2>4, ListsAreDrawn
    <3>4. Hand' = Hand
      BY <2>2, <2>4 DEF Hand
    <3>5. Hand \in DOMAIN Frame /\ Frame[Hand] = "lit"
      BY <2>4, <3>3, HandDrawn
    <3> QED BY <1>3, <2>1, <3>2, <3>3, <3>4, <3>5 DEF DisplayInv
  <2> QED BY <1>3, <2>3, <2>4, QuestionAsked
<1> QED BY <1>2, <1>3

LEMMA PictureView == ScreenTypeOK => Picture.view \in Views
BY DEF ScreenTypeOK, Picture, View, Views, States

-----------------------------------------------------------------------------
(* The invariant.                                                          *)

LEMMA InitIInv == Init => IInv
<1> SUFFICES ASSUME Init PROVE IInv
  OBVIOUS
<1>1. 0 \in 0 .. 12 /\ 0 \in 0 .. MaxPeers /\ 0 \in 0 .. Interval /\ 0 \in 0 .. MaxBulb
  BY PeersAssumption, BenchAssumption
<1>2. ScreenTypeOK
  BY <1>1, EmptyTable, Zenon DEF Init, ScreenInit, ScreenTypeOK, Roles, States
<1>3. TypeOK
  <2>1. display.view \in Views
    BY <1>2, PictureView DEF Init
  <2> QED BY <1>1, <1>2, <2>1, Zenon DEF Init, TypeOK, Pages, Roles
<1>4. ScreenInv
  BY <1>2, Zenon DEF Init, ScreenInit, ScreenInv, CursorOnARow, SelectionOnARow,
                     DialogsHaveTheirScreen, RolesFit, SessionFits, ScreensAtRest
<1>5. HarnessInv
  BY DEF Init, ScreenInit, HarnessInv
<1>6. DisplayInv
  BY DEF Init, ScreenInit, DisplayInv, Unseen
<1> QED BY <1>3, <1>4, <1>5, <1>6 DEF IInv

\* A step of the screens leaves the harness alone, and power takes all of it.
LEMMA StepIInv == IInv /\ [Next]_vars => IInv'
<1> SUFFICES ASSUME IInv, [Next]_vars PROVE IInv'
  OBVIOUS
<1> USE DEF IInv
<1>1. ASSUME Next, ScreenInv' PROVE DisplayInv' /\ display'.view \in Views
  <2>1. Render
    BY <1>1, Zenon DEF Next
  <2>2. display' \in {display, Picture'}
    BY <2>1 DEF Render
  <2>3. Picture'.view \in Views
    <3>1. ScreenTypeOK'
      BY <1>1 DEF ScreenInv
    <3> QED BY <3>1 DEF ScreenTypeOK, Picture, View, Views, States
  <2>4. display.view \in Views
    BY DEF TypeOK
  <2>5. display'.view \in Views
    BY <2>2, <2>3, <2>4, Zenon
  <2> QED BY <1>1, <2>5, DisplayKept
<1>2. CASE ScreenNext /\ UNCHANGED benchVars /\ Render
  <2>1. ScreenInv' /\ Next
    BY <1>2, ScreenKeeps DEF Next
  <2>2. TypeOK'
    BY <1>1, <1>2, <2>1, Zenon DEF TypeOK, ScreenInv, benchVars
  <2>3. HarnessInv'
    <3>1. ASSUME mode' = "dev" PROVE mode = "dev"
      BY <1>2, <3>1
         DEF ScreenNext, EnterMultiBox, LongPressOnTop, AnswerExit, RotateDialog, RotateList,
             RotateRole, OpenConnection, PressEditing, PressScanning, PressPeer, AnswerDisrupt,
             PressValueRow, PressPair, PressNodes, PressBack, LongPress, OnDiscovered,
             ScanWindowEnds, AutoClaimMain, SessionMoves, SaveAll, PowerOn
    <3> QED BY <1>2, <3>1, Zenon DEF HarnessInv, benchVars
  <2> QED BY <1>1, <2>1, <2>2, <2>3
<1>3. CASE PowerCut /\ Closed /\ UNCHANGED single /\ Render
  <2>1. ScreenInv' /\ Next
    BY <1>3, PowerKeeps DEF Next
  <2>2. TypeOK'
    <3>1. 0 \in 0 .. Interval /\ 0 \in 0 .. MaxBulb
      BY BenchAssumption
    <3> QED BY <1>1, <1>3, <2>1, <3>1, Zenon DEF TypeOK, ScreenInv, Closed, Pages, Roles
  <2>3. HarnessInv'
    BY <1>3 DEF HarnessInv, Closed
  <2> QED BY <1>1, <2>1, <2>2, <2>3
<1>4. CASE BenchNext /\ Render
  <2>1. ScreenInv' /\ Next
    BY <1>4, HarnessScreen DEF Next
  <2>2. TypeOK'
    BY <1>1, <1>4, <2>1, HarnessTyped, Zenon DEF TypeOK, ScreenInv
  <2> QED BY <1>1, <1>4, <2>1, <2>2, HarnessKept
<1>5. CASE UNCHANGED vars
  <2>1. ScreenInv'
    BY <1>5
       DEF vars, screenVars, roleVars, radioVars, runVars, ScreenInv, ScreenTypeOK, CursorOnARow,
           SelectionOnARow, DialogsHaveTheirScreen, RolesFit, SessionFits, ScreensAtRest, Row
  <2>2. TypeOK'
    BY <1>5, <2>1, Zenon DEF vars, benchVars, TypeOK, ScreenInv
  <2>3. HarnessInv'
    BY <1>5 DEF vars, benchVars, HarnessInv
  <2>4. DisplayInv'
    <3>1. Unseen' = Unseen /\ Picture' = Picture /\ Hand' = Hand
      BY <1>5, Zenon
         DEF vars, screenVars, roleVars, radioVars, runVars, Unseen, Picture, View, Frame, Hand, Asking,
             ConfirmFrame, ScanFrame, PeerFrame, BoxesFrame, ConnectionFrame
    <3>2. UNCHANGED <<display, pending>>
      BY <1>5 DEF vars, screenVars
    <3> QED BY <3>1, <3>2 DEF DisplayInv
  <2> QED BY <2>1, <2>2, <2>3, <2>4
<1> QED BY <1>2, <1>3, <1>4, <1>5, Zenon DEF Next

\* Whatever is done on the screens, over the radio and to the power.
THEOREM Invariance == Spec => []IInv
BY InitIInv, StepIInv, PTL DEF Spec

\* The types of the screens, the roles, the tables and the clocks.
THEOREM TypeCorrect == Spec => []TypeOK
<1>1. IInv => TypeOK
  BY DEF IInv
<1> QED BY <1>1, Invariance, PTL

-----------------------------------------------------------------------------
(* The screens.                                                            *)

LEMMA CursorDrawn == IInv => CursorIsDrawn
<1> SUFFICES ASSUME IInv, mode = "multi" PROVE CursorIsDrawn
  BY DEF CursorIsDrawn
<1>1. CASE Unseen
  BY <1>1 DEF IInv, DisplayInv, CursorIsDrawn, Unseen
<1>2. CASE ~Unseen
  <2>1. display.frame = Frame /\ state # "CONFIRM_DISRUPT"
    BY <1>2 DEF IInv, DisplayInv, Picture, Unseen
  <2>2. state = "EDITING" => ShownAs(Row) = "value"
    BY DEF IInv, ScreenInv, CursorOnARow, ShownAs, Identity, Values
  <2> QED BY <1>2, <2>1, <2>2, HandDrawn DEF IInv, CursorIsDrawn
<1> QED BY <1>1, <1>2

LEMMA SessionTold == IInv => SessionIsTold
BY DEF IInv, ScreenInv, ScreenTypeOK, Roles, SessionFits, SessionIsTold, RoleStatus

\* MultiBox's screens: for every number of boxes, every room on the screen, and
\* whatever a scan, a claim of the MAIN role or a packet changes under the
\* user, there is a row under the cursor, it is drawn as what a press will do
\* to it, dialogs stand on their screen, and the status line tells the session.
THEOREM ScreenStaysConsistent == Spec => []ScreenIsConsistent
<1>1. IInv => ScreenIsConsistent
  BY CursorDrawn, SessionTold DEF IInv, ScreenInv, ScreenIsConsistent
<1> QED BY <1>1, Invariance, PTL

-----------------------------------------------------------------------------
(* What the harness promises.                                              *)

\* DevMode::update(): for every interval, no cycle of the harness's own begins
\* before a whole one has passed.
THEOREM IntervalIsWaited == Spec => FullIntervalFirst
<1> DEFINE Fine == mode = "dev" /\ ~inFlight /\ inFlight' => rested = Interval
<1>1. ASSUME IInv, Next PROVE Fine
  <2> USE DEF IInv
  <2>1. CASE Lap
    <3>1. ~inFlight /\ inFlight' => sinceCycle >= Interval
      BY <1>1, <2>1, LapFacts
    <3>2. rested = sinceCycle /\ sinceCycle \in 0 .. Interval /\ Interval \in Nat
      BY <1>1, BenchAssumption DEF HarnessInv, TypeOK
    <3> QED BY <3>1, <3>2
  <2>2. CASE ~Lap
    <3>1. mode = "dev" => ~EnterBench
      BY DEF EnterBench
    <3>2. UNCHANGED inFlight \/ inFlight' = FALSE
      BY <1>1, <2>2, Zenon
         DEF Next, BenchNext, benchVars, EnterBench, Teardown, Closed, Tick, Start, Stop, OpenPage,
             EditRow, ToggleShootMode, RequestExit, HoldBack
    <3> QED BY <3>2
  <2> QED BY <2>1, <2>2
<1>2. IInv /\ [Next]_vars => [Fine]_vars
  BY <1>1
<1> QED BY <1>2, Invariance, PTL DEF Spec, FullIntervalFirst

\* DevMode's teardown(): the role found in flash is in flash again, whatever the
\* session saved, if the node manager had read it.
THEOREM RoleComesBack == Spec => RoleIsGivenBack
<1> DEFINE Fine == mode = "dev" /\ mode' = "menu" /\ warm => nvsRole' = before
<1>1. ASSUME IInv, Next, mode = "dev", mode' = "menu" PROVE Teardown
  <2>1. CASE ScreenNext
    BY <1>1, <2>1
       DEF ScreenNext, EnterMultiBox, LongPressOnTop, AnswerExit, RotateDialog, RotateList,
           RotateRole, OpenConnection, PressEditing, PressScanning, PressPeer, AnswerDisrupt,
           PressValueRow, PressPair, PressNodes, PressBack, LongPress, OnDiscovered,
           ScanWindowEnds, AutoClaimMain, SessionMoves, SaveAll, PowerOn, Reading, Pressing
  <2>2. CASE PowerCut
    BY <1>1, <2>2 DEF PowerCut
  <2>3. CASE BenchNext
    BY <1>1, <2>3
       DEF BenchNext, EnterBench, Lap, Tick, Start, Stop, OpenPage, EditRow, ToggleShootMode,
           RequestExit, HoldBack, Quiet
  <2> QED BY <1>1, <2>1, <2>2, <2>3 DEF Next
<1>2. ASSUME IInv, Next PROVE Fine
  BY <1>1, <1>2 DEF IInv, HarnessInv, Teardown, GivenBack
<1>3. IInv /\ [Next]_vars => [Fine]_vars
  BY <1>2
<1> QED BY <1>3, Invariance, PTL DEF Spec, RoleIsGivenBack

=============================================================================
