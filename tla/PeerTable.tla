------------------------------ MODULE PeerTable ------------------------------
(***************************************************************************)
(* NodeManager of one box in MULTI BOX mode: the table of paired boxes, its*)
(* copy in flash, the addresses registered with ESP-NOW, which of the peers*)
(* count as linked, and the warning about two boxes with one node id.      *)
(*                                                                         *)
(* Node ids are set by hand on every box, so a packet of a box carries any *)
(* id; its address is fixed.  An entry is found by id or by address, and   *)
(* the two ways need not agree: this is what the properties are about.     *)
(* Roles are left out: they decide nothing here but which box rivals this  *)
(* one, and writing a changed role to flash writes the same names again.   *)
(***************************************************************************)
EXTENDS Integers, Sequences

CONSTANTS
  Macs,            \* addresses of the other boxes
  NoMac,           \* not an address
  Ids,             \* node ids users choose
  SelfId,          \* this box's node id
  MaxPeers,        \* MB_MAX_PEERS (8 in the code)
  LinkTime,        \* ticks of silence until a peer reads DISCONNECTED (7 s)
  ClashTime        \* ticks a warning stays on the screen (10 s)

ASSUME PeerAssumption ==
  /\ NoMac \notin Macs
  /\ SelfId \in Ids
  /\ MaxPeers \in Nat \ {0}
  /\ LinkTime \in Nat /\ ClashTime \in Nat
  /\ LinkTime < ClashTime

VARIABLES
  table,           \* _peers[0 .. _peerCount - 1]
  registered,      \* addresses esp_now_add_peer() knows
  flash,           \* KEY_PEER_CNT and KEY_PEERS in flash, two separate writes
  clash,           \* time since the last conflict was noted, saturating
  heard,           \* history: time since each box was heard, saturating
  twins            \* history: addresses two entries had at once since begin()

tableVars == <<table, registered, flash, clash, heard, twins>>

Peers == [id : Ids, mac : Macs,
          age : 0..(LinkTime + 1),       \* since lastSeen; LinkTime + 1: not connected
          seqOf : Macs \cup {NoMac},     \* the box lastSeq came from; NoMac: ~haveSeq
          moved : BOOLEAN]               \* history: re-addressed and not heard of since
Kept  == [id : Ids, mac : Macs]

FlashStates == {f \in [count : 0..MaxPeers, peers : Seq(Kept)] : Len(f.peers) <= MaxPeers}

TableTypeOK ==
  /\ table \in Seq(Peers) /\ Len(table) <= MaxPeers
  /\ registered \subseteq Macs
  /\ flash \in FlashStates
  /\ clash \in 0..(ClashTime + 1)
  /\ heard \in [Macs -> 0..(LinkTime + 1)]
  /\ twins \subseteq Macs

Lapsed   == LinkTime + 1
Linked(p) == p.age <= LinkTime
Clashing == clash <= ClashTime

Entries(t) == DOMAIN t

\* findByMac() and findByNodeId(): the first match, as a set of at most one.
FindByMac(m) ==
  {i \in Entries(table) : table[i].mac = m /\ \A j \in 1..(i - 1) : table[j].mac # m}

FindByNodeId(n) ==
  {i \in Entries(table) : table[i].id = n /\ \A j \in 1..(i - 1) : table[j].id # n}

Record(p) == [id |-> p.id, mac |-> p.mac]
Names(t)  == [i \in Entries(t) |-> Record(t[i])]

Without(t, i) == [j \in 1..(Len(t) - 1) |-> t[IF j < i THEN j ELSE j + 1]]

Shared(t) == {m \in Macs : \E i, j \in Entries(t) : i # j /\ t[i].mac = m /\ t[j].mac = m}

TableInit ==
  /\ table = <<>> /\ registered = {}
  /\ flash = [count |-> 0, peers |-> <<>>]
  /\ clash = ClashTime + 1
  /\ heard = [m \in Macs |-> Lapsed]
  /\ twins = {}

-----------------------------------------------------------------------------
(* Flash.                                                                  *)

\* saveAll(): the count, then the entries.  Preferences refuses a value of no
\* bytes, so the list of a table that has become empty stays as it was.
SaveAll(t) ==
  flash' = [count |-> Len(t),
            peers |-> IF t = <<>> THEN flash.peers ELSE Names(t)]

Smaller(a, b) == IF a <= b THEN a ELSE b

\* begin(): the shorter of count and list.
Loaded(f) ==
  [i \in 1..Smaller(f.count, Len(f.peers)) |->
     [id |-> f.peers[i].id, mac |-> f.peers[i].mac,
      age |-> Lapsed, seqOf |-> NoMac, moved |-> FALSE]]

\* Mutation of Begin: the stored peers are not registered again.
BeginUnregistered(f) ==
  /\ flash' = f
  /\ table' = Loaded(f)
  /\ registered' = {}
  /\ twins' = Shared(Loaded(f))
  /\ clash' \in {clash, ClashTime + 1}
  /\ UNCHANGED heard

\* begin() with `f' in flash: the radio starts with no peers of its own, the
\* warning is RAM of the firmware and outlives the mode, not a power cut.
Begin(f) ==
  /\ flash' = f
  /\ table' = Loaded(f)
  /\ registered' = {Loaded(f)[i].mac : i \in DOMAIN Loaded(f)}
  /\ twins' = Shared(Loaded(f))
  /\ clash' \in {clash, ClashTime + 1}
  /\ UNCHANGED heard

\* The mode is left and entered again, or the box was switched off.
Restart == Begin(flash)

\* Power fails inside saveAll(): the count of the new table `t' is in flash, the
\* list is the old one, and the box wakes with what the two make together.
TornSave(t) == Begin([flash EXCEPT !.count = Len(t)])

-----------------------------------------------------------------------------
(* Pairing, from the CONNECTION screen.                                    *)

\* Mutation of AddOrUpdate: the search by address comes first.
AddByMacFirst(n, m) ==
  LET found == IF FindByMac(m) # {} THEN FindByMac(m) ELSE FindByNodeId(n) IN
  IF found # {}
  THEN [i \in Entries(table) |->
          IF i \in found
          THEN [table[i] EXCEPT !.mac = m, !.id = n, !.moved = @ \/ table[i].mac # m]
          ELSE table[i]]
  ELSE Append(table, [id |-> n, mac |-> m, age |-> Lapsed,
                      seqOf |-> NoMac, moved |-> FALSE])

\* addOrUpdatePeer(): by id, else by address; the id of an entry found by
\* address stays, and so does everything learned of the box it named before.
AddOrUpdate(n, m) ==
  LET found == IF FindByNodeId(n) # {} THEN FindByNodeId(n) ELSE FindByMac(m) IN
  IF found # {}
  THEN [i \in Entries(table) |->
          IF i \in found
          THEN [table[i] EXCEPT !.mac = m, !.moved = @ \/ table[i].mac # m]
          ELSE table[i]]
  ELSE Append(table, [id |-> n, mac |-> m, age |-> Lapsed,
                      seqOf |-> NoMac, moved |-> FALSE])

\* A full table refuses a box it does not know; saveAll() runs all the same.
Full(n, m) == FindByNodeId(n) = {} /\ FindByMac(m) = {} /\ Len(table) >= MaxPeers

\* The candidate picked from the last scan's list, however old that list is.
Pair(n, m) ==
  /\ ~Full(n, m)
  /\ LET t == AddOrUpdate(n, m) IN
     \/ /\ table' = t /\ SaveAll(t)
        /\ registered' = registered \cup {m}
        /\ twins' = twins \cup Shared(t)
        /\ UNCHANGED <<clash, heard>>
     \/ TornSave(t)

\* Mutation of Forget: flash keeps the entry.
ForgetInRam(i) ==
  /\ table' = Without(table, i)
  /\ registered' = registered \ {table[i].mac}
  /\ UNCHANGED <<flash, clash, heard, twins>>

\* removePeer() of the entry at the cursor, and saveAll(): its address is
\* unregistered even if another entry has it too.
Forget(i) ==
  LET t == Without(table, i) IN
  \/ /\ table' = t /\ SaveAll(t)
     /\ registered' = registered \ {table[i].mac}
     /\ UNCHANGED <<clash, heard, twins>>
  \/ TornSave(t)

RemovePeer == \E i \in Entries(table) : Forget(i)

-----------------------------------------------------------------------------
(* Packets of the box with address `m' and id `n'.                         *)

\* nodeIdClashes().
Clashes(n, m) == n = SelfId \/ \E i \in Entries(table) : table[i].id = n /\ table[i].mac # m

\* Mutation of Noted: only this box's own id is looked at.
NotedOwnId(n, m, rival) == clash' = IF n = SelfId \/ rival THEN 0 ELSE clash

\* noteConflict(), also for a `rival', a second MAIN or START; whichever comes
\* last is the one shown.
Noted(n, m, rival) == clash' = IF Clashes(n, m) \/ rival THEN 0 ELSE clash

Heard(m) == heard' = [heard EXCEPT ![m] = 0]

\* refreshPeerRole() and, for a PONG, markSeen(): the first by address, the
\* second by the id in the packet.
Refreshed(m, seen) ==
  [i \in Entries(table) |->
     IF i \in FindByMac(m) THEN [table[i] EXCEPT !.age = 0, !.moved = FALSE]
     ELSE IF i \in seen THEN [table[i] EXCEPT !.age = 0] ELSE table[i]]

OnIdentity(m, n, rival, seen) ==
  /\ table' = Refreshed(m, seen)
  /\ Noted(n, m, rival)
  /\ Heard(m)
  /\ UNCHANGED <<registered, flash, twins>>

\* PING, HELLO, HELLO_ACK.
OnPing(m, n, rival) == OnIdentity(m, n, rival, {})
OnPong(m, n, rival) == OnIdentity(m, n, rival, FindByNodeId(n))

\* acceptSequence() of a session packet that is newer than lastSeq.
OnSession(m) ==
  /\ FindByMac(m) # {}
  /\ table' = [i \in Entries(table) |->
                 IF i \in FindByMac(m)
                 THEN [table[i] EXCEPT !.seqOf = m, !.age = 0, !.moved = FALSE]
                 ELSE table[i]]
  /\ Heard(m)
  /\ UNCHANGED <<registered, flash, clash, twins>>

-----------------------------------------------------------------------------
(* Time.                                                                   *)

Older(x, limit) == IF x > limit THEN x ELSE x + 1

Aged == [i \in Entries(table) |-> [table[i] EXCEPT !.age = Older(@, LinkTime)]]

\* tick(): silent peers stop being connected, the warning expires.
Tick ==
  /\ table' = Aged
  /\ clash' = Older(clash, ClashTime)
  /\ heard' = [m \in Macs |-> Older(heard[m], LinkTime)]
  /\ UNCHANGED <<registered, flash, twins>>

TableNext ==
  \/ \E n \in Ids, m \in Macs : Pair(n, m)
  \/ RemovePeer
  \/ \E m \in Macs, n \in Ids, rival \in BOOLEAN : OnPing(m, n, rival) \/ OnPong(m, n, rival)
  \/ \E m \in Macs : OnSession(m)
  \/ Tick
  \/ Restart

TableSpec == TableInit /\ [][TableNext]_tableVars

-----------------------------------------------------------------------------
(* Properties.                                                             *)

UniqueIds(t) == \A i, j \in DOMAIN t : t[i].id = t[j].id => i = j

\* A node id names one entry, whatever is paired, removed or re-addressed and
\* wherever the power fails: removePeer() and markSeen(), which search by id,
\* reach the box the user sees under that number.
OneEntryPerId == UniqueIds(table)

\* "a box that lost power still read LINKED": a peer reads LINKED only if its
\* own box was heard within the timeout, although a PONG is credited by the id
\* it carries; otherwise the screen warns of the clash of ids, or the entry was
\* given another box's address meanwhile.
LinkedIsAlive ==
  \A i \in Entries(table) :
    Linked(table[i]) => heard[table[i].mac] <= LinkTime \/ Clashing \/ table[i].moved

\* Every paired box can be sent to: its address is registered with ESP-NOW,
\* unless an entry that shared it was removed.
PairedIsReachable == \A i \in Entries(table) : table[i].mac \in registered \cup twins

\* Who is paired changes only with flash: leaving the mode, a power cut between
\* two saves, packets and silence change nobody's number or address.  A pairing,
\* whole or cut short by the power, takes nobody's place in the list and no
\* number from it; a removal takes exactly one entry out and leaves the others
\* in order.  Which one is the user's choice only if saveAll() ran to its end:
\* the count is written before the list, so a cut between the two takes the
\* last entry instead and the one chosen is paired again.
PairedSurvive ==
  [][/\ flash' = flash => Names(table') = Names(table)
     /\ \/ /\ Entries(table) \subseteq Entries(table')
           /\ \A i \in Entries(table) : table'[i].id = table[i].id
        \/ \E i \in Entries(table) : Names(table') = Without(Names(table), i)]_tableVars

=============================================================================
