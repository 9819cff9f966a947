-------------------------- MODULE GatewayDB_proofs --------------------------
(***************************************************************************)
(* Proofs about the gateway database, for every set of addresses and ids,  *)
(* every mask and any number of insertions below 2^16.                     *)
(***************************************************************************)
EXTENDS GatewayDB, SeqFilter_proofs, FiniteSetTheorems

(* Rows as the functions write them. *)
ThingRow(t, r) ==
    /\ r = [idx |-> r.idx, key |-> r.key, ver |-> r.ver, report |-> r.report]
    /\ r.idx \in 1 .. seq[t]
    /\ r.ver \in [ColumnSet(t) -> 0 .. clock]
LinkRow(t, l) ==
    /\ l = [idx |-> l.idx, a |-> l.a, b |-> l.b, for |-> l.for]
    /\ l.for = <<l.for[1], l.for[2]>>
    /\ l.idx \in 1 .. seq[t]

(* n is a row number that was given out in table t and names the key k, or
   nothing any more. *)
Names(t, n, k) == n \in 1 .. seq[t] /\ \A r \in db[t] : r.idx = n => r.key = k

Shapes == /\ db = [t \in Tables |-> db[t]]
          /\ seq \in [Tables -> 0 .. IndexMod - 1]
          /\ given = [t \in Things |-> given[t]]
          /\ clock \in 0 .. MaxUpdates
ThingsInv == \A t \in Things : \A r \in db[t] :
                 ThingRow(t, r) /\ \A s \in db[t] : (r.key = s.key \/ r.idx = s.idx) => r = s
LinksInv == \A t \in Links : \A l \in db[t] :
                /\ LinkRow(t, l)
                /\ Names(EndA[t], l.a, l.for[1])
                /\ Names(EndB[t], l.b, l.for[2])
(* The pairs of key and number that callers hold. *)
GivenInv == \A t \in Things : \A g \in given[t] : Names(t, g[2], g[1])

DBInv == Shapes /\ ThingsInv /\ LinksInv /\ GivenInv

-----------------------------------------------------------------------------
(* Tables and numbers *)

LEMMA Ends ==
    ASSUME NEW t \in Links
    PROVE  EndA[t] \in Things /\ EndB[t] \in Things
  <1>1. CASE t = "SceneDevice"
    BY <1>1 DEF EndA, EndB, Things
  <1>2. CASE t = "ProfileList"
    BY <1>2 DEF EndA, EndB, Things
  <1>3. CASE t = "RoomList"
    BY <1>3 DEF EndA, EndB, Things
  <1> QED
    BY <1>1, <1>2, <1>3 DEF Links

LEMMA Disjoint ==
    /\ Things \subseteq Tables /\ Links \subseteq Tables
    /\ \A t \in Things : t \notin Links
  BY DEF Things, Links, Tables

\* A row number below 2^16 is its own Index.
LEMMA IndexIsNumber ==
    ASSUME Shapes, NEW t \in Tables, NEW n \in 1 .. seq[t]
    PROVE  Index(n) = n
  <1>1. n \in Nat /\ n < IndexMod /\ IndexMod \in Nat
    BY IndexAssumption DEF Shapes
  <1> QED
    BY <1>1 DEF Index

\* An insertion below the bound gives out a number that is new and below 2^16.
LEMMA NewNumber ==
    ASSUME Shapes, Inserted < MaxInserts, NEW t \in Tables
    PROVE  NextRow(t) \in 1 .. IndexMod - 1 /\ NextRow(t) > seq[t] /\ seq[t] \in Nat
  <1>1. \A u \in Tables : seq[u] \in Nat
    BY DEF Shapes
  <1>2. seq[t] <= Inserted
    BY <1>1 DEF Inserted, Tables, Things, Links
  <1>3. Inserted \in Nat
    BY <1>1 DEF Inserted, Tables, Things, Links
  <1> QED
    BY <1>1, <1>2, <1>3, IndexAssumption DEF NextRow

-----------------------------------------------------------------------------
(* Steps, by what they do to the tables *)

LEMMA InvInit == Init => DBInv
  <1> SUFFICES ASSUME Init PROVE DBInv
    OBVIOUS
  <1>1. Len(ShippedRooms) \in 0 .. IndexMod - 1 /\ 0 \in 0 .. IndexMod - 1
    BY RoomAssumption, IndexAssumption
  <1>2. Shapes
    <2>1. seq \in [Tables -> 0 .. IndexMod - 1]
      BY <1>1 DEF Init
    <2> QED
      BY <2>1, MaskAssumption DEF Init, Shapes
  <1>3. \A t \in Tables : db[t] = IF t = "Room" THEN {NewRow("Room", n, ShippedRooms[n]) : n \in DOMAIN ShippedRooms}
                                  ELSE {}
    BY DEF Init
  <1>4. \A n \in DOMAIN ShippedRooms :
          LET r == NewRow("Room", n, ShippedRooms[n])
          IN  ThingRow("Room", r) /\ r.idx = n /\ r.key = ShippedRooms[n]
    <2>1. seq["Room"] = Len(ShippedRooms) /\ clock = 0
      BY DEF Init, Tables, Things
    <2>2. DOMAIN ShippedRooms = 1 .. Len(ShippedRooms)
      BY RoomAssumption
    <2> QED
      BY <2>1, <2>2 DEF NewRow, ThingRow
  <1>5. ThingsInv
    <2> SUFFICES ASSUME NEW t \in Things, NEW r \in db[t]
                 PROVE  ThingRow(t, r) /\ \A s \in db[t] : (r.key = s.key \/ r.idx = s.idx) => r = s
      BY DEF ThingsInv
    <2>1. /\ t = "Room"
          /\ \A s \in db[t] : \E n \in DOMAIN ShippedRooms : s = NewRow("Room", n, ShippedRooms[n])
      BY <1>3, Disjoint
    <2>2. PICK n \in DOMAIN ShippedRooms : r = NewRow("Room", n, ShippedRooms[n])
      BY <2>1
    <2>3. ThingRow(t, r) /\ r.idx = n /\ r.key = ShippedRooms[n]
      BY <1>4, <2>1, <2>2
    <2>4. ASSUME NEW s \in db[t], r.key = s.key \/ r.idx = s.idx PROVE r = s
      <3>1. PICK m \in DOMAIN ShippedRooms : s = NewRow("Room", m, ShippedRooms[m])
        BY <2>1
      <3>2. s.idx = m /\ s.key = ShippedRooms[m]
        BY <1>4, <3>1
      <3>3. m = n
        BY <2>3, <2>4, <3>2, RoomAssumption
      <3> QED
        BY <2>2, <3>1, <3>3
    <2> QED
      BY <2>3, <2>4
  <1>6. LinksInv
    BY <1>3, Disjoint DEF LinksInv, Things, Links
  <1>7. GivenInv
    <2> SUFFICES ASSUME NEW t \in Things, NEW g \in given[t] PROVE Names(t, g[2], g[1])
      BY DEF GivenInv
    <2>1. PICK r \in db[t] : g = <<r.key, Index(r.idx)>>
      BY DEF Init
    <2>2. r.idx \in 1 .. seq[t] /\ \A s \in db[t] : s.idx = r.idx => s = r
      BY <1>5 DEF ThingsInv, ThingRow
    <2>3. Index(r.idx) = r.idx
      BY <1>2, <2>2, IndexIsNumber, Disjoint
    <2> QED
      BY <2>1, <2>2, <2>3 DEF Names
  <1> QED
    BY <1>2, <1>5, <1>6, <1>7 DEF DBInv

\* The rows new are those of db[t], some deleted, some with new column values.
SameNames(t, new) ==
    /\ \A r \in new : /\ r = [idx |-> r.idx, key |-> r.key, ver |-> r.ver, report |-> r.report]
                      /\ r.ver \in [ColumnSet(t) -> 0 .. clock']
                      /\ \E old \in db[t] : old.idx = r.idx /\ old.key = r.key
    /\ \A r, s \in new : r.key = s.key \/ r.idx = s.idx => r = s

\* Rows of a table of things are deleted or get new column values: numbers keep
\* their keys, so nothing that names one is affected.
LEMMA ThingStep ==
    ASSUME DBInv, NEW t \in Things, NEW new,
           db' = [db EXCEPT ![t] = new], seq' = seq, given' = given,
           clock' \in 0 .. MaxUpdates, clock' >= clock, SameNames(t, new)
    PROVE  DBInv'
  <1>1. Shapes'
    BY DEF DBInv, Shapes
  <1>2. \A u \in Tables : db'[u] = IF u = t THEN new ELSE db[u]
    BY DEF DBInv, Shapes
  <1>3. \A u \in Tables : \A r \in db'[u] : u \in Things => \E old \in db[u] : old.idx = r.idx /\ old.key = r.key
    BY <1>2 DEF SameNames
  <1>4. ASSUME NEW u \in Things, NEW n, NEW k, Names(u, n, k) PROVE Names(u, n, k)'
    BY <1>3, <1>4, Disjoint DEF Names
  <1>5. ThingsInv'
    <2> SUFFICES ASSUME NEW u \in Things, NEW r \in db'[u]
                 PROVE  /\ ThingRow(u, r)'
                        /\ \A s \in db'[u] : (r.key = s.key \/ r.idx = s.idx) => r = s
      BY DEF ThingsInv
    <2>1. CASE u = t
      <3>1. r.idx \in 1 .. seq[t]
        BY <1>2, <2>1, Disjoint DEF DBInv, ThingsInv, ThingRow, SameNames
      <3>2. db'[u] = new
        BY <1>2, <2>1, Disjoint
      <3> QED
        BY <2>1, <3>1, <3>2 DEF ThingRow, SameNames
    <2>2. CASE u # t
      <3>1. db'[u] = db[u]
        BY <1>2, <2>2, Disjoint
      <3>2. ThingRow(u, r) /\ \A s \in db[u] : (r.key = s.key \/ r.idx = s.idx) => r = s
        BY <3>1 DEF DBInv, ThingsInv
      <3>3. 0 .. clock \subseteq 0 .. clock'
        BY DEF DBInv, Shapes
      <3>4. ThingRow(u, r)'
        BY <3>2, <3>3 DEF ThingRow
      <3> QED
        BY <3>1, <3>2, <3>4
    <2> QED
      BY <2>1, <2>2
  <1>6. LinksInv'
    <2> SUFFICES ASSUME NEW u \in Links, NEW l \in db'[u]
                 PROVE  LinkRow(u, l)' /\ Names(EndA[u], l.a, l.for[1])' /\ Names(EndB[u], l.b, l.for[2])'
      BY DEF LinksInv
    <2>1. l \in db[u]
      BY <1>2, Disjoint
    <2>2. LinkRow(u, l) /\ Names(EndA[u], l.a, l.for[1]) /\ Names(EndB[u], l.b, l.for[2])
      BY <2>1 DEF DBInv, LinksInv
    <2> QED
      BY <1>4, <2>2, Ends DEF LinkRow
  <1>7. GivenInv'
    BY <1>4 DEF DBInv, GivenInv
  <1> QED
    BY <1>1, <1>5, <1>6, <1>7 DEF DBInv

\* A row with a new number is inserted: nothing names that number yet.
LEMMA InsertStep ==
    ASSUME DBInv, NEW t \in Things, NEW k, Insert(t, k)
    PROVE  DBInv'
  <1> DEFINE n == NextRow(t)
             row == NewRow(t, n, k)
  <1>1. n \in 1 .. IndexMod - 1 /\ n > seq[t] /\ seq[t] \in Nat
    BY NewNumber, Disjoint DEF DBInv, Insert
  <1> HIDE DEF n
  <1>2. /\ k \notin Keys(t) /\ clock' = clock
        /\ db' = [db EXCEPT ![t] = @ \cup {row}]
        /\ given' = [given EXCEPT ![t] = @ \cup {<<k, Index(n)>>}]
        /\ seq' = [seq EXCEPT ![t] = n]
    BY DEF Insert, n
  <1>3. Shapes'
    <2>1. seq' \in [Tables -> 0 .. IndexMod - 1]
      <3>1. n \in 0 .. IndexMod - 1
        BY <1>1, IndexAssumption
      <3>2. seq \in [Tables -> 0 .. IndexMod - 1]
        BY DEF DBInv, Shapes
      <3> QED
        BY <1>2, <3>1, <3>2
    <2> QED
      BY <1>2, <2>1 DEF DBInv, Shapes
  <1>4. /\ \A u \in Tables : db'[u] = IF u = t THEN db[t] \cup {row} ELSE db[u]
        /\ \A u \in Tables : seq'[u] = IF u = t THEN n ELSE seq[u]
        /\ \A u \in Things : given'[u] = IF u = t THEN given[t] \cup {<<k, Index(n)>>} ELSE given[u]
    BY <1>2, Disjoint DEF DBInv, Shapes
  <1>5. /\ row.idx = n /\ row.key = k
        /\ row = [idx |-> row.idx, key |-> row.key, ver |-> row.ver, report |-> row.report]
        /\ row.ver \in [ColumnSet(t) -> 0 .. clock]
    BY DEF NewRow, DBInv, Shapes
  <1> HIDE DEF row
  <1>6. \A u \in Tables : 1 .. seq[u] \subseteq 1 .. seq'[u]
    BY <1>1, <1>4 DEF DBInv, Shapes
  <1>7. ASSUME NEW u \in Things, NEW m, NEW l, Names(u, m, l) PROVE Names(u, m, l)'
    <2>1. m \in 1 .. seq'[u]
      BY <1>6, <1>7, Disjoint DEF Names
    <2>2. \A r \in db'[u] : r.idx = m => r.key = l
      BY <1>1, <1>4, <1>5, <1>7, Disjoint DEF Names
    <2> QED
      BY <2>1, <2>2 DEF Names
  <1>8. \A r \in db[t] : r.idx # n /\ r.key # k
    BY <1>1, <1>2 DEF DBInv, ThingsInv, ThingRow, Keys
  <1>9. ThingsInv'
    <2> SUFFICES ASSUME NEW u \in Things, NEW r \in db'[u]
                 PROVE  /\ ThingRow(u, r)'
                        /\ \A s \in db'[u] : (r.key = s.key \/ r.idx = s.idx) => r = s
      BY DEF ThingsInv
    <2>1. \A s \in db[u] : ThingRow(u, s) /\ \A q \in db[u] : (s.key = q.key \/ s.idx = q.idx) => s = q
      BY DEF DBInv, ThingsInv
    <2>2. ThingRow(u, r)'
      <3>1. CASE r \in db[u]
        BY <1>2, <1>6, <2>1, <3>1, Disjoint DEF ThingRow
      <3>2. CASE r \notin db[u]
        <4>1. u = t /\ r = row
          BY <1>4, <3>2, Disjoint
        <4>2. n \in 1 .. seq'[u]
          BY <1>1, <1>4, <4>1, Disjoint
        <4> QED
          BY <1>2, <1>5, <4>1, <4>2 DEF ThingRow
      <3> QED
        BY <3>1, <3>2
    <2>3. \A s \in db'[u] : (r.key = s.key \/ r.idx = s.idx) => r = s
      BY <1>4, <1>5, <1>8, <2>1, Disjoint
    <2> QED
      BY <2>2, <2>3
  <1>10. LinksInv'
    <2> SUFFICES ASSUME NEW u \in Links, NEW l \in db'[u]
                 PROVE  LinkRow(u, l)' /\ Names(EndA[u], l.a, l.for[1])' /\ Names(EndB[u], l.b, l.for[2])'
      BY DEF LinksInv
    <2>1. l \in db[u]
      BY <1>4, Disjoint
    <2>2. LinkRow(u, l) /\ Names(EndA[u], l.a, l.for[1]) /\ Names(EndB[u], l.b, l.for[2])
      BY <2>1 DEF DBInv, LinksInv
    <2>3. LinkRow(u, l)'
      BY <1>6, <2>2, Disjoint DEF LinkRow
    <2> QED
      BY <1>7, <2>2, <2>3, Ends
  <1>11. GivenInv'
    <2> SUFFICES ASSUME NEW u \in Things, NEW g \in given'[u] PROVE Names(u, g[2], g[1])'
      BY DEF GivenInv
    <2>1. CASE g \in given[u]
      BY <1>7, <2>1 DEF DBInv, GivenInv
    <2>2. CASE g \notin given[u]
      <3>1. u = t /\ g = <<k, Index(n)>>
        BY <1>4, <2>2
      <3>2. Index(n) = n
        BY <1>1, IndexAssumption DEF Index
      <3>3. n \in 1 .. seq'[u]
        BY <1>1, <1>4, <3>1, Disjoint
      <3>4. \A r \in db'[u] : r.idx = n => r.key = k
        BY <1>4, <1>5, <1>8, <3>1, Disjoint
      <3> QED
        BY <3>1, <3>2, <3>3, <3>4 DEF Names
    <2> QED
      BY <2>1, <2>2
  <1> QED
    BY <1>3, <1>9, <1>10, <1>11 DEF DBInv

\* A table of links gets other rows, whose ends are named rightly.
LEMMA LinkStep ==
    ASSUME DBInv, NEW t \in Links, NEW new,
           db' = [db EXCEPT ![t] = new], given' = given, clock' = clock,
           seq' \in [Tables -> 0 .. IndexMod - 1],
           \A u \in Tables : u # t => seq'[u] = seq[u],
           seq[t] <= seq'[t],
           \A l \in new : /\ LinkRow(t, l)'
                          /\ Names(EndA[t], l.a, l.for[1]) /\ Names(EndB[t], l.b, l.for[2])
    PROVE  DBInv'
  <1>1. Shapes'
    BY DEF DBInv, Shapes
  <1>2. \A u \in Tables : db'[u] = IF u = t THEN new ELSE db[u]
    BY DEF DBInv, Shapes
  <1>3. \A u \in Things : db'[u] = db[u] /\ seq'[u] = seq[u]
    BY <1>2, Disjoint
  <1>4. ASSUME NEW u \in Things, NEW n, NEW k, Names(u, n, k) PROVE Names(u, n, k)'
    BY <1>3, <1>4 DEF Names
  <1>5. ThingsInv'
    BY <1>3 DEF DBInv, ThingsInv, ThingRow
  <1>6. LinksInv'
    <2> SUFFICES ASSUME NEW u \in Links, NEW l \in db'[u]
                 PROVE  LinkRow(u, l)' /\ Names(EndA[u], l.a, l.for[1])' /\ Names(EndB[u], l.b, l.for[2])'
      BY DEF LinksInv
    <2>1. /\ LinkRow(u, l)'
          /\ Names(EndA[u], l.a, l.for[1]) /\ Names(EndB[u], l.b, l.for[2])
      <3>1. CASE u = t
        BY <1>2, <3>1, Disjoint
      <3>2. CASE u # t
        <4>1. l \in db[u] /\ seq'[u] = seq[u]
          BY <1>2, <3>2, Disjoint
        <4> QED
          BY <4>1 DEF DBInv, LinksInv, LinkRow
      <3> QED
        BY <3>1, <3>2
    <2> QED
      BY <1>4, <2>1, Ends
  <1>7. GivenInv'
    BY <1>4 DEF DBInv, GivenInv
  <1> QED
    BY <1>1, <1>5, <1>6, <1>7 DEF DBInv

LEMMA DeleteStep ==
    ASSUME DBInv, NEW t \in Tables, NEW gone, DeleteRows(t, gone)
    PROVE  DBInv'
  <1>1. db' = [db EXCEPT ![t] = db[t] \ gone] /\ seq' = seq /\ given' = given /\ clock' = clock
    BY DEF DeleteRows
  <1>2. CASE t \in Things
    <2>1. \A r \in db[t] : /\ r = [idx |-> r.idx, key |-> r.key, ver |-> r.ver, report |-> r.report]
                           /\ r.ver \in [ColumnSet(t) -> 0 .. clock']
                           /\ \A s \in db[t] : r.key = s.key \/ r.idx = s.idx => r = s
      BY <1>1, <1>2 DEF DBInv, ThingsInv, ThingRow
    <2>2. clock' \in 0 .. MaxUpdates /\ clock' >= clock
      BY <1>1, MaskAssumption DEF DBInv, Shapes
    <2> DEFINE new == db[t] \ gone
    <2>3. SameNames(t, new)
      BY <2>1 DEF SameNames
    <2>4. db' = [db EXCEPT ![t] = new]
      BY <1>1
    <2> HIDE DEF new
    <2> QED
      BY <1>1, <1>2, <2>2, <2>3, <2>4, ThingStep
  <1>3. CASE t \in Links
    <2>1. \A l \in db[t] : /\ LinkRow(t, l)'
                           /\ Names(EndA[t], l.a, l.for[1]) /\ Names(EndB[t], l.b, l.for[2])
      BY <1>1, <1>3 DEF DBInv, LinksInv, LinkRow
    <2>2. seq' \in [Tables -> 0 .. IndexMod - 1] /\ seq[t] <= seq'[t]
      BY <1>1, IndexAssumption DEF DBInv, Shapes
    <2> QED
      BY <1>1, <1>3, <2>1, <2>2, LinkStep
  <1> QED
    BY <1>2, <1>3 DEF Tables

\* A row written by an update call keeps its number and its key.
LEMMA WrittenRow ==
    ASSUME DBInv, NEW t \in Things, NEW r \in db[t], NEW cols, NEW m, clock' = clock + 1
    PROVE  LET w == Written(r, cols, m)
           IN  /\ w = [idx |-> w.idx, key |-> w.key, ver |-> w.ver, report |-> w.report]
               /\ w.idx = r.idx /\ w.key = r.key
               /\ w.ver \in [ColumnSet(t) -> 0 .. clock']
  <1>1. /\ r = [idx |-> r.idx, key |-> r.key, ver |-> r.ver, report |-> r.report]
        /\ r.ver \in [ColumnSet(t) -> 0 .. clock]
        /\ clock \in Nat
    <2>1. ThingRow(t, r)
      BY DEF DBInv, ThingsInv
    <2>2. clock \in Nat
      BY MaskAssumption DEF DBInv, Shapes
    <2> QED
      BY <2>1, <2>2 DEF ThingRow
  <1> DEFINE v == [c \in DOMAIN r.ver |-> IF c \in cols THEN clock + 1 ELSE r.ver[c]]
  <1>2. v \in [ColumnSet(t) -> 0 .. clock']
    <2>1. \A c \in ColumnSet(t) : r.ver[c] \in 0 .. clock'
      BY <1>1
    <2>2. clock + 1 \in 0 .. clock'
      BY <1>1
    <2> QED
      BY <1>1, <2>1, <2>2
  <1> DEFINE p == IF "deviceisonline" \in cols THEN m ELSE r.report
  <1>3. Written(r, cols, m) = [r EXCEPT !.ver = v, !.report = p]
    BY DEF Written
  <1> HIDE DEF v, p
  <1>4. [r EXCEPT !.ver = v, !.report = p] = [idx |-> r.idx, key |-> r.key, ver |-> v, report |-> p]
    <2>1. PICK i, k, w, q : r = [idx |-> i, key |-> k, ver |-> w, report |-> q]
      BY <1>1
    <2>2. r.idx = i /\ r.key = k
      BY <2>1
    <2>3. [r EXCEPT !.ver = v] = [idx |-> i, key |-> k, ver |-> v, report |-> q]
      BY <2>1
    <2> DEFINE s == [r EXCEPT !.ver = v]
    <2>4. [r EXCEPT !.ver = v, !.report = p] = [s EXCEPT !.report = p]
      OBVIOUS
    <2>5. s = [idx |-> i, key |-> k, ver |-> v, report |-> q]
      BY <2>3
    <2> HIDE DEF s
    <2>6. [s EXCEPT !.report = p] = [idx |-> i, key |-> k, ver |-> v, report |-> p]
      BY <2>5
    <2> QED
      BY <2>2, <2>4, <2>6
  <1> QED
    BY <1>2, <1>3, <1>4

\* Some rows of a table are written by an update call, the others are not.
Rewritten(t, hit, cols, m) == {IF r \in hit THEN Written(r, cols, m) ELSE r : r \in db[t]}
LEMMA WriteStep ==
    ASSUME DBInv, NEW t \in Things, NEW hit, NEW cols, NEW m,
           clock < MaxUpdates, clock' = clock + 1, seq' = seq, given' = given,
           db' = [db EXCEPT ![t] = Rewritten(t, hit, cols, m)]
    PROVE  DBInv'
  <1> DEFINE new == Rewritten(t, hit, cols, m)
  <1>1. clock' \in 0 .. MaxUpdates /\ clock' >= clock /\ 0 .. clock \subseteq 0 .. clock'
    BY MaskAssumption DEF DBInv, Shapes
  <1>2. \A r \in new : \E old \in db[t] :
          /\ r = IF old \in hit THEN Written(old, cols, m) ELSE old
          /\ r = [idx |-> r.idx, key |-> r.key, ver |-> r.ver, report |-> r.report]
          /\ r.ver \in [ColumnSet(t) -> 0 .. clock']
          /\ old.idx = r.idx /\ old.key = r.key
    <2> SUFFICES ASSUME NEW old \in db[t], NEW r, r = IF old \in hit THEN Written(old, cols, m) ELSE old
                 PROVE  /\ r = [idx |-> r.idx, key |-> r.key, ver |-> r.ver, report |-> r.report]
                        /\ r.ver \in [ColumnSet(t) -> 0 .. clock']
                        /\ old.idx = r.idx /\ old.key = r.key
      BY DEF Rewritten
    <2>1. CASE old \in hit
      BY <2>1, WrittenRow
    <2>2. CASE old \notin hit
      BY <1>1, <2>2 DEF DBInv, ThingsInv, ThingRow
    <2> QED
      BY <2>1, <2>2
  <1>3. \A r, s \in new : r.key = s.key \/ r.idx = s.idx => r = s
    <2> SUFFICES ASSUME NEW r \in new, NEW s \in new, r.key = s.key \/ r.idx = s.idx PROVE r = s
      OBVIOUS
    <2>1. PICK p \in db[t] : /\ r = IF p \in hit THEN Written(p, cols, m) ELSE p
                             /\ p.idx = r.idx /\ p.key = r.key
      BY <1>2
    <2>2. PICK q \in db[t] : /\ s = IF q \in hit THEN Written(q, cols, m) ELSE q
                             /\ q.idx = s.idx /\ q.key = s.key
      BY <1>2
    <2>3. p = q
      BY <2>1, <2>2 DEF DBInv, ThingsInv
    <2> QED
      BY <2>1, <2>2, <2>3
  <1>4. db' = [db EXCEPT ![t] = new]
    OBVIOUS
  <1> HIDE DEF new
  <1>5. SameNames(t, new)
    BY <1>2, <1>3 DEF SameNames
  <1> QED
    BY <1>1, <1>4, <1>5, ThingStep

LEMMA UpdateStep ==
    ASSUME DBInv, NEW t \in Things, NEW k, NEW m, NEW writes, Update(t, k, m, writes)
    PROVE  DBInv'
  <1>1. PICK n \in 0 .. Len(writes) :
          db' = [db EXCEPT ![t] = {IF r.key = k THEN Written(r, ToSet(SubSeq(writes, 1, n)), m) ELSE r
                                     : r \in db[t]}]
    BY DEF Update
  <1> DEFINE cols == ToSet(SubSeq(writes, 1, n))
             hit == {r \in db[t] : r.key = k}
  <1>2. db' = [db EXCEPT ![t] = Rewritten(t, hit, cols, m)]
    <2>1. Rewritten(t, hit, cols, m) = {IF r.key = k THEN Written(r, cols, m) ELSE r : r \in db[t]}
      BY DEF Rewritten
    <2> QED
      BY <1>1, <2>1
  <1>3. clock < MaxUpdates /\ clock' = clock + 1 /\ seq' = seq /\ given' = given
    BY DEF Update
  <1> HIDE DEF hit, cols
  <1> QED
    BY <1>2, <1>3, WriteStep

LEMMA OnOffStep ==
    ASSUME DBInv, NEW p, NEW n, ProfileTableOnOff(p, n)
    PROVE  DBInv'
  <1>1. PICK on : db' = [db EXCEPT !["Scene"] = Rewritten("Scene", on, {"onoff"}, 0)]
    BY DEF ProfileTableOnOff, Rewritten
  <1>2. clock < MaxUpdates /\ clock' = clock + 1 /\ seq' = seq /\ given' = given
    BY DEF ProfileTableOnOff
  <1>3. "Scene" \in Things
    BY DEF Things
  <1> QED
    BY <1>1, <1>2, <1>3, WriteStep

\* A link is inserted between two things whose numbers the caller holds.
LEMMA InsertLinkStep ==
    ASSUME DBInv, NEW t \in Links, NEW a \in given[EndA[t]], NEW b \in given[EndB[t]],
           InsertLink(t, a, b)
    PROVE  DBInv'
  <1> DEFINE n == NextRow(t)
             row == [idx |-> n, a |-> a[2], b |-> b[2], for |-> <<a[1], b[1]>>]
             new == db[t] \cup {row}
  <1>1. n \in 1 .. IndexMod - 1 /\ n > seq[t] /\ seq[t] \in Nat
    BY NewNumber, Disjoint DEF DBInv, InsertLink
  <1> HIDE DEF n
  <1>2. db' = [db EXCEPT ![t] = new] /\ seq' = [seq EXCEPT ![t] = n] /\ given' = given /\ clock' = clock
    BY DEF InsertLink, n
  <1>3. seq' \in [Tables -> 0 .. IndexMod - 1]
    <2>1. n \in 0 .. IndexMod - 1
      BY <1>1, IndexAssumption
    <2>2. seq \in [Tables -> 0 .. IndexMod - 1]
      BY DEF DBInv, Shapes
    <2> QED
      BY <1>2, <2>1, <2>2
  <1>4. seq'[t] = n /\ \A u \in Tables : u # t => seq'[u] = seq[u]
    BY <1>2, Disjoint DEF DBInv, Shapes
  <1>5. /\ row = [idx |-> row.idx, a |-> row.a, b |-> row.b, for |-> row.for]
        /\ row.for = <<row.for[1], row.for[2]>>
        /\ row.idx = n /\ row.a = a[2] /\ row.b = b[2] /\ row.for[1] = a[1] /\ row.for[2] = b[1]
    OBVIOUS
  <1> HIDE DEF row
  <1>6. ASSUME NEW l \in new
        PROVE  LinkRow(t, l)' /\ Names(EndA[t], l.a, l.for[1]) /\ Names(EndB[t], l.b, l.for[2])
    <2>1. CASE l \in db[t]
      <3>1. LinkRow(t, l) /\ Names(EndA[t], l.a, l.for[1]) /\ Names(EndB[t], l.b, l.for[2])
        BY <2>1 DEF DBInv, LinksInv
      <3>2. 1 .. seq[t] \subseteq 1 .. seq'[t]
        BY <1>1, <1>4
      <3> QED
        BY <3>1, <3>2 DEF LinkRow
    <2>2. CASE l = row
      <3>1. n \in 1 .. seq'[t]
        BY <1>1, <1>4
      <3>2. LinkRow(t, l)'
        BY <1>5, <2>2, <3>1 DEF LinkRow
      <3>3. Names(EndA[t], a[2], a[1]) /\ Names(EndB[t], b[2], b[1])
        BY Ends DEF DBInv, GivenInv
      <3> QED
        BY <1>5, <2>2, <3>2, <3>3
    <2> QED
      BY <1>6, <2>1, <2>2
  <1> HIDE DEF new
  <1>7. seq[t] <= seq'[t]
    BY <1>1, <1>4
  <1> QED
    BY <1>2, <1>3, <1>4, <1>6, <1>7, LinkStep

\* The first end of some links is set to a thing whose number the caller holds.
LEMMA SetFirstEnd ==
    ASSUME DBInv, NEW s \in given["Scene"], NEW p, ProfileListTableUpdate(s, p)
    PROVE  DBInv'
  <1> DEFINE t == "ProfileList"
             Set(l) == IF l.b = p[2] THEN [l EXCEPT !.a = s[2], !.for = <<s[1], @[2]>>] ELSE l
             new == {Set(l) : l \in db[t]}
  <1>1. db' = [db EXCEPT ![t] = new] /\ seq' = seq /\ given' = given /\ clock' = clock
    BY DEF ProfileListTableUpdate
  <1>2. t \in Links /\ t \in Tables /\ EndA[t] = "Scene" /\ "Scene" \in Things
    BY DEF Links, Tables, Things, EndA
  <1>3. Names(EndA[t], s[2], s[1])
    BY <1>2 DEF DBInv, GivenInv
  <1>4. ASSUME NEW o \in db[t]
        PROVE  /\ LinkRow(t, Set(o))'
               /\ Names(EndA[t], Set(o).a, Set(o).for[1]) /\ Names(EndB[t], Set(o).b, Set(o).for[2])
    <2>1. LinkRow(t, o) /\ Names(EndA[t], o.a, o.for[1]) /\ Names(EndB[t], o.b, o.for[2])
      BY <1>2 DEF DBInv, LinksInv
    <2>2. CASE o.b = p[2]
      <3> DEFINE w == [o EXCEPT !.a = s[2], !.for = <<s[1], @[2]>>]
      <3>1. w = [idx |-> o.idx, a |-> s[2], b |-> o.b, for |-> <<s[1], o.for[2]>>]
        <4>1. DOMAIN o = {"idx", "a", "b", "for"}
          BY <2>1 DEF LinkRow
        <4>2. w = [f \in DOMAIN o |-> w[f]]
          OBVIOUS
        <4>3. w.idx = o.idx /\ w.a = s[2] /\ w.b = o.b /\ w.for = <<s[1], o.for[2]>>
          BY <4>1
        <4> HIDE DEF w
        <4> QED
          BY <4>1, <4>2, <4>3
      <3>2. Set(o) = w
        BY <2>2
      <3> HIDE DEF w, Set
      <3>3. /\ w.idx = o.idx /\ w.a = s[2] /\ w.b = o.b /\ w.for = <<s[1], o.for[2]>>
            /\ w.for[1] = s[1] /\ w.for[2] = o.for[2]
        BY <3>1
      <3>4. LinkRow(t, w)'
        BY <1>1, <2>1, <3>1, <3>3 DEF LinkRow
      <3> QED
        BY <1>3, <2>1, <3>2, <3>3, <3>4
    <2>3. CASE o.b # p[2]
      <3>1. Set(o) = o
        BY <2>3
      <3>2. LinkRow(t, o)'
        BY <1>1, <2>1 DEF LinkRow
      <3> QED
        BY <2>1, <3>1, <3>2
    <2> QED
      BY <2>2, <2>3
  <1>5. ASSUME NEW l \in new
        PROVE  LinkRow(t, l)' /\ Names(EndA[t], l.a, l.for[1]) /\ Names(EndB[t], l.b, l.for[2])
    <2>1. PICK o \in db[t] : l = Set(o)
      BY <1>5
    <2> HIDE DEF Set
    <2> QED
      BY <1>4, <2>1
  <1>6. seq' \in [Tables -> 0 .. IndexMod - 1] /\ seq[t] <= seq'[t]
    <2>1. seq \in [Tables -> 0 .. IndexMod - 1]
      BY DEF DBInv, Shapes
    <2>2. seq[t] \in Nat
      BY <1>2, <2>1, IndexAssumption
    <2>3. seq' = seq
      BY <1>1
    <2> QED
      BY <2>1, <2>2, <2>3
  <1> HIDE DEF new, t
  <1> QED
    BY <1>1, <1>2, <1>5, <1>6, LinkStep

\* The second end of some links is set to a thing whose number the caller holds.
LEMMA SetSecondEnd ==
    ASSUME DBInv, NEW d, NEW r \in given["Room"], RoomListTableUpdate(d, r)
    PROVE  DBInv'
  <1> DEFINE t == "RoomList"
             Set(l) == IF l.a = d[2] THEN [l EXCEPT !.b = r[2], !.for = <<@[1], r[1]>>] ELSE l
             new == {Set(l) : l \in db[t]}
  <1>1. db' = [db EXCEPT ![t] = new] /\ seq' = seq /\ given' = given /\ clock' = clock
    BY DEF RoomListTableUpdate
  <1>2. t \in Links /\ t \in Tables /\ EndB[t] = "Room" /\ "Room" \in Things
    BY DEF Links, Tables, Things, EndB
  <1>3. Names(EndB[t], r[2], r[1])
    BY <1>2 DEF DBInv, GivenInv
  <1>4. ASSUME NEW o \in db[t]
        PROVE  /\ LinkRow(t, Set(o))'
               /\ Names(EndA[t], Set(o).a, Set(o).for[1]) /\ Names(EndB[t], Set(o).b, Set(o).for[2])
    <2>1. LinkRow(t, o) /\ Names(EndA[t], o.a, o.for[1]) /\ Names(EndB[t], o.b, o.for[2])
      BY <1>2 DEF DBInv, LinksInv
    <2>2. CASE o.a = d[2]
      <3> DEFINE w == [o EXCEPT !.b = r[2], !.for = <<@[1], r[1]>>]
      <3>1. w = [idx |-> o.idx, a |-> o.a, b |-> r[2], for |-> <<o.for[1], r[1]>>]
        <4>1. DOMAIN o = {"idx", "a", "b", "for"}
          BY <2>1 DEF LinkRow
        <4>2. w = [f \in DOMAIN o |-> w[f]]
          OBVIOUS
        <4>3. w.idx = o.idx /\ w.a = o.a /\ w.b = r[2] /\ w.for = <<o.for[1], r[1]>>
          BY <4>1
        <4> HIDE DEF w
        <4> QED
          BY <4>1, <4>2, <4>3
      <3>2. Set(o) = w
        BY <2>2
      <3> HIDE DEF w, Set
      <3>3. /\ w.idx = o.idx /\ w.a = o.a /\ w.b = r[2] /\ w.for = <<o.for[1], r[1]>>
            /\ w.for[1] = o.for[1] /\ w.for[2] = r[1]
        BY <3>1
      <3>4. LinkRow(t, w)'
        BY <1>1, <2>1, <3>1, <3>3 DEF LinkRow
      <3> QED
        BY <1>3, <2>1, <3>2, <3>3, <3>4
    <2>3. CASE o.a # d[2]
      <3>1. Set(o) = o
        BY <2>3
      <3>2. LinkRow(t, o)'
        BY <1>1, <2>1 DEF LinkRow
      <3> QED
        BY <2>1, <3>1, <3>2
    <2> QED
      BY <2>2, <2>3
  <1>5. ASSUME NEW l \in new
        PROVE  LinkRow(t, l)' /\ Names(EndA[t], l.a, l.for[1]) /\ Names(EndB[t], l.b, l.for[2])
    <2>1. PICK o \in db[t] : l = Set(o)
      BY <1>5
    <2> HIDE DEF Set
    <2> QED
      BY <1>4, <2>1
  <1>6. seq' \in [Tables -> 0 .. IndexMod - 1] /\ seq[t] <= seq'[t]
    <2>1. seq \in [Tables -> 0 .. IndexMod - 1]
      BY DEF DBInv, Shapes
    <2>2. seq[t] \in Nat
      BY <1>2, <2>1, IndexAssumption
    <2>3. seq' = seq
      BY <1>1
    <2> QED
      BY <2>1, <2>2, <2>3
  <1> HIDE DEF new, t
  <1> QED
    BY <1>1, <1>2, <1>5, <1>6, LinkStep

\* A new program reads the numbers of the rows that are there.
LEMMA ReopenStep == DBInv /\ Reopen => DBInv'
  <1> SUFFICES ASSUME DBInv, Reopen PROVE DBInv'
    OBVIOUS
  <1>1. /\ given' = [t \in Things |-> {<<r.key, Index(r.idx)>> : r \in db[t]}]
        /\ db' = db /\ seq' = seq /\ clock' = clock
    BY DEF Reopen, Refilled
  <1>2. Shapes' /\ ThingsInv' /\ LinksInv'
    <2>1. given' = [t \in Things |-> given'[t]]
      BY <1>1
    <2>2. Shapes'
      BY <1>1, <2>1 DEF DBInv, Shapes
    <2>3. ThingsInv'
      BY <1>1 DEF DBInv, ThingsInv, ThingRow
    <2>4. LinksInv'
      BY <1>1 DEF DBInv, LinksInv, LinkRow, Names
    <2> QED
      BY <2>2, <2>3, <2>4
  <1>3. GivenInv'
    <2> SUFFICES ASSUME NEW t \in Things, NEW g \in given'[t] PROVE Names(t, g[2], g[1])'
      BY DEF GivenInv
    <2>1. PICK r \in db[t] : g = <<r.key, Index(r.idx)>>
      BY <1>1
    <2>2. r.idx \in 1 .. seq[t] /\ \A s \in db[t] : s.idx = r.idx => s = r
      BY DEF DBInv, ThingsInv, ThingRow
    <2>3. Index(r.idx) = r.idx
      BY <2>2, IndexIsNumber, Disjoint DEF DBInv
    <2> QED
      BY <1>1, <2>1, <2>2, <2>3 DEF Names
  <1> QED
    BY <1>2, <1>3 DEF DBInv

-----------------------------------------------------------------------------
(* The calls *)

LEMMA DeviceStep == DBInv /\ DeviceCalls => DBInv'
  <1> SUFFICES ASSUME DBInv, DeviceCalls PROVE DBInv'
    OBVIOUS
  <1>1. "Device" \in Things /\ "Device" \in Tables
    BY DEF Things, Tables
  <1>2. ASSUME NEW k, DeviceTableAddRecord(k) PROVE DBInv'
    BY <1>1, <1>2, InsertStep DEF DeviceTableAddRecord
  <1>3. ASSUME NEW k, DeviceTableDelete(k) PROVE DBInv'
    BY <1>1, <1>3, DeleteStep DEF DeviceTableDelete, DeleteKey
  <1>4. ASSUME NEW k, NEW mask, DeviceTableUpdate(k, mask) PROVE DBInv'
    BY <1>1, <1>4, UpdateStep DEF DeviceTableUpdate
  <1>5. CASE DeviceTableClear
    BY <1>1, <1>5, DeleteStep DEF DeviceTableClear, Clear
  <1> QED
    BY <1>2, <1>3, <1>4, <1>5 DEF DeviceCalls

LEMMA RoomStep == DBInv /\ RoomCalls => DBInv'
  <1> SUFFICES ASSUME DBInv, RoomCalls PROVE DBInv'
    OBVIOUS
  <1>1. {"Linkage", "Room"} \subseteq Things /\ {"Linkage", "Room", "RoomList"} \subseteq Tables
    BY DEF Things, Links, Tables
  <1>2. "RoomList" \in Links /\ EndA["RoomList"] = "Device" /\ EndB["RoomList"] = "Room"
    BY DEF Links, EndA, EndB
  <1>3. ASSUME NEW k, LinkageTableAddRecord(k) \/ LinkageTableDelete(k) PROVE DBInv'
    BY <1>1, <1>3, InsertStep, DeleteStep DEF LinkageTableAddRecord, LinkageTableDelete, DeleteKey
  <1>4. CASE RoomTableAddRecord
    BY <1>1, <1>4, InsertStep DEF RoomTableAddRecord
  <1>5. ASSUME NEW k, RoomTableDelete(k) PROVE DBInv'
    BY <1>1, <1>5, DeleteStep DEF RoomTableDelete, DeleteKey
  <1>6. ASSUME NEW k, NEW mask, RoomTableUpdate(k, mask) PROVE DBInv'
    BY <1>1, <1>6, UpdateStep DEF RoomTableUpdate
  <1>7. ASSUME NEW d, RoomListTableDeleteUnderDevice(d) PROVE DBInv'
    BY <1>1, <1>7, DeleteStep DEF RoomListTableDeleteUnderDevice
  <1>8. ASSUME NEW d \in given["Device"], NEW r \in given["Room"], RoomListTableAddRecord(d, r) PROVE DBInv'
    BY <1>2, <1>8, InsertLinkStep DEF RoomListTableAddRecord
  <1>9. ASSUME NEW d, NEW r \in given["Room"], RoomListTableUpdate(d, r) PROVE DBInv'
    BY <1>9, SetSecondEnd
  <1>10. ASSUME NEW r, RoomListTableDelete(r) PROVE DBInv'
    BY <1>1, <1>10, DeleteStep DEF RoomListTableDelete
  <1>11. CASE LinkageTableClear \/ RoomTableClear \/ RoomListTableClear
    BY <1>1, <1>11, DeleteStep DEF LinkageTableClear, RoomTableClear, RoomListTableClear, Clear
  <1> QED
    BY <1>3, <1>4, <1>5, <1>6, <1>7, <1>8, <1>9, <1>10, <1>11 DEF RoomCalls

LEMMA ProfileStep == DBInv /\ ProfileCalls => DBInv'
  <1> SUFFICES ASSUME DBInv, ProfileCalls PROVE DBInv'
    OBVIOUS
  <1>1. /\ {"Scene", "Profile"} \subseteq Things
        /\ {"Scene", "Profile", "SceneDevice", "ProfileList"} \subseteq Tables
    BY DEF Things, Links, Tables
  <1>2. /\ "SceneDevice" \in Links /\ EndA["SceneDevice"] = "Scene" /\ EndB["SceneDevice"] = "Device"
        /\ "ProfileList" \in Links /\ EndA["ProfileList"] = "Scene" /\ EndB["ProfileList"] = "Profile"
    BY DEF Links, EndA, EndB
  <1>3. ASSUME NEW k, SceneTableAddRecord(k) \/ ProfileTableAddRecord(k) PROVE DBInv'
    BY <1>1, <1>3, InsertStep DEF SceneTableAddRecord, ProfileTableAddRecord
  <1>4. ASSUME NEW k, SceneTableDelete(k) \/ ProfileTableDelete(k) PROVE DBInv'
    BY <1>1, <1>4, DeleteStep DEF SceneTableDelete, ProfileTableDelete, DeleteKey
  <1>5. ASSUME NEW k, NEW mask, SceneTableUpdate(k, mask) \/ ProfileTableUpdate(k, mask) PROVE DBInv'
    BY <1>1, <1>5, UpdateStep DEF SceneTableUpdate, ProfileTableUpdate
  <1>6. ASSUME NEW k, NEW n, ProfileTableOnOff(k, n) PROVE DBInv'
    BY <1>6, OnOffStep
  <1>7. ASSUME NEW s, SceneDeviceTableDelete(s) \/ ProfileListTableDelete(s) PROVE DBInv'
    BY <1>1, <1>7, DeleteStep DEF SceneDeviceTableDelete, ProfileListTableDelete
  <1>8. ASSUME NEW s \in given["Scene"], NEW d \in given["Device"], SceneDeviceTableAddRecord(s, d) PROVE DBInv'
    BY <1>2, <1>8, InsertLinkStep DEF SceneDeviceTableAddRecord
  <1>9. ASSUME NEW s \in given["Scene"], NEW p \in given["Profile"], ProfileListTableAddRecord(s, p) PROVE DBInv'
    BY <1>2, <1>9, InsertLinkStep DEF ProfileListTableAddRecord
  <1>10. ASSUME NEW s \in given["Scene"], NEW p, ProfileListTableUpdate(s, p) PROVE DBInv'
    BY <1>10, SetFirstEnd
  <1>11. CASE SceneTableClear \/ ProfileTableClear \/ SceneDeviceTableClear \/ ProfileListTableClear
    BY <1>1, <1>11, DeleteStep DEF SceneTableClear, ProfileTableClear, SceneDeviceTableClear, ProfileListTableClear, Clear
  <1> QED
    BY <1>3, <1>4, <1>5, <1>6, <1>7, <1>8, <1>9, <1>10, <1>11 DEF ProfileCalls

LEMMA InvStep == DBInv /\ [Next]_dbVars => DBInv'
  <1> SUFFICES ASSUME DBInv, [Next]_dbVars PROVE DBInv'
    OBVIOUS
  <1>1. CASE Next
    BY <1>1, ReopenStep, DeviceStep, RoomStep, ProfileStep DEF Next
  <1>2. CASE UNCHANGED dbVars
    <2>1. Shapes'
      BY <1>2 DEF dbVars, DBInv, Shapes
    <2>2. ThingsInv'
      BY <1>2 DEF dbVars, DBInv, ThingsInv, ThingRow
    <2>3. LinksInv'
      BY <1>2 DEF dbVars, DBInv, LinksInv, LinkRow, Names
    <2>4. GivenInv'
      BY <1>2 DEF dbVars, DBInv, GivenInv, ThingRow, LinkRow, Names
    <2> QED
      BY <2>1, <2>2, <2>3, <2>4 DEF DBInv
  <1> QED
    BY <1>1, <1>2

-----------------------------------------------------------------------------
(* Results *)

(* The tables always satisfy the inductive invariant: on top of DBTypeOK, every
   number that a link or a caller's structure holds was given out once and still
   names the key it was given out for, or nothing. *)
THEOREM Invariance == Spec => []DBInv
  <1> QED
    BY InvInit, InvStep, PTL DEF Spec

(* Every row has a number that was given out, no key or number stands twice in a
   table, and links name numbers that were given out, whichever inserts, updates,
   deletes, failed statements and restarts came before. *)
THEOREM TablesWellFormed == Spec => []DBTypeOK
  <1>1. DBInv => DBTypeOK
    BY DEF DBInv, DBTypeOK, Shapes, ThingsInv, ThingRow, LinksInv, LinkRow, Names
  <1> QED
    BY <1>1, Invariance, PTL

(* A link never comes to mean another row than the one its caller had in hand,
   although deletes do not cascade and keys are used again: row numbers are never
   given out twice. *)
THEOREM LinksNeverRetarget == Spec => []LinksKeepTheirEnds
  <1>1. DBInv => LinksKeepTheirEnds
    BY DEF DBInv, LinksInv, Names, LinksKeepTheirEnds
  <1> QED
    BY <1>1, Invariance, PTL

(* The list searches return only what a caller linked. *)
THEOREM ListsAreLinks == Spec => []ListedWasLinked
  <1>1. DBInv => ListedWasLinked
    <2> SUFFICES ASSUME DBInv PROVE ListedWasLinked
      OBVIOUS
    <2>1. ASSUME NEW g \in Keys("Room"), NEW d \in RoomDeviceListSearch(g)
          PROVE  \E l \in db["RoomList"] : l.for = <<d, g>>
      <3>1. PICK e \in db["Device"], l \in db["RoomList"], r \in db["Room"] :
              d = e.key /\ e.idx = l.a /\ r.key = g /\ l.b = r.idx
        BY <2>1 DEF RoomDeviceListSearch, Devices
      <3>2. "RoomList" \in Links /\ EndA["RoomList"] = "Device" /\ EndB["RoomList"] = "Room"
        BY DEF Links, EndA, EndB
      <3>3. l.for = <<l.for[1], l.for[2]>> /\ l.for[1] = d /\ l.for[2] = g
        BY <3>1, <3>2 DEF DBInv, LinksInv, LinkRow, Names
      <3> QED
        BY <3>3
    <2>2. ASSUME NEW p \in Keys("Profile"), NEW s \in ProfileSceneListSearch(p)
          PROVE  \E l \in db["ProfileList"] : l.for = <<s, p>>
      <3>1. PICK e \in db["Scene"], l \in db["ProfileList"] :
              s = e.key /\ e.idx = l.a /\ l.b = ProfileTableSearchOne(p)
        BY <2>2 DEF ProfileSceneListSearch, Under
      <3>2. PICK r \in db["Profile"] : r.key = p /\ ProfileTableSearchOne(p) = Index(r.idx)
        <4> DEFINE hits == {r \in db["Profile"] : r.key = p}
        <4>1. hits # {}
          BY DEF Keys
        <4>2. (CHOOSE r \in hits : TRUE) \in hits
          BY <4>1
        <4>3. ProfileTableSearchOne(p) = Index((CHOOSE r \in hits : TRUE).idx)
          BY <4>1 DEF ProfileTableSearchOne, SearchOne
        <4> HIDE DEF hits
        <4>4. PICK r \in hits : ProfileTableSearchOne(p) = Index(r.idx)
          BY <4>2, <4>3
        <4> QED
          BY <4>4 DEF hits
      <3>3. r.idx \in 1 .. seq["Profile"]
        BY DEF DBInv, ThingsInv, ThingRow, Things
      <3>4. Index(r.idx) = r.idx
        BY <3>3, IndexIsNumber DEF DBInv, Tables, Things
      <3>5. "ProfileList" \in Links /\ EndA["ProfileList"] = "Scene" /\ EndB["ProfileList"] = "Profile"
        BY DEF Links, EndA, EndB
      <3>6. l.for = <<l.for[1], l.for[2]>> /\ l.for[1] = s /\ l.for[2] = p
        BY <3>1, <3>2, <3>4, <3>5 DEF DBInv, LinksInv, LinkRow, Names
      <3> QED
        BY <3>6
    <2> QED
      BY <2>1, <2>2 DEF ListedWasLinked
  <1> QED
    BY <1>1, Invariance, PTL

-----------------------------------------------------------------------------
(* Sorted lists *)

Below(S, k) == {l \in S : l < k}

\* The numbers of a finite set have 0, 1, 2, ... smaller ones in it.
LEMMA Ranks ==
    ASSUME NEW S \in SUBSET Nat, IsFiniteSet(S)
    PROVE  /\ Cardinality(S) \in Nat
           /\ \A k \in S : Cardinality(Below(S, k)) \in 0 .. Cardinality(S) - 1
           /\ \A k, l \in S : k < l => Cardinality(Below(S, k)) < Cardinality(Below(S, l))
           /\ \A n \in 1 .. Cardinality(S) : \E k \in S : Cardinality(Below(S, k)) = n - 1
  <1> DEFINE c == Cardinality(S)
             f == [k \in S |-> Cardinality(Below(S, k))]
  <1>1. c \in Nat
    BY FS_CardinalityType
  <1>2. ASSUME NEW k \in S PROVE IsFiniteSet(Below(S, k)) /\ Cardinality(Below(S, k)) \in 0 .. c - 1
    <2>1. Below(S, k) \subseteq S /\ k \notin Below(S, k)
      BY DEF Below
    <2>2. IsFiniteSet(Below(S, k)) /\ Cardinality(Below(S, k)) <= c /\ Cardinality(Below(S, k)) # c
      BY <2>1, FS_Subset
    <2>3. Cardinality(Below(S, k)) \in Nat
      BY <2>2, FS_CardinalityType
    <2> QED
      BY <1>1, <2>2, <2>3
  <1>3. ASSUME NEW k \in S, NEW l \in S, k < l
        PROVE  Cardinality(Below(S, k)) < Cardinality(Below(S, l))
    <2>1. Below(S, k) \subseteq Below(S, l) /\ k \in Below(S, l) /\ k \notin Below(S, k)
      <3>1. k \in Nat /\ l \in Nat
        OBVIOUS
      <3>2. ASSUME NEW x \in Below(S, k) PROVE x \in Below(S, l)
        <4>1. x \in S /\ x \in Nat /\ x < k
          BY <3>2 DEF Below
        <4>2. x < l
          BY <1>3, <3>1, <4>1
        <4> QED
          BY <4>1, <4>2 DEF Below
      <3>3. k \in Below(S, l)
        BY <1>3 DEF Below
      <3>4. k \notin Below(S, k)
        BY <3>1 DEF Below
      <3> QED
        BY <3>2, <3>3, <3>4
    <2>2. IsFiniteSet(Below(S, l))
      BY <1>2
    <2>3. Cardinality(Below(S, k)) <= Cardinality(Below(S, l))
          /\ Cardinality(Below(S, k)) # Cardinality(Below(S, l))
      BY <2>1, <2>2, FS_Subset
    <2>4. Cardinality(Below(S, k)) \in Nat /\ Cardinality(Below(S, l)) \in Nat
      BY <1>1, <1>2
    <2> QED
      BY <2>3, <2>4
  <1>4. ASSUME NEW n \in 1 .. c PROVE \E k \in S : Cardinality(Below(S, k)) = n - 1
    <2> HIDE DEF c
    <2>1. IsFiniteSet(0 .. c - 1) /\ Cardinality(0 .. c - 1) = c
      BY <1>1, FS_Interval
    <2>2. f \in [S -> 0 .. c - 1]
      BY <1>2
    <2>3. \A k, l \in S : f[k] = f[l] => k = l
      <3> SUFFICES ASSUME NEW k \in S, NEW l \in S, f[k] = f[l], k < l \/ l < k PROVE FALSE
        OBVIOUS
      <3>1. f[k] = Cardinality(Below(S, k)) /\ f[l] = Cardinality(Below(S, l))
        OBVIOUS
      <3>2. f[k] \in 0 .. c - 1 /\ f[l] \in 0 .. c - 1
        BY <2>2
      <3> HIDE DEF f
      <3>3. f[k] < f[l] \/ f[l] < f[k]
        BY <1>3, <3>1
      <3> QED
        BY <1>1, <3>2, <3>3
    <2>4. f \in Injection(S, 0 .. c - 1)
      BY <2>2, <2>3 DEF Injection, IsInjective
    <2>5. f \in Surjection(S, 0 .. c - 1)
      <3> HIDE DEF f
      <3> QED
        BY <2>1, <2>4, FS_Injection DEF c
    <2>6. n - 1 \in 0 .. c - 1
      BY <1>1
    <2>7. PICK k \in S : f[k] = n - 1
      BY <2>5, <2>6 DEF Surjection
    <2> QED
      BY <2>7
  <1> QED
    BY <1>1, <1>2, <1>3, <1>4

\* A list that a search brought back in the order of the keys.
Ascending(list) ==
    /\ list \in Seq(Nat)
    /\ \A m, n \in 1 .. Len(list) : m < n => list[m] < list[n]

LEMMA SortedFacts ==
    ASSUME NEW t, Keys(t) \subseteq Nat, IsFiniteSet(Keys(t))
    PROVE  /\ Ascending(SortedKeys(t))
           /\ \A k : (\E n \in 1 .. Len(SortedKeys(t)) : SortedKeys(t)[n] = k) <=> k \in Keys(t)
  <1> DEFINE S == Keys(t)
             c == Cardinality(S)
             list == SortedKeys(t)
  <1>1. /\ c \in Nat
        /\ \A k \in S : Cardinality(Below(S, k)) \in 0 .. c - 1
        /\ \A k, l \in S : k < l => Cardinality(Below(S, k)) < Cardinality(Below(S, l))
        /\ \A n \in 1 .. c : \E k \in S : Cardinality(Below(S, k)) = n - 1
    <2>1. S \in SUBSET Nat /\ IsFiniteSet(S)
      OBVIOUS
    <2> HIDE DEF S
    <2> QED
      BY <2>1, Ranks
  <1>2. list = [n \in 1 .. c |-> CHOOSE k \in S : Cardinality(Below(S, k)) = n - 1]
    BY DEF SortedKeys, Below
  <1>3. \A k \in S : k \in Nat
    OBVIOUS
  <1> HIDE DEF S, c, list
  <1>4. ASSUME NEW n \in 1 .. c PROVE list[n] \in S /\ Cardinality(Below(S, list[n])) = n - 1
    BY <1>1, <1>2
  <1>5. list \in Seq(Nat) /\ Len(list) = c
    <2>1. list \in [1 .. c -> Nat]
      BY <1>2, <1>3, <1>4
    <2> QED
      BY <1>1, <1>2, <2>1
  <1>6. ASSUME NEW k \in S, NEW l \in S, Cardinality(Below(S, k)) < Cardinality(Below(S, l))
        PROVE  k < l
    <2> SUFFICES ASSUME k = l \/ l < k PROVE FALSE
      BY <1>3
    <2>1. Cardinality(Below(S, k)) \in Nat /\ Cardinality(Below(S, l)) \in Nat
      BY <1>1
    <2>2. Cardinality(Below(S, k)) = Cardinality(Below(S, l))
          \/ Cardinality(Below(S, l)) < Cardinality(Below(S, k))
      BY <1>1
    <2> QED
      BY <1>6, <2>1, <2>2
  <1>7. \A m, n \in 1 .. c : m < n => list[m] < list[n]
    <2> SUFFICES ASSUME NEW m \in 1 .. c, NEW n \in 1 .. c, m < n PROVE list[m] < list[n]
      OBVIOUS
    <2>1. m - 1 < n - 1
      BY <1>1
    <2> QED
      BY <1>4, <1>6, <2>1
  <1>8. ASSUME NEW k \in S PROVE \E n \in 1 .. c : list[n] = k
    <2> DEFINE n == Cardinality(Below(S, k)) + 1
    <2>1. n \in 1 .. c /\ n - 1 = Cardinality(Below(S, k))
      BY <1>1
    <2>2. list[n] \in S /\ Cardinality(Below(S, list[n])) = Cardinality(Below(S, k))
      BY <1>4, <2>1
    <2> HIDE DEF n
    <2>3. ~(list[n] < k) /\ ~(k < list[n])
      <3>1. Cardinality(Below(S, k)) \in Nat
        BY <1>1
      <3>2. ~(Cardinality(Below(S, k)) < Cardinality(Below(S, list[n])))
            /\ ~(Cardinality(Below(S, list[n])) < Cardinality(Below(S, k)))
        BY <2>2, <3>1
      <3> QED
        BY <1>1, <2>2, <3>2
    <2>4. list[n] = k
      BY <1>3, <2>2, <2>3
    <2> QED
      BY <2>1, <2>4
  <1>9. Ascending(list)
    BY <1>5, <1>7 DEF Ascending
  <1>10. \A k : (\E n \in 1 .. Len(list) : list[n] = k) <=> k \in S
    BY <1>4, <1>5, <1>8
  <1> QED
    BY <1>9, <1>10 DEF list, S

LEMMA MaxFacts ==
    ASSUME NEW S \in SUBSET Nat, S # {}, NEW b \in Nat, \A x \in S : x <= b
    PROVE  Max(S) \in S /\ \A x \in S : x <= Max(S)
  <1> DEFINE T == {d \in Nat : b - d \in S}
  <1>1. T # {}
    <2>1. PICK x \in S : TRUE
      OBVIOUS
    <2>2. b - x \in Nat /\ b - (b - x) = x
      BY <2>1
    <2>3. b - x \in T
      BY <2>2
    <2> QED
      BY <2>3
  <1>2. PICK d \in T : \A e \in T : d <= e
    <2>1. T \in SUBSET Nat
      OBVIOUS
    <2> HIDE DEF T
    <2> QED
      BY <1>1, <2>1, LeastExists
  <1>3. ASSUME NEW x \in S PROVE b - d >= x
    <2>1. b - x \in Nat /\ b - (b - x) = x
      OBVIOUS
    <2>2. b - x \in T
      BY <2>1
    <2>3. d <= b - x /\ d \in Nat
      BY <1>2, <2>2
    <2> QED
      BY <2>3
  <1>4. b - d \in S
    BY <1>2
  <1>5. Max(S) \in S /\ \A y \in S : Max(S) >= y
    <2>1. \E x \in S : \A y \in S : x >= y
      BY <1>3, <1>4
    <2> QED
      BY <2>1 DEF Max
  <1> QED
    BY <1>5

\* Walking along a sorted list from the first id ends at the lowest free one.
LEMMA WalkFree ==
    ASSUME NEW list, Ascending(list), NEW first \in Nat,
           \A n \in 1 .. Len(list) : first <= list[n]
    PROVE  /\ Walk(list, first) \in Nat /\ first <= Walk(list, first)
           /\ LowestFree(Walk(list, first), first, list)
  <1> DEFINE W == {n \in 0 .. Len(list) : \A m \in 1 .. n : list[m] = first + m - 1}
             w == Max(W)
  <1>1. /\ list \in Seq(Nat) /\ Len(list) \in Nat /\ DOMAIN list = 1 .. Len(list)
        /\ \A n \in 1 .. Len(list) : list[n] \in Nat
        /\ \A m, n \in 1 .. Len(list) : m < n => list[m] < list[n]
    BY DEF Ascending
  <1>2. w \in W /\ \A x \in W : x <= w
    <2>1. 0 \in W
      BY <1>1
    <2>2. W \in SUBSET Nat /\ W # {} /\ \A x \in W : x <= Len(list)
      BY <1>1, <2>1
    <2> HIDE DEF W
    <2> QED
      BY <1>1, <2>2, MaxFacts
  <1>3. Walk(list, first) = first + w
    BY DEF Walk
  <1> HIDE DEF w
  <1>4. w \in 0 .. Len(list) /\ \A m \in 1 .. w : list[m] = first + m - 1
    BY <1>2
  <1>5. ASSUME NEW n \in 1 .. Len(list), list[n] = first + w PROVE FALSE
    <2>1. w \in Nat /\ n \in Nat
      BY <1>1, <1>4
    <2>2. CASE n <= w
      <3>1. list[n] = first + n - 1
        BY <1>4, <2>1, <2>2
      <3> QED
        BY <1>5, <2>1, <2>2, <3>1
    <2>3. CASE n = w + 1
      <3>1. first + n - 1 = first + w
        BY <2>1, <2>3
      <3>2. \A m \in 1 .. n : m \in 1 .. w \/ m = n
        BY <2>1, <2>3
      <3>3. n \in W
        <4>1. n \in 0 .. Len(list)
          BY <1>1
        <4>2. \A m \in 1 .. n : list[m] = first + m - 1
          BY <1>4, <1>5, <3>1, <3>2
        <4> QED
          BY <4>1, <4>2
      <3> QED
        BY <1>2, <2>1, <2>3, <3>3
    <2>4. CASE n > w + 1
      <3> DEFINE v == w + 1
      <3>1. v \in 1 .. Len(list) /\ v < n
        BY <1>1, <2>1, <2>4
      <3>2. list[v] < first + w /\ list[v] \in Nat
        BY <1>1, <1>5, <3>1
      <3>3. first + w <= list[v]
        <4>1. CASE w = 0
          <5>1. first <= list[v]
            BY <3>1
          <5> QED
            BY <4>1, <5>1
        <4>2. CASE w > 0
          <5>1. w \in 1 .. w /\ w \in 1 .. Len(list) /\ w < v
            BY <1>1, <1>4, <2>1, <4>2
          <5>2. list[w] = first + w - 1 /\ list[w] < list[v]
            BY <1>1, <1>4, <3>1, <5>1
          <5> HIDE DEF v
          <5> QED
            BY <2>1, <3>2, <5>2
        <4> QED
          BY <2>1, <4>1, <4>2
      <3> HIDE DEF v
      <3> QED
        BY <2>1, <3>2, <3>3
    <2> QED
      BY <2>1, <2>2, <2>3, <2>4
  <1>6. ASSUME NEW k \in first .. (first + w) - 1 PROVE \E n \in 1 .. Len(list) : list[n] = k
    <2> DEFINE n == (k - first) + 1
    <2>1. n \in 1 .. w /\ n \in 1 .. Len(list) /\ first + n - 1 = k
      BY <1>1, <1>4
    <2>2. list[n] = k
      BY <1>4, <2>1
    <2> QED
      BY <2>1, <2>2
  <1>7. first + w \in Nat /\ first <= first + w
    BY <1>1, <1>4
  <1> QED
    BY <1>1, <1>3, <1>5, <1>6, <1>7 DEF LowestFree, DataIsExist


-----------------------------------------------------------------------------
(* Ids and lists *)

(* Scenes and profiles have ids of 16 bits, rooms have group ids from RoomBase
   on. *)
GoodKey(t, k) == /\ t \in {"Scene", "Profile"} => k \in 0 .. IdMod - 1
                 /\ t = "Room" => k \in Nat /\ RoomBase <= k
KeysInv == \A t \in Things : \A r \in db[t] : GoodKey(t, r.key)
ListInv == DBInv /\ KeysInv /\ IsFiniteSet(db["ProfileList"])

\* A table has no more keys than numbers that were given out.
LEMMA KeysFinite ==
    ASSUME DBInv, NEW t \in Things
    PROVE  IsFiniteSet(Keys(t))
  <1> DEFINE K == Keys(t)
             N == 1 .. seq[t]
             f == [k \in K |-> CHOOSE n \in N : \E r \in db[t] : r.key = k /\ r.idx = n]
  <1>1. IsFiniteSet(N)
    <2>1. seq[t] \in Nat
      BY Disjoint, IndexAssumption DEF DBInv, Shapes
    <2> QED
      BY <2>1, FS_Interval
  <1>2. \A k \in K : \E n \in N : \E r \in db[t] : r.key = k /\ r.idx = n
    BY DEF DBInv, ThingsInv, ThingRow, Keys
  <1> HIDE DEF K, N
  <1>3. \A k \in K : f[k] \in N /\ \E r \in db[t] : r.key = k /\ r.idx = f[k]
    BY <1>2
  <1>4. f \in [K -> N]
    BY <1>3
  <1> HIDE DEF f
  <1>5. \A k, l \in K : f[k] = f[l] => k = l
    BY <1>3 DEF DBInv, ThingsInv
  <1>6. f \in Injection(K, N)
    BY <1>4, <1>5 DEF Injection, IsInjective
  <1> QED
    BY <1>1, <1>6, FS_Injection DEF K

\* The lists that the searches bring back are sorted and complete.
LEMMA SearchFacts ==
    ASSUME DBInv, KeysInv, NEW t \in {"Scene", "Profile", "Room"}
    PROVE  /\ Keys(t) \subseteq Nat
           /\ Ascending(SortedKeys(t))
           /\ \A k : DataIsExist(SortedKeys(t), k) <=> k \in Keys(t)
           /\ \A n \in 1 .. Len(SortedKeys(t)) : SortedKeys(t)[n] \in Keys(t)
  <1>1. t \in Things
    BY DEF Things
  <1>2. Keys(t) \subseteq Nat
    <2>1. \A r \in db[t] : GoodKey(t, r.key)
      BY <1>1 DEF KeysInv
    <2>2. 0 .. IdMod - 1 \subseteq Nat
      BY IdAssumption
    <2> QED
      BY <2>1, <2>2 DEF GoodKey, Keys
  <1>3. IsFiniteSet(Keys(t))
    BY <1>1, KeysFinite
  <1>4. /\ Ascending(SortedKeys(t))
        /\ \A k : (\E n \in 1 .. Len(SortedKeys(t)) : SortedKeys(t)[n] = k) <=> k \in Keys(t)
    BY <1>2, <1>3, SortedFacts
  <1>5. DOMAIN SortedKeys(t) = 1 .. Len(SortedKeys(t))
    BY <1>4 DEF Ascending
  <1> QED
    BY <1>2, <1>4, <1>5 DEF DataIsExist

\* Wherever the search broke off, the walk along its list gives an id.
LEMMA WalkNumber ==
    ASSUME NEW list, Ascending(list), NEW short \in CutShort(list), NEW first \in Nat
    PROVE  Walk(short, first) \in Nat /\ first <= Walk(short, first)
  <1>1. PICK c \in 0 .. Len(list) : short = SubSeq(list, 1, c)
    BY DEF CutShort
  <1>2. list \in Seq(Nat) /\ Len(list) \in Nat
    BY DEF Ascending
  <1>3. Len(short) = c /\ c \in Nat
    BY <1>1, <1>2
  <1> DEFINE W == {n \in 0 .. Len(short) : \A i \in 1 .. n : short[i] = first + i - 1}
  <1>4. Max(W) \in W
    <2>1. 0 \in W
      BY <1>3
    <2>2. Len(short) \in Nat
      BY <1>3
    <2>3. W \subseteq 0 .. Len(short) /\ W # {}
      BY <2>1
    <2> HIDE DEF W
    <2>4. W \in SUBSET Nat /\ \A x \in W : x <= Len(short)
      BY <2>2, <2>3
    <2> QED
      BY <2>2, <2>3, <2>4, MaxFacts
  <1>5. Max(W) \in Nat
    BY <1>3, <1>4
  <1>6. Walk(short, first) = first + Max(W)
    BY DEF Walk
  <1> HIDE DEF W
  <1> QED
    BY <1>5, <1>6

\* Every id that is inserted is one the column can hold.
LEMMA NewKeys ==
    ASSUME DBInv, KeysInv
    PROVE  /\ \A k \in CallerIds \cup {DBUnUsedSceneId(list) : list \in CutShort(SceneTableSearch)} : GoodKey("Scene", k)
           /\ \A k \in CallerIds \cup {DBUnUsedProfileId(list) : list \in CutShort(ProfileTableSearch)} : GoodKey("Profile", k)
           /\ \A list \in CutShort(RoomTableSearch) : GoodKey("Room", DBUnUsedRoomId(list))
  <1>1. \A t \in {"Scene", "Profile", "Room"} : Ascending(SortedKeys(t))
    BY SearchFacts
  <1>2. \A w \in Nat : w % IdMod \in 0 .. IdMod - 1
    BY IdAssumption
  <1>3. ASSUME NEW list \in CutShort(SceneTableSearch) PROVE DBUnUsedSceneId(list) \in 0 .. IdMod - 1
    <2>1. Walk(list, 1) \in Nat
      BY <1>1, WalkNumber DEF SceneTableSearch
    <2> QED
      BY <1>2, <2>1 DEF DBUnUsedSceneId
  <1>4. ASSUME NEW list \in CutShort(ProfileTableSearch) PROVE DBUnUsedProfileId(list) \in 0 .. IdMod - 1
    <2>1. Walk(list, 1) \in Nat
      BY <1>1, WalkNumber DEF ProfileTableSearch
    <2> QED
      BY <1>2, <2>1 DEF DBUnUsedProfileId
  <1>5. ASSUME NEW list \in CutShort(RoomTableSearch) PROVE GoodKey("Room", DBUnUsedRoomId(list))
    <2>1. Walk(list, RoomBase) \in Nat /\ RoomBase <= Walk(list, RoomBase)
      BY <1>1, WalkNumber, RoomAssumption DEF RoomTableSearch
    <2> QED
      BY <2>1 DEF DBUnUsedRoomId, GoodKey
  <1>6. \A k \in 0 .. IdMod - 1 : GoodKey("Scene", k) /\ GoodKey("Profile", k)
    BY DEF GoodKey
  <1>7. CallerIds \subseteq 0 .. IdMod - 1
    BY IdAssumption
  <1> QED
    BY <1>3, <1>4, <1>5, <1>6, <1>7

\* The steps, by what they do to the rows.
Inserting == \E t \in Things : \E k : GoodKey(t, k) /\ Insert(t, k)
Deleting == \E t \in Tables : \E gone : DeleteRows(t, gone)
Reporting == \E k : \E mask \in Masks : DeviceTableUpdate(k, mask)
Updating == \E t \in Things \ {"Device"} : \E k, m, writes : Update(t, k, m, writes)
Switching == \E p, n : ProfileTableOnOff(p, n)
Linking == \E t \in Links : \E a, b : InsertLink(t, a, b)
Relinking == \/ \E s, p : ProfileListTableUpdate(s, p)
             \/ \E d, r : RoomListTableUpdate(d, r)
StepKind == \/ Inserting \/ Deleting \/ Reporting \/ Updating \/ Switching
            \/ Linking \/ Relinking
            \/ db' = db /\ seq' = seq /\ clock' = clock

LEMMA StepKinds ==
    ASSUME DBInv, KeysInv, [Next]_dbVars
    PROVE  StepKind
  <1>1. /\ \A t \in {"Device", "Linkage"} : \A k : GoodKey(t, k)
        /\ {"Device", "Scene", "Profile", "Room", "Linkage"} \subseteq Things
        /\ {"Scene", "Profile", "Room"} \subseteq Things \ {"Device"}
        /\ {"SceneDevice", "ProfileList", "RoomList"} \subseteq Links
        /\ {"Device", "Scene", "Profile", "Room", "Linkage", "SceneDevice", "ProfileList", "RoomList"} \subseteq Tables
    BY DEF GoodKey, Things, Links, Tables
  <1>2. CASE DeviceCalls
    <2>1. ASSUME NEW k, DeviceTableAddRecord(k) PROVE Inserting
      BY <1>1, <2>1 DEF DeviceTableAddRecord, Inserting
    <2>2. ASSUME NEW k, DeviceTableDelete(k) \/ DeviceTableClear PROVE Deleting
      BY <1>1, <2>2 DEF DeviceTableDelete, DeviceTableClear, DeleteKey, Clear, Deleting
    <2> QED
      BY <1>2, <2>1, <2>2 DEF DeviceCalls, Reporting, StepKind
  <1>3. CASE RoomCalls
    <2>1. ASSUME NEW k, LinkageTableAddRecord(k) PROVE Inserting
      BY <1>1, <2>1 DEF LinkageTableAddRecord, Inserting
    <2>2. ASSUME RoomTableAddRecord PROVE Inserting
      BY <1>1, <2>2, NewKeys DEF RoomTableAddRecord, Inserting
    <2>3. ASSUME NEW k, LinkageTableDelete(k) \/ RoomTableDelete(k) PROVE Deleting
      BY <1>1, <2>3 DEF LinkageTableDelete, RoomTableDelete, DeleteKey, Deleting
    <2>4. ASSUME NEW k, RoomListTableDelete(k) \/ RoomListTableDeleteUnderDevice(k) PROVE Deleting
      BY <1>1, <2>4 DEF RoomListTableDelete, RoomListTableDeleteUnderDevice, Deleting
    <2>5. ASSUME LinkageTableClear \/ RoomTableClear \/ RoomListTableClear PROVE Deleting
      BY <1>1, <2>5 DEF LinkageTableClear, RoomTableClear, RoomListTableClear, Clear, Deleting
    <2>6. ASSUME NEW k, NEW mask, RoomTableUpdate(k, mask) PROVE Updating
      BY <1>1, <2>6 DEF RoomTableUpdate, Updating
    <2>7. ASSUME NEW d, NEW r, RoomListTableAddRecord(d, r) PROVE Linking
      BY <1>1, <2>7 DEF RoomListTableAddRecord, Linking
    <2>8. ASSUME NEW d, NEW r, RoomListTableUpdate(d, r) PROVE Relinking
      BY <2>8 DEF Relinking
    <2> QED
      BY <1>3, <2>1, <2>2, <2>3, <2>4, <2>5, <2>6, <2>7, <2>8 DEF RoomCalls, StepKind
  <1>4. CASE ProfileCalls
    <2>1. ASSUME NEW k, SceneTableAddRecord(k), GoodKey("Scene", k) PROVE Inserting
      BY <1>1, <2>1 DEF SceneTableAddRecord, Inserting
    <2>2. ASSUME NEW k, ProfileTableAddRecord(k), GoodKey("Profile", k) PROVE Inserting
      BY <1>1, <2>2 DEF ProfileTableAddRecord, Inserting
    <2>3. ASSUME NEW k, SceneTableDelete(k) \/ ProfileTableDelete(k) PROVE Deleting
      BY <1>1, <2>3 DEF SceneTableDelete, ProfileTableDelete, DeleteKey, Deleting
    <2>4. ASSUME NEW s, SceneDeviceTableDelete(s) \/ ProfileListTableDelete(s) PROVE Deleting
      BY <1>1, <2>4 DEF SceneDeviceTableDelete, ProfileListTableDelete, Deleting
    <2>5. ASSUME SceneTableClear \/ ProfileTableClear \/ SceneDeviceTableClear \/ ProfileListTableClear PROVE Deleting
      BY <1>1, <2>5 DEF SceneTableClear, ProfileTableClear, SceneDeviceTableClear, ProfileListTableClear, Clear, Deleting
    <2>6. ASSUME NEW k, NEW mask, SceneTableUpdate(k, mask) \/ ProfileTableUpdate(k, mask) PROVE Updating
      BY <1>1, <2>6 DEF SceneTableUpdate, ProfileTableUpdate, Updating
    <2>7. ASSUME NEW p, NEW n, ProfileTableOnOff(p, n) PROVE Switching
      BY <2>7 DEF Switching
    <2>8. ASSUME NEW s, NEW p, SceneDeviceTableAddRecord(s, p) \/ ProfileListTableAddRecord(s, p) PROVE Linking
      BY <1>1, <2>8 DEF SceneDeviceTableAddRecord, ProfileListTableAddRecord, Linking
    <2>9. ASSUME NEW s, NEW p, ProfileListTableUpdate(s, p) PROVE Relinking
      BY <2>9 DEF Relinking
    <2>10. CASE \E k \in CallerIds \cup {DBUnUsedSceneId(list) : list \in CutShort(SceneTableSearch)} : SceneTableAddRecord(k)
      BY <2>1, <2>10, NewKeys DEF StepKind
    <2>11. CASE \E k \in CallerIds \cup {DBUnUsedProfileId(list) : list \in CutShort(ProfileTableSearch)} : ProfileTableAddRecord(k)
      BY <2>2, <2>11, NewKeys DEF StepKind
    <2> QED
      BY <1>4, <2>3, <2>4, <2>5, <2>6, <2>7, <2>8, <2>9, <2>10, <2>11 DEF ProfileCalls, StepKind
  <1>5. CASE Reopen \/ UNCHANGED dbVars
    BY <1>5 DEF Reopen, dbVars, StepKind
  <1> QED
    BY <1>2, <1>3, <1>4, <1>5 DEF Next

\* Only an insertion brings a key that was not there.
KeysKept == \A t \in Things : \A r \in db'[t] : \E old \in db[t] : old.key = r.key

LEMMA WriteKeeps ==
    ASSUME DBInv, NEW t \in Things, NEW hit, NEW cols, NEW m, clock' = clock + 1,
           db' = [db EXCEPT ![t] = Rewritten(t, hit, cols, m)]
    PROVE  KeysKept /\ \A u \in Tables : u # t => db'[u] = db[u]
  <1>1. \A u \in Tables : db'[u] = IF u = t THEN Rewritten(t, hit, cols, m) ELSE db[u]
    BY DEF DBInv, Shapes
  <1>2. \A r \in db[t] : Written(r, cols, m).key = r.key
    BY WrittenRow
  <1>3. \A r \in Rewritten(t, hit, cols, m) : \E old \in db[t] : old.key = r.key
    BY <1>2 DEF Rewritten
  <1> QED
    BY <1>1, <1>3, Disjoint DEF KeysKept

LEMMA UpdateKeeps ==
    ASSUME DBInv, NEW t \in Things, NEW k, NEW m, NEW writes, Update(t, k, m, writes)
    PROVE  KeysKept /\ \A u \in Tables : u # t => db'[u] = db[u]
  <1>1. PICK n \in 0 .. Len(writes) :
          db' = [db EXCEPT ![t] = {IF r.key = k THEN Written(r, ToSet(SubSeq(writes, 1, n)), m) ELSE r
                                     : r \in db[t]}]
    BY DEF Update
  <1> DEFINE cols == ToSet(SubSeq(writes, 1, n))
             hit == {r \in db[t] : r.key = k}
  <1>2. db' = [db EXCEPT ![t] = Rewritten(t, hit, cols, m)]
    <2>1. Rewritten(t, hit, cols, m) = {IF r.key = k THEN Written(r, cols, m) ELSE r : r \in db[t]}
      BY DEF Rewritten
    <2> QED
      BY <1>1, <2>1
  <1>3. clock' = clock + 1
    BY DEF Update
  <1> HIDE DEF hit, cols
  <1> QED
    BY <1>2, <1>3, WriteKeeps

LEMMA SwitchKeeps ==
    ASSUME DBInv, NEW p, NEW n, ProfileTableOnOff(p, n)
    PROVE  KeysKept /\ \A u \in Tables : u # "Scene" => db'[u] = db[u]
  <1>1. PICK on : db' = [db EXCEPT !["Scene"] = Rewritten("Scene", on, {"onoff"}, 0)]
    BY DEF ProfileTableOnOff, Rewritten
  <1>2. clock' = clock + 1 /\ "Scene" \in Things
    BY DEF ProfileTableOnOff, Things
  <1> QED
    BY <1>1, <1>2, WriteKeeps

\* The list of a profile is a finite table.
LEMMA RelinkFinite ==
    ASSUME DBInv, IsFiniteSet(db["ProfileList"]), NEW s, NEW p, ProfileListTableUpdate(s, p)
    PROVE  IsFiniteSet(db'["ProfileList"])
  <1> DEFINE T == db["ProfileList"]
             f == [l \in T |-> IF l.b = p[2] THEN [l EXCEPT !.a = s[2], !.for = <<s[1], @[2]>>] ELSE l]
             U == db'["ProfileList"]
  <1>1. U = {f[l] : l \in T}
    <2>1. db' = [db EXCEPT !["ProfileList"] = {f[l] : l \in T}]
      BY DEF ProfileListTableUpdate
    <2>2. "ProfileList" \in DOMAIN db
      BY DEF DBInv, Shapes, Tables, Links
    <2> QED
      BY <2>1, <2>2
  <1>2. f \in [T -> {f[l] : l \in T}]
    OBVIOUS
  <1>3. IsFiniteSet(T)
    OBVIOUS
  <1> HIDE DEF f, T, U
  <1>4. f \in Surjection(T, U)
    BY <1>1, <1>2 DEF Surjection
  <1>5. IsFiniteSet(U)
    BY <1>3, <1>4, FS_Surjection
  <1> QED
    BY <1>5 DEF U

LEMMA ListStep == ListInv /\ [Next]_dbVars => ListInv'
  <1> SUFFICES ASSUME DBInv, KeysInv, IsFiniteSet(db["ProfileList"]), [Next]_dbVars
               PROVE  KeysInv' /\ IsFiniteSet(db'["ProfileList"])
    BY InvStep DEF ListInv
  <1> DEFINE p == "ProfileList"
  <1>1. p \in Tables /\ p \in Links /\ p \notin Things /\ p # "Scene"
    BY DEF Tables, Links, Things
  <1>2. DOMAIN db = Tables
    BY DEF DBInv, Shapes
  <1> HIDE DEF p
  <1>3. ASSUME KeysKept, db'[p] = db[p] PROVE KeysInv' /\ IsFiniteSet(db'["ProfileList"])
    <2>1. KeysInv'
      BY <1>3 DEF KeysInv, KeysKept, GoodKey
    <2> QED
      BY <1>3, <2>1 DEF p
  <1>4. CASE Inserting
    <2>0. PICK t \in Things : \E k : GoodKey(t, k) /\ Insert(t, k)
      BY <1>4 DEF Inserting
    <2>1. PICK k : GoodKey(t, k) /\ Insert(t, k)
      BY <2>0
    <2>2. db' = [db EXCEPT ![t] = @ \cup {NewRow(t, NextRow(t), k)}]
      BY <2>1 DEF Insert
    <2>3. \A u \in Tables : db'[u] = IF u = t THEN db[t] \cup {NewRow(t, NextRow(t), k)} ELSE db[u]
      BY <1>2, <2>2
    <2>4. NewRow(t, NextRow(t), k).key = k
      BY DEF NewRow
    <2>5. KeysInv'
      BY <2>1, <2>3, <2>4, Disjoint DEF KeysInv, GoodKey
    <2>6. db'[p] = db[p]
      BY <1>1, <2>3
    <2> QED
      BY <2>5, <2>6 DEF p
  <1>5. CASE Deleting
    <2>0. PICK t \in Tables : \E gone : DeleteRows(t, gone)
      BY <1>5 DEF Deleting
    <2>1. PICK gone : DeleteRows(t, gone)
      BY <2>0
    <2>2. \A u \in Tables : db'[u] \subseteq db[u]
      BY <1>2, <2>1 DEF DeleteRows
    <2>3. KeysInv'
      BY <2>2, Disjoint DEF KeysInv, GoodKey
    <2>4. db'[p] \in SUBSET db[p]
      BY <1>1, <2>2
    <2> QED
      BY <2>3, <2>4, FS_Subset DEF p
  <1>6. CASE Reporting \/ Updating
    <2>0. PICK t \in Things : \E k, m, writes : Update(t, k, m, writes)
      <3>1. "Device" \in Things
        BY DEF Things
      <3> QED
        BY <1>6, <3>1 DEF Reporting, Updating, DeviceTableUpdate
    <2>1. PICK k, m, writes : Update(t, k, m, writes)
      BY <2>0
    <2>2. KeysKept /\ db'[p] = db[p]
      BY <1>1, <2>1, UpdateKeeps
    <2> QED
      BY <1>3, <2>2
  <1>7. CASE Switching
    <2>1. KeysKept /\ db'[p] = db[p]
      BY <1>1, <1>7, SwitchKeeps DEF Switching
    <2> QED
      BY <1>3, <2>1
  <1>8. CASE Linking
    <2>0. PICK t \in Links : \E a, b : InsertLink(t, a, b)
      BY <1>8 DEF Linking
    <2>1. PICK a, b : InsertLink(t, a, b)
      BY <2>0
    <2> DEFINE row == [idx |-> NextRow(t), a |-> a[2], b |-> b[2], for |-> <<a[1], b[1]>>]
    <2>2. db' = [db EXCEPT ![t] = @ \cup {row}]
      BY <2>1 DEF InsertLink
    <2> HIDE DEF row
    <2>3. \A u \in Tables : db'[u] = IF u = t THEN db[u] \cup {row} ELSE db[u]
      BY <1>2, <2>2
    <2>4. KeysKept
      BY <2>3, Disjoint DEF KeysKept
    <2>5. db'[p] = db[p] \/ db'[p] = db[p] \cup {row}
      BY <1>1, <2>3
    <2>6. CASE db'[p] = db[p]
      BY <1>3, <2>4, <2>6
    <2>7. CASE db'[p] = db[p] \cup {row}
      <3>1. IsFiniteSet(db[p] \cup {row})
        BY FS_AddElement DEF p
      <3>2. KeysInv'
        BY <2>4 DEF KeysInv, KeysKept, GoodKey
      <3> QED
        BY <2>7, <3>1, <3>2 DEF p
    <2> QED
      BY <2>5, <2>6, <2>7
  <1>9. CASE \E s, q : ProfileListTableUpdate(s, q)
    <2>1. PICK s, q : ProfileListTableUpdate(s, q)
      BY <1>9
    <2>2. \A t \in Things : db'[t] = db[t]
      BY <1>1, <1>2, <2>1, Disjoint DEF ProfileListTableUpdate, p
    <2>3. KeysInv'
      BY <2>2 DEF KeysInv, GoodKey
    <2> QED
      BY <2>1, <2>3, RelinkFinite
  <1>10. CASE \E d, r : RoomListTableUpdate(d, r)
    <2>1. "RoomList" \notin Things /\ p # "RoomList"
      BY DEF Things, p
    <2>2. \A t \in Tables : t # "RoomList" => db'[t] = db[t]
      BY <1>2, <1>10 DEF RoomListTableUpdate
    <2>3. KeysKept /\ db'[p] = db[p]
      BY <1>1, <2>1, <2>2, Disjoint DEF KeysKept
    <2> QED
      BY <1>3, <2>3
  <1>11. CASE db' = db
    BY <1>3, <1>11 DEF KeysKept
  <1> QED
    BY <1>4, <1>5, <1>6, <1>7, <1>8, <1>9, <1>10, <1>11, StepKinds DEF StepKind, Relinking

LEMMA ListInit == Init => ListInv
  <1> SUFFICES ASSUME Init PROVE KeysInv /\ IsFiniteSet(db["ProfileList"])
    BY InvInit DEF ListInv
  <1>1. \A t \in Tables : db[t] = IF t = "Room" THEN {NewRow("Room", n, ShippedRooms[n]) : n \in DOMAIN ShippedRooms}
                                  ELSE {}
    BY DEF Init
  <1>2. \A n \in DOMAIN ShippedRooms : GoodKey("Room", NewRow("Room", n, ShippedRooms[n]).key)
    BY RoomAssumption DEF GoodKey, NewRow
  <1>3. KeysInv
    <2> SUFFICES ASSUME NEW t \in Things, NEW r \in db[t] PROVE GoodKey(t, r.key)
      BY DEF KeysInv
    <2>1. t = "Room" /\ \E n \in DOMAIN ShippedRooms : r = NewRow("Room", n, ShippedRooms[n])
      BY <1>1, Disjoint
    <2> QED
      BY <1>2, <2>1
  <1>4. db["ProfileList"] = {}
    BY <1>1 DEF Tables, Links
  <1> QED
    BY <1>3, <1>4, FS_EmptySet

LEMMA ListsKept == Spec => []ListInv
  <1> QED
    BY ListInit, ListStep, PTL DEF Spec

(* Read to its end, a table of scenes, profiles or rooms gives the lowest id that
   no row has: for every state the calls can reach, with ids that callers chose,
   holes that deletes left and the wrap of the 16-bit counter, as long as no
   scene or profile has id 0. *)
THEOREM UnUsedIdsAreFree == Spec => []UnUsedIsFree
  <1>1. ASSUME DBInv, KeysInv, NEW t \in {"Scene", "Profile"}, 0 \notin Keys(t)
        PROVE  LowestFree(Walk(SortedKeys(t), 1) % IdMod, 1, SortedKeys(t))
    <2> DEFINE list == SortedKeys(t)
               w == Walk(list, 1)
    <2>1. /\ Keys(t) \subseteq Nat /\ Ascending(list)
          /\ \A k : DataIsExist(list, k) <=> k \in Keys(t)
          /\ \A n \in 1 .. Len(list) : list[n] \in Keys(t)
      BY <1>1, SearchFacts
    <2>2. \A k \in Keys(t) : k \in 0 .. IdMod - 1
      BY <1>1 DEF KeysInv, GoodKey, Keys, Things
    <2>3. \A n \in 1 .. Len(list) : 1 <= list[n]
      BY <1>1, <2>1
    <2>4. w \in Nat /\ 1 <= w /\ LowestFree(w, 1, list)
      <3> HIDE DEF list
      <3> QED
        BY <2>1, <2>3, WalkFree DEF w
    <2> HIDE DEF w
    <2>5. w <= IdMod
      <3> SUFFICES ASSUME w > IdMod PROVE FALSE
        BY <2>4, IdAssumption
      <3>1. IdMod \in 1 .. w - 1
        BY <2>4, IdAssumption
      <3>2. IdMod \in Keys(t)
        BY <2>1, <2>4, <3>1 DEF LowestFree
      <3> QED
        BY <2>2, <3>2, IdAssumption
    <2>6. CASE w < IdMod
      <3>1. w % IdMod = w
        BY <2>4, <2>6, IdAssumption
      <3> QED
        BY <2>4, <3>1 DEF w
    <2>7. CASE w = IdMod
      <3>1. w % IdMod = 0
        BY <2>7, IdAssumption
      <3>2. 1 .. 0 - 1 = {}
        OBVIOUS
      <3>3. LowestFree(0, 1, list)
        BY <1>1, <2>1, <3>2 DEF LowestFree
      <3> QED
        BY <3>1, <3>3 DEF w
    <2> QED
      BY <2>4, <2>5, <2>6, <2>7, IdAssumption
  <1>2. ASSUME DBInv, KeysInv
        PROVE  LowestFree(Walk(SortedKeys("Room"), RoomBase), RoomBase, SortedKeys("Room"))
    <2>1. /\ Ascending(SortedKeys("Room"))
          /\ \A n \in 1 .. Len(SortedKeys("Room")) : SortedKeys("Room")[n] \in Keys("Room")
      BY <1>2, SearchFacts
    <2>2. \A k \in Keys("Room") : RoomBase <= k
      BY <1>2 DEF KeysInv, GoodKey, Keys, Things
    <2> QED
      BY <2>1, <2>2, WalkFree, RoomAssumption
  <1>3. ListInv => UnUsedIsFree
    BY <1>1, <1>2 DEF ListInv, UnUsedIsFree, DBUnUsedSceneId, DBUnUsedProfileId, DBUnUsedRoomId,
                      SceneTableSearch, ProfileTableSearch, RoomTableSearch
  <1> QED
    BY <1>3, ListsKept, PTL

-----------------------------------------------------------------------------
(* Switching a profile *)

\* When every statement ran, the rows of the list that were switched are all.
LEMMA AllOfList ==
    ASSUME NEW list, IsFiniteSet(list), \A l \in list : l.idx \in Nat
    PROVE  {l \in list : Cardinality({m \in list : m.idx < l.idx}) < Cardinality(list)} = list
  <1> DEFINE Older(l) == {m \in list : m.idx < l.idx}
  <1>1. ASSUME NEW l \in list PROVE Cardinality(Older(l)) < Cardinality(list)
    <2>1. Older(l) \in SUBSET list /\ l \notin Older(l)
      OBVIOUS
    <2> DEFINE O == Older(l)
    <2>2. O \in SUBSET list /\ O # list
      BY <2>1
    <2> HIDE DEF O
    <2>3. IsFiniteSet(O) /\ Cardinality(O) <= Cardinality(list) /\ Cardinality(O) # Cardinality(list)
      BY <2>2, FS_Subset
    <2>4. Cardinality(O) \in Nat /\ Cardinality(list) \in Nat
      BY <2>3, FS_CardinalityType
    <2>5. Cardinality(O) < Cardinality(list)
      BY <2>3, <2>4
    <2> QED
      BY <2>5 DEF O
  <1> QED
    BY <1>1

\* The rows of a table of scenes that were written in this call.
LEMMA SwitchedRows ==
    ASSUME DBInv, NEW on, clock' = clock + 1,
           db' = [db EXCEPT !["Scene"] = Rewritten("Scene", on, {"onoff"}, 0)]
    PROVE  {s.key : s \in {e \in db'["Scene"] : e.ver["onoff"] = clock'}} = {s.key : s \in db["Scene"] \cap on}
  <1> DEFINE A == {s.key : s \in {e \in db'["Scene"] : e.ver["onoff"] = clock'}}
             B == {s.key : s \in db["Scene"] \cap on}
             W(s) == IF s \in on THEN Written(s, {"onoff"}, 0) ELSE s
  <1>1. "Scene" \in Things /\ "Scene" \in Tables
    BY DEF Things, Tables
  <1>2. db'["Scene"] = {W(s) : s \in db["Scene"]}
    BY <1>1 DEF DBInv, Shapes, Rewritten
  <1>3. "onoff" \in ColumnSet("Scene")
    <2>1. SceneStatements \in Seq({<<1, "timespan">>, <<2, "onoff">>, <<4, "repeatmode">>})
          /\ Len(SceneStatements) = 3 /\ SceneStatements[2] = <<2, "onoff">>
      BY DEF SceneStatements
    <2>a. 2 \in DOMAIN SceneStatements
      BY <2>1
    <2>2. <<2, "onoff">> \in ToSet(SceneStatements)
      BY <2>a, <2>1 DEF ToSet
    <2> QED
      BY <2>2 DEF ColumnSet
  <1>4. ASSUME NEW s \in db["Scene"]
        PROVE  W(s).key = s.key /\ (W(s).ver["onoff"] = clock' <=> s \in on)
    <2>1. ThingRow("Scene", s) /\ clock \in Nat
      <3>1. ThingRow("Scene", s)
        BY <1>1 DEF DBInv, ThingsInv
      <3>2. clock \in Nat
        BY MaskAssumption DEF DBInv, Shapes
      <3> QED
        BY <3>1, <3>2
    <2>2. s.ver["onoff"] \in 0 .. clock /\ "onoff" \in DOMAIN s.ver
          /\ s = [idx |-> s.idx, key |-> s.key, ver |-> s.ver, report |-> s.report]
      BY <1>3, <2>1 DEF ThingRow
    <2>3. s.ver["onoff"] # clock'
      BY <2>1, <2>2
    <2>4. CASE s \in on
      <3> DEFINE v == [c \in DOMAIN s.ver |-> IF c \in {"onoff"} THEN clock + 1 ELSE s.ver[c]]
      <3>1. v["onoff"] = clock'
        BY <2>2
      <3> DEFINE p == IF "deviceisonline" \in {"onoff"} THEN 0 ELSE s.report
      <3>2. W(s) = [s EXCEPT !.ver = v, !.report = p]
        BY <2>4 DEF Written
      <3> HIDE DEF v, p, W
      <3>3. W(s).ver = v /\ W(s).key = s.key
        BY <2>2, <3>2
      <3> QED
        BY <2>4, <3>1, <3>3
    <2>5. CASE s \notin on
      BY <2>3, <2>5
    <2> QED
      BY <2>4, <2>5
  <1> HIDE DEF W
  <1>5. \A x : x \in A <=> x \in B
    <2> TAKE x
    <2>1. x \in A <=> \E e \in db'["Scene"] : e.ver["onoff"] = clock' /\ x = e.key
      OBVIOUS
    <2>2. x \in B <=> \E s \in db["Scene"] : s \in on /\ x = s.key
      OBVIOUS
    <2> HIDE DEF A, B
    <2> QED
      BY <1>2, <1>4, <2>1, <2>2
  <1> HIDE DEF A, B
  <1>6. A = B
    BY <1>5
  <1> QED
    BY <1>6 DEF A, B

(* ProfileTableOnOff switches only scenes that the profile's list names, and all
   of them when no statement fails, whatever state the tables are in. *)
THEOREM SwitchesOnlyListed == Spec => SwitchesListed
  <1> DEFINE Step == \A p \in Keys("Profile") : \A n \in 0 .. MaxInserts :
                       ProfileTableOnOff(p, n) =>
                          LET switched == {s.key : s \in {e \in db'["Scene"] : e.ver["onoff"] = clock'}}
                          IN  /\ switched \subseteq ProfileSceneListSearch(p)
                              /\ n = Cardinality(Under("ProfileList", ProfileTableSearchOne(p)))
                                    => switched = ProfileSceneListSearch(p)
  <1>1. ASSUME ListInv PROVE Step
    <2> SUFFICES ASSUME NEW p \in Keys("Profile"), NEW n \in 0 .. MaxInserts, ProfileTableOnOff(p, n)
                 PROVE  LET switched == {s.key : s \in {e \in db'["Scene"] : e.ver["onoff"] = clock'}}
                        IN  /\ switched \subseteq ProfileSceneListSearch(p)
                            /\ n = Cardinality(Under("ProfileList", ProfileTableSearchOne(p)))
                                  => switched = ProfileSceneListSearch(p)
      OBVIOUS
    <2> DEFINE list == Under("ProfileList", ProfileTableSearchOne(p))
               first == {l \in list : Cardinality({m \in list : m.idx < l.idx}) < n}
               on == UNION {SwitchedScene(l) : l \in first}
               switched == {s.key : s \in {e \in db'["Scene"] : e.ver["onoff"] = clock'}}
    <2>1. DBInv /\ IsFiniteSet(db["ProfileList"])
      BY <1>1 DEF ListInv
    <2>2. clock' = clock + 1 /\ db' = [db EXCEPT !["Scene"] = Rewritten("Scene", on, {"onoff"}, 0)]
      BY DEF ProfileTableOnOff, Rewritten
    <2>3. switched = {s.key : s \in db["Scene"] \cap on}
      <3> HIDE DEF on
      <3> QED
        BY <2>1, <2>2, SwitchedRows
    <2>4. \A s : s \in on <=> \E l \in first : s \in db["Scene"] /\ s.idx = l.a
      <3> HIDE DEF first
      <3> QED
        BY DEF SwitchedScene
    <2>5. first \subseteq list
      OBVIOUS
    <2>6. n = Cardinality(list) => first = list
      <3>1. list \in SUBSET db["ProfileList"]
        BY DEF Under
      <3>2. \A l \in list : l.idx \in Nat
        <4>1. "ProfileList" \in Links
          BY DEF Links
        <4> QED
          BY <2>1, <3>1, <4>1 DEF DBInv, LinksInv, LinkRow
      <3> HIDE DEF list
      <3>3. IsFiniteSet(list)
        BY <2>1, <3>1, FS_Subset
      <3> QED
        BY <3>2, <3>3, AllOfList
    <2>7. ProfileSceneListSearch(p) = {s.key : s \in {e \in db["Scene"] : \E l \in list : e.idx = l.a}}
      BY DEF ProfileSceneListSearch
    <2> HIDE DEF list, first, on, switched
    <2>8. switched \subseteq ProfileSceneListSearch(p)
      BY <2>3, <2>4, <2>5, <2>7
    <2>9. ASSUME first = list PROVE ProfileSceneListSearch(p) \subseteq switched
      BY <2>3, <2>4, <2>7, <2>9
    <2> QED
      BY <2>6, <2>8, <2>9 DEF list, switched
  <1>2. ListInv => [Step]_dbVars
    BY <1>1
  <1> QED
    BY <1>2, ListsKept, PTL DEF SwitchesListed

-----------------------------------------------------------------------------
(* Reports that break off *)

Words == {"deviceid", "username", "address", "macaddress", "devicetype", "deviceonoff",
          "devicevalue1", "devicevalue2", "deviceisonline", "deviceappend"}

\* The statements by their place: that of the online column is the last.
StatementsKnown(s) ==
    /\ s \in Seq(Nat \X Words) /\ Len(s) = 9
    /\ s[1][1] = DEVICEID /\ s[1][2] = "deviceid"
    /\ s[2][1] = DEVICEUSERNAME /\ s[2][2] = "username"
    /\ s[9][1] = DEVICEISONLINE /\ s[9][2] = "deviceisonline"
    /\ \A k \in 1 .. 9 : /\ s[k][2] = "deviceisonline" => k = 9
                         /\ s[k][2] # "deviceappend"

LEMMA StatementFacts == StatementsKnown(DeviceStatements)
  <1> DEFINE s == DeviceStatements
  <1>1. {DEVICEID, DEVICEUSERNAME, DEVICEADDRESS, DEVICEMACADDRESS, DEVICETYPE, DEVICEONOFF,
         DEVICEVALUE1, DEVICEVALUE2, DEVICEISONLINE} \subseteq Nat
    BY DEF DEVICEID, DEVICEUSERNAME, DEVICEADDRESS, DEVICEMACADDRESS, DEVICETYPE, DEVICEONOFF,
           DEVICEVALUE1, DEVICEVALUE2, DEVICEISONLINE
  <1>2. Len(s) = 9 /\ s = [k \in 1 .. 9 |-> s[k]]
    BY DEF DeviceStatements
  <1>3. /\ s[1] = <<DEVICEID, "deviceid">>
        /\ s[2] = <<DEVICEUSERNAME, "username">>
        /\ s[3] = <<DEVICEADDRESS, "address">>
        /\ s[4] = <<DEVICEMACADDRESS, "macaddress">>
        /\ s[5] = <<DEVICETYPE, "devicetype">>
        /\ s[6] = <<DEVICEONOFF, "deviceonoff">>
        /\ s[7] = <<DEVICEVALUE1, "devicevalue1">>
        /\ s[8] = <<DEVICEVALUE2, "devicevalue2">>
        /\ s[9] = <<DEVICEISONLINE, "deviceisonline">>
    BY DEF DeviceStatements
  <1> HIDE DEF s
  <1>4. ASSUME NEW k \in 1 .. 9
        PROVE  /\ s[k] \in Nat \X Words
               /\ s[k][2] = "deviceisonline" => k = 9
               /\ s[k][2] # "deviceappend"
    <2>1. k = 1 \/ k = 2 \/ k = 3 \/ k = 4 \/ k = 5 \/ k = 6 \/ k = 7 \/ k = 8 \/ k = 9
      OBVIOUS
    <2>3. s[k] \in Nat \X Words
      <3>1. /\ s[1] \in Nat \X Words /\ s[2] \in Nat \X Words /\ s[3] \in Nat \X Words
            /\ s[4] \in Nat \X Words /\ s[5] \in Nat \X Words /\ s[6] \in Nat \X Words
            /\ s[7] \in Nat \X Words /\ s[8] \in Nat \X Words /\ s[9] \in Nat \X Words
        BY <1>1, <1>3 DEF Words
      <3> QED
        BY <2>1, <3>1, Zenon
    <2>4. CASE k = 1 \/ k = 2 \/ k = 3 \/ k = 4 \/ k = 5 \/ k = 6
      <3>1. s[k][2] \in {"deviceid", "username", "address", "macaddress", "devicetype", "deviceonoff"}
        BY <1>3, <2>4
      <3> QED
        BY <2>3, <3>1
    <2>5. CASE k = 7 \/ k = 8 \/ k = 9
      BY <1>3, <2>3, <2>5
    <2> QED
      BY <2>1, <2>4, <2>5
  <1>5. s \in Seq(Nat \X Words)
    <2>1. \E n \in Nat : s \in [1 .. n -> Nat \X Words]
      <3>1. s \in [1 .. 9 -> Nat \X Words]
        BY <1>2, <1>4
      <3>2. 9 \in Nat
        OBVIOUS
      <3> QED
        BY <3>1, <3>2, Zenon
    <2> QED
      BY <2>1
  <1>6. /\ s[1][1] = DEVICEID /\ s[1][2] = "deviceid"
        /\ s[2][1] = DEVICEUSERNAME /\ s[2][2] = "username"
        /\ s[9][1] = DEVICEISONLINE /\ s[9][2] = "deviceisonline"
    BY <1>3
  <1>7. StatementsKnown(s)
    BY <1>2, <1>4, <1>5, <1>6 DEF StatementsKnown
  <1> QED
    BY <1>7 DEF s

\* The statement x stands in s at j only.
OnlyPlace(s, x, j) == \A k \in 1 .. Len(s) : s[k] = x => k = j

\* Of the statements that a mask selects, an earlier one has run whenever a later
\* one has.
LEMMA PrefixOrder ==
    ASSUME NEW T, NEW s \in Seq(T), NEW S, NEW n \in 0 .. Len(Filter(s, S)),
           NEW i \in 1 .. Len(s), NEW m \in 1 .. n,
           NEW j \in 1 .. Len(s), i < j, s[i] \in S,
           OnlyPlace(s, Filter(s, S)[m], j)
    PROVE  \E e \in 1 .. n : Filter(s, S)[e] = s[i]
  <1> DEFINE g == Filter(s, S)
  <1>1. g \in Seq(T) /\ \E f : Picks(f, g, s, S, Len(s))
    BY FilterPicks
  <1> HIDE DEF g
  <1>2. PICK f : Picks(f, g, s, S, Len(s))
    BY <1>1
  <1>3. Len(g) \in Nat /\ n \in 0 .. Len(g) /\ m \in 1 .. Len(g) /\ m <= n
    BY <1>1 DEF g
  <1>4. f[m] \in 1 .. Len(s) /\ g[m] = s[f[m]]
    BY <1>2, <1>3 DEF Picks
  <1>5. f[m] = j
    BY <1>4 DEF g, OnlyPlace
  <1>6. PICK e \in 1 .. Len(g) : f[e] = i
    BY <1>2 DEF Picks
  <1>7. e < m
    <2>1. m < e => f[m] < f[e]
      BY <1>2, <1>3 DEF Picks
    <2>2. i \in Nat /\ j \in Nat /\ m \in Nat /\ e \in Nat
      BY <1>3
    <2> QED
      BY <1>5, <1>6, <2>1, <2>2
  <1>8. e \in 1 .. n
    BY <1>3, <1>7
  <1>9. g[e] = s[i]
    BY <1>2, <1>6 DEF Picks
  <1> QED
    BY <1>8, <1>9 DEF g

\* What the first n statements of a report wrote: with the online column, every
\* column of the report.
LEMMA ReportOrder ==
    ASSUME NEW mask \in Masks, NEW n \in 0 .. Len(DeviceWrites(mask))
    PROVE  LET cols == ToSet(SubSeq(DeviceWrites(mask), 1, n))
           IN  /\ "deviceisonline" \in cols => Reported(mask) \subseteq cols
               /\ "deviceappend" \in cols => "deviceid" \in cols /\ "username" \in cols
  <1> DEFINE s == DeviceStatements
             S == {x \in ToSet(s) : HasBit(mask, x[1])}
             g == Filter(s, S)
             sel == [i \in 1 .. Len(g) |-> g[i][2]]
             tail == IF mask = DEVICEAPPEND THEN <<"deviceappend">> ELSE <<>>
             w == DeviceWrites(mask)
             cols == ToSet(SubSeq(w, 1, n))
             T == Nat \X Words
  <1>1. StatementsKnown(s)
    BY StatementFacts
  <1>2. s \in Seq(T) /\ Len(s) = 9 /\ DOMAIN s = 1 .. 9
    <2> HIDE DEF s
    <2>1. s \in Seq(T) /\ Len(s) = 9
      BY <1>1 DEF StatementsKnown
    <2> QED
      BY <2>1
  <1>3. \A k \in 1 .. 9 : s[k] \in S <=> HasBit(mask, s[k][1])
    <2> HIDE DEF s
    <2>1. \A k \in 1 .. 9 : s[k] \in ToSet(s)
      BY <1>2 DEF ToSet
    <2> QED
      BY <2>1
  <1>4. g \in Seq(T) /\ Elems(g) = Elems(s) \cap S
    <2> HIDE DEF s, S, T
    <2> QED
      BY <1>2, FilterFacts
  <1>5. DOMAIN g = 1 .. Len(g) /\ Len(g) \in Nat
    <2> HIDE DEF g
    <2> QED
      BY <1>4
  <1>6. w = sel \o tail
    BY <1>5 DEF DeviceWrites, Selected
  <1> HIDE DEF s, S, g, w
  <1>7. \A i \in 1 .. Len(g) : g[i] \in S /\ \E k \in 1 .. 9 : g[i] = s[k]
    BY <1>2, <1>4 DEF Elems
  <1>8. sel \in Seq(Words) /\ Len(sel) = Len(g) /\ \A i \in 1 .. Len(g) : sel[i] = g[i][2]
    <2>1. \A i \in 1 .. Len(g) : g[i][2] \in Words
      BY <1>4
    <2> QED
      BY <1>5, <2>1
  <1> HIDE DEF T, sel
  <1>9. /\ w \in Seq(Words) /\ Len(w) \in Nat /\ Len(g) <= Len(w)
        /\ \A i \in 1 .. Len(g) : w[i] = g[i][2]
        /\ \A i \in 1 .. Len(w) : i \in 1 .. Len(g) \/ (mask = DEVICEAPPEND /\ i = Len(g) + 1 /\ w[i] = "deviceappend")
    <2>1. CASE mask # DEVICEAPPEND
      <3>1. tail = <<>>
        BY <2>1
      <3> HIDE DEF tail
      <3>2. w = sel
        BY <1>6, <1>8, <3>1
      <3> QED
        BY <1>5, <1>8, <3>2
    <2>2. CASE mask = DEVICEAPPEND
      <3>1. tail = <<"deviceappend">>
        BY <2>2
      <3> HIDE DEF tail
      <3>2. w = Append(sel, "deviceappend")
        BY <1>6, <1>8, <3>1
      <3> DEFINE x == "deviceappend"
      <3>3. x \in Words /\ w = Append(sel, x)
        BY <3>2 DEF Words
      <3> HIDE DEF x
      <3>4. w \in Seq(Words) /\ Len(w) = Len(g) + 1 /\ w[Len(g) + 1] = x
        <4>1. w \in Seq(Words) /\ Len(w) = Len(sel) + 1 /\ w[Len(sel) + 1] = x
          BY <1>8, <3>3
        <4> QED
          BY <1>8, <4>1
      <3>5. \A i \in 1 .. Len(g) : w[i] = g[i][2]
        <4>1. \A i \in 1 .. Len(sel) : w[i] = sel[i]
          BY <1>8, <3>3
        <4> QED
          BY <1>8, <4>1
      <3> QED
        BY <1>5, <2>2, <3>4, <3>5 DEF x
    <2> QED
      BY <2>1, <2>2
  <1> HIDE DEF tail
  <1>10. n \in 0 .. Len(w)
    BY DEF w
  <1>11. \A c : c \in cols <=> \E i \in 1 .. n : w[i] = c
    <2>1. Len(SubSeq(w, 1, n)) = n /\ SubSeq(w, 1, n) \in Seq(Words)
          /\ \A i \in 1 .. n : SubSeq(w, 1, n)[i] = w[i]
      BY <1>9, <1>10
    <2>2. DOMAIN SubSeq(w, 1, n) = 1 .. n
      BY <2>1
    <2> QED
      BY <2>1, <2>2 DEF ToSet
  <1> HIDE DEF cols
  <1>12. ASSUME NEW i \in 1 .. 9, NEW j \in 1 .. 9, i < j, s[j][2] \in cols,
                HasBit(mask, s[j][1]) => HasBit(mask, s[i][1]),
                \A k \in 1 .. 9 : s[k][2] = s[j][2] => k = j
         PROVE  s[i][2] \in cols
    <2>0. s[j][2] # "deviceappend"
      BY <1>1 DEF StatementsKnown
    <2>1. PICK m \in 1 .. n : w[m] = s[j][2]
      BY <1>11, <1>12
    <2>2. m \in 1 .. Len(w) /\ n \in Nat
      BY <1>9, <1>10
    <2>3. m \in 1 .. Len(g)
      BY <1>9, <2>0, <2>1, <2>2
    <2>4. g[m][2] = s[j][2]
      BY <1>9, <2>1, <2>3
    <2>5. \A k \in 1 .. 9 : s[k] = g[m] => k = j
      BY <1>12, <2>4
    <2>6. s[i] \in S
      <3>1. s[j] \in S
        BY <1>7, <2>3, <2>5
      <3> QED
        BY <1>3, <1>12, <3>1, Zenon
    <2>7. \E e \in 1 .. Len(g) : e <= n /\ g[e] = s[i]
      <3>1. CASE n <= Len(g)
        <4>1. n \in 0 .. Len(g)
          BY <1>5, <2>2, <3>1
        <4>2. \E e \in 1 .. n : g[e] = s[i]
          <5>1. i \in 1 .. Len(s) /\ j \in 1 .. Len(s) /\ OnlyPlace(s, g[m], j)
            BY <1>2, <2>5 DEF OnlyPlace
          <5>2. i < j /\ s \in Seq(T)
            BY <1>2, <1>12
          <5> QED
            BY <2>1, <2>6, <4>1, <5>1, <5>2, PrefixOrder DEF g
        <4> QED
          BY <1>5, <2>2, <3>1, <4>2
      <3>2. CASE n > Len(g)
        <4>1. s[i] \in Elems(g)
          BY <1>2, <1>4, <2>6 DEF Elems
        <4>2. PICK e \in 1 .. Len(g) : g[e] = s[i]
          BY <4>1 DEF Elems
        <4> QED
          BY <1>5, <2>2, <3>2, <4>2
      <3> QED
        BY <1>5, <2>2, <3>1, <3>2
    <2>8. PICK e \in 1 .. Len(g) : e <= n /\ g[e] = s[i]
      BY <2>7
    <2>9. e \in 1 .. n /\ w[e] = s[i][2]
      BY <1>5, <1>9, <2>2, <2>8
    <2> QED
      BY <1>11, <2>9
  <1>13. ASSUME "deviceisonline" \in cols, NEW c \in Reported(mask) PROVE c \in cols
    <2>1. PICK k \in 1 .. 9 : c = s[k][2] /\ HasBit(mask, s[k][1])
      <3>1. PICK e \in ToSet(DeviceStatements) : c = e[2] /\ HasBit(mask, e[1])
        BY <1>13 DEF Reported
      <3>2. PICK k \in 1 .. 9 : e = s[k]
        BY <1>2 DEF ToSet, s
      <3> QED
        BY <3>1, <3>2
    <2>2. /\ s[9][2] = "deviceisonline" /\ 9 \in 1 .. 9
          /\ \A i \in 1 .. 9 : s[i][2] = s[9][2] => i = 9
      BY <1>1 DEF StatementsKnown
    <2>3. CASE k = 9
      BY <1>13, <2>1, <2>2, <2>3
    <2>4. CASE k # 9
      <3>1. k < 9
        BY <2>4
      <3>2. HasBit(mask, s[9][1]) => HasBit(mask, s[k][1])
        BY <2>1, Zenon
      <3>3. s[k][2] \in cols
        BY <1>12, <1>13, <2>2, <3>1, <3>2, Zenon
      <3> QED
        BY <2>1, <3>3
    <2> QED
      BY <2>3, <2>4
  <1>16. ASSUME "deviceappend" \in cols PROVE "deviceid" \in cols /\ "username" \in cols
    <2>1. PICK m \in 1 .. n : w[m] = "deviceappend"
      BY <1>11, <1>16
    <2>2. m \in 1 .. Len(w) /\ n \in Nat /\ m <= n
      BY <1>9, <1>10
    <2>3. m \notin 1 .. Len(g)
      <3> SUFFICES ASSUME m \in 1 .. Len(g) PROVE FALSE
        OBVIOUS
      <3>1. g[m][2] = "deviceappend"
        BY <1>9, <2>1
      <3>2. PICK k \in 1 .. 9 : g[m] = s[k]
        BY <1>7
      <3> QED
        BY <1>1, <3>1, <3>2 DEF StatementsKnown
    <2>4. mask = DEVICEAPPEND /\ m = Len(g) + 1
      BY <1>9, <2>2, <2>3
    <2>5. HasBit(mask, DEVICEID) /\ HasBit(mask, DEVICEUSERNAME)
      BY <2>4 DEF HasBit, DEVICEID, DEVICEUSERNAME, DEVICEAPPEND
    <2>6. 1 \in 1 .. 9 /\ 2 \in 1 .. 9
      OBVIOUS
    <2>7. s[1] \in S /\ s[2] \in S
      <3>1. s[1][1] = DEVICEID /\ s[2][1] = DEVICEUSERNAME
        BY <1>1 DEF StatementsKnown
      <3> QED
        BY <1>3, <2>5, <2>6, <3>1, Zenon
    <2>8. s[1] \in Elems(g) /\ s[2] \in Elems(g)
      <3>1. s[1] \in Elems(s) /\ s[2] \in Elems(s)
        BY <1>2, <2>6 DEF Elems
      <3> QED
        BY <1>4, <2>7, <3>1
    <2>9. \A e \in 1 .. Len(g) : e \in 1 .. n /\ w[e] = g[e][2]
      BY <1>5, <1>9, <2>2, <2>4
    <2>10. \A x \in Elems(g) : x[2] \in cols
      BY <1>11, <2>9 DEF Elems
    <2>11. s[1][2] \in cols /\ s[2][2] \in cols
      BY <2>8, <2>10
    <2> QED
      BY <1>1, <2>11 DEF StatementsKnown
  <1> QED
    BY <1>13, <1>16 DEF cols, w

Backed(d) == /\ \A c \in Reported(d.report) : d.ver["deviceisonline"] <= d.ver[c]
             /\ d.ver["deviceappend"] <= d.ver["deviceid"]
             /\ d.ver["deviceappend"] <= d.ver["username"]

\* The columns that the property compares are columns of a device.
Compared(mask) == Reported(mask) \cup {"deviceisonline", "deviceappend", "deviceid", "username"}
LEMMA DeviceColumns ==
    ASSUME NEW mask
    PROVE  Compared(mask) \subseteq ColumnSet("Device")
  <1> DEFINE s == DeviceStatements
  <1>1. StatementsKnown(s)
    BY StatementFacts
  <1>2. ColumnSet("Device") = {e[2] : e \in ToSet(s)} \cup {"deviceappend"}
    BY DEF ColumnSet
  <1>3. Reported(mask) \subseteq {e[2] : e \in ToSet(s)}
    BY DEF Reported
  <1> HIDE DEF s
  <1>4. DOMAIN s = 1 .. 9
    BY <1>1 DEF StatementsKnown
  <1>5. \A k \in 1 .. 9 : s[k][2] \in ColumnSet("Device")
    BY <1>2, <1>4 DEF ToSet
  <1>6. 1 \in 1 .. 9 /\ 2 \in 1 .. 9 /\ 9 \in 1 .. 9
    OBVIOUS
  <1>7. /\ s[1][2] \in ColumnSet("Device") /\ s[2][2] \in ColumnSet("Device")
        /\ s[9][2] \in ColumnSet("Device")
    BY <1>5, <1>6
  <1>8. s[1][2] = "deviceid" /\ s[2][2] = "username" /\ s[9][2] = "deviceisonline"
    BY <1>1 DEF StatementsKnown
  <1> QED
    BY <1>2, <1>3, <1>7, <1>8 DEF Compared

\* A row stays backed when the online column is written only with all the others
\* of its report.
LEMMA WrittenBacked ==
    ASSUME DBInv, NEW d \in db["Device"], Backed(d), NEW cols, NEW mask,
           "deviceisonline" \in cols => Reported(mask) \subseteq cols,
           "deviceappend" \in cols => "deviceid" \in cols /\ "username" \in cols
    PROVE  Backed(Written(d, cols, mask))
  <1> DEFINE v == [c \in DOMAIN d.ver |-> IF c \in cols THEN clock + 1 ELSE d.ver[c]]
             m == IF "deviceisonline" \in cols THEN mask ELSE d.report
             C == Compared(mask) \cup Compared(d.report)
             on == "deviceisonline"
  <1>1. /\ d = [idx |-> d.idx, key |-> d.key, ver |-> d.ver, report |-> d.report]
        /\ d.ver \in [ColumnSet("Device") -> 0 .. clock]
    BY DEF DBInv, ThingsInv, ThingRow, Things
  <1>2. clock \in Nat
    BY MaskAssumption DEF DBInv, Shapes
  <1>3. ASSUME NEW c \in C
        PROVE  /\ v[c] = IF c \in cols THEN clock + 1 ELSE d.ver[c]
               /\ d.ver[c] \in Nat /\ d.ver[c] <= clock
    <2>1. c \in ColumnSet("Device")
      BY DeviceColumns
    <2>2. c \in DOMAIN d.ver /\ d.ver[c] \in 0 .. clock
      BY <1>1, <2>1
    <2> QED
      BY <1>2, <2>2
  <1>4. Written(d, cols, mask) = [d EXCEPT !.ver = v, !.report = m]
    BY DEF Written
  <1> HIDE DEF v, m
  <1>5. Written(d, cols, mask).ver = v /\ Written(d, cols, mask).report = m
    BY <1>1, <1>4
  <1>6. ASSUME NEW a \in C, NEW b \in C, a \in cols => b \in cols,
               a \in cols \/ d.ver[a] <= d.ver[b]
        PROVE  v[a] <= v[b]
    <2>1. v[a] = IF a \in cols THEN clock + 1 ELSE d.ver[a]
      BY <1>3
    <2>2. v[b] = IF b \in cols THEN clock + 1 ELSE d.ver[b]
      BY <1>3
    <2>3. d.ver[a] \in Nat /\ d.ver[b] \in Nat /\ d.ver[a] <= clock /\ d.ver[b] <= clock
      BY <1>3
    <2> DEFINE p == d.ver[a]
               q == d.ver[b]
    <2> HIDE DEF p, q, C
    <2> QED
      BY <1>2, <1>6, <2>1, <2>2, <2>3 DEF p, q
  <1>7. {"deviceisonline", "deviceappend", "deviceid", "username"} \subseteq C
    BY DEF Compared
  <1>8. v["deviceappend"] <= v["deviceid"] /\ v["deviceappend"] <= v["username"]
    BY <1>6, <1>7 DEF Backed
  <1>9. ASSUME NEW c \in Reported(m) PROVE v[on] <= v[c]
    <2>1. CASE on \in cols
      <3>1. m = mask
        BY <2>1 DEF m
      <3>2. c \in cols /\ c \in C
        BY <1>9, <2>1, <3>1 DEF Compared
      <3> QED
        BY <1>6, <1>7, <2>1, <3>2
    <2>2. CASE on \notin cols
      <3>1. m = d.report
        BY <2>2 DEF m
      <3>2. c \in C /\ d.ver[on] <= d.ver[c]
        BY <1>9, <3>1 DEF Compared, Backed
      <3> QED
        BY <1>6, <1>7, <2>2, <3>2
    <2> QED
      BY <2>1, <2>2
  <1> QED
    BY <1>5, <1>8, <1>9 DEF Backed

LEMMA ReportBacked ==
    ASSUME DBInv, OnlineIsBacked, Reporting
    PROVE  \A d \in db'["Device"] : Backed(d)
  <1>0. PICK k : \E mask \in Masks : DeviceTableUpdate(k, mask)
    BY DEF Reporting
  <1>1. PICK mask \in Masks : Update("Device", k, mask, DeviceWrites(mask))
    BY <1>0 DEF DeviceTableUpdate
  <1>2. PICK n \in 0 .. Len(DeviceWrites(mask)) :
          db' = [db EXCEPT !["Device"] =
                   {IF r.key = k THEN Written(r, ToSet(SubSeq(DeviceWrites(mask), 1, n)), mask) ELSE r : r \in db["Device"]}]
    BY <1>1 DEF Update
  <1> DEFINE cols == ToSet(SubSeq(DeviceWrites(mask), 1, n))
  <1>3. /\ "deviceisonline" \in cols => Reported(mask) \subseteq cols
        /\ "deviceappend" \in cols => "deviceid" \in cols /\ "username" \in cols
    BY ReportOrder
  <1> HIDE DEF cols
  <1>4. db'["Device"] = {IF r.key = k THEN Written(r, cols, mask) ELSE r : r \in db["Device"]}
    <2>1. "Device" \in DOMAIN db
      BY DEF DBInv, Shapes, Tables, Things
    <2> QED
      BY <1>2, <2>1 DEF cols
  <1>5. ASSUME NEW r \in db["Device"] PROVE Backed(r) /\ Backed(Written(r, cols, mask))
    <2>1. Backed(r)
      BY DEF OnlineIsBacked, Backed
    <2> QED
      BY <1>3, <2>1, WrittenBacked
  <1> QED
    BY <1>4, <1>5

LEMMA BackedStep ==
    ASSUME ListInv, OnlineIsBacked, [Next]_dbVars
    PROVE  OnlineIsBacked'
  <1> DEFINE D == "Device"
  <1>1. DBInv /\ KeysInv
    BY DEF ListInv
  <1>2. D \in Tables /\ D \in Things /\ DOMAIN db = Tables
    BY <1>1 DEF DBInv, Shapes, Tables, Things
  <1>3. \A d \in db[D] : Backed(d)
    BY DEF OnlineIsBacked, Backed
  <1> SUFFICES \A d \in db'[D] : Backed(d)
    BY DEF OnlineIsBacked, Backed
  <1>4. CASE Inserting
    <2>0. PICK t \in Things : \E k : Insert(t, k)
      BY <1>4 DEF Inserting
    <2>1. PICK k : Insert(t, k)
      BY <2>0
    <2> DEFINE row == NewRow(t, NextRow(t), k)
    <2>2. db' = [db EXCEPT ![t] = @ \cup {row}]
      BY <2>1 DEF Insert
    <2>3. t = D => Backed(row)
      <3> SUFFICES ASSUME t = D PROVE Backed(row)
        OBVIOUS
      <3>1. row.ver = [c \in ColumnSet(D) |-> 0]
        BY DEF NewRow
      <3>2. \A c \in Compared(row.report) : row.ver[c] = 0
        BY <3>1, DeviceColumns
      <3> HIDE DEF row
      <3> QED
        BY <3>2 DEF Backed, Compared
    <2> HIDE DEF row
    <2>4. db'[D] = db[D] \/ (t = D /\ db'[D] = db[D] \cup {row})
      BY <1>2, <2>2
    <2> QED
      BY <1>3, <2>3, <2>4
  <1>5. CASE Deleting
    <2>1. db'[D] \subseteq db[D]
      BY <1>2, <1>5 DEF Deleting, DeleteRows
    <2> QED
      BY <1>3, <2>1
  <1>6. CASE Reporting
    BY <1>1, <1>6, ReportBacked
  <1>7. CASE db'[D] = db[D]
    BY <1>3, <1>7
  <1>8. CASE Updating
    <2>0. PICK t \in Things \ {"Device"} : \E k, m, writes : Update(t, k, m, writes)
      BY <1>8 DEF Updating
    <2>1. PICK k, m, writes : Update(t, k, m, writes)
      BY <2>0
    <2>2. db'[D] = db[D]
      BY <1>1, <1>2, <2>1, UpdateKeeps
    <2> QED
      BY <1>7, <2>2
  <1>9. CASE Switching
    <2>1. db'[D] = db[D]
      BY <1>1, <1>2, <1>9, SwitchKeeps DEF Switching
    <2> QED
      BY <1>7, <2>1
  <1>10. CASE Linking
    <2>1. D \notin Links
      BY DEF Links
    <2>2. db'[D] = db[D]
      BY <1>2, <1>10, <2>1 DEF Linking, InsertLink
    <2> QED
      BY <1>7, <2>2
  <1>11. CASE Relinking
    <2>1. db'[D] = db[D]
      BY <1>2, <1>11 DEF Relinking, ProfileListTableUpdate, RoomListTableUpdate
    <2> QED
      BY <1>7, <2>1
  <1>12. CASE db' = db
    BY <1>7, <1>12
  <1> QED
    BY <1>1, <1>4, <1>5, <1>6, <1>8, <1>9, <1>10, <1>11, <1>12, StepKinds DEF StepKind

(* Whatever masks reports have, and however many of them broke off between two
   statements: a device has, in every column that the report it has its online
   column from was to write, the value of that report or of a newer one.  The
   append text is never newer than the id and the name written with it. *)
THEOREM OnlineHasValues == Spec => []OnlineIsBacked
  <1>1. Init => OnlineIsBacked
    <2> SUFFICES ASSUME Init PROVE OnlineIsBacked
      OBVIOUS
    <2>1. db["Device"] = {}
      BY DEF Init, Tables, Things
    <2> QED
      BY <2>1 DEF OnlineIsBacked
  <1>2. ListInv /\ OnlineIsBacked /\ [Next]_dbVars => OnlineIsBacked'
    BY BackedStep
  <1> QED
    BY <1>1, <1>2, ListsKept, PTL DEF Spec

=============================================================================
