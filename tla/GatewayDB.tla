------------------------------ MODULE GatewayDB ------------------------------
(* The tables of the ZigBee gateway, as JIP_Sqlite.c keeps them in SQLITE.DB.
   Five tables hold things: devices, scenes, profiles, rooms and linkages, each
   row with a row number (indexnum) and the column the functions look it up by
   (its key, UNIQUE in the schema).  Three tables hold links: Scene_Device,
   Profile_List and Room_List, whose rows name two row numbers.

   The library is called by one program at a time and every SQL statement is
   atomic, so an action is a whole call.  A statement can fail (SQLITE_BUSY, a
   full disk), and a call of several statements then returns between two of
   them: the number of statements that ran is chosen.  A call that changes
   nothing (an insert that is refused, a search) is a stuttering step.

   The text of columns is abstracted to its age: ver[c] is the number of the
   update call that wrote column c last, 0 for the insert; report is, as a
   history, the mask code of the call that wrote the online column of a device
   last.  Search results are sets of keys. *)
EXTENDS Naturals, Sequences, FiniteSets, SequencesExt, SeqFilter

CONSTANTS Addresses,    \* IPv6 addresses: keys of devices and of linkages
          CallerIds,    \* the scene and profile ids callers use of their own
          IdMod,        \* ids of scenes and profiles are uint16_t: 2^16
          RoomBase,     \* the first group id given out: 0x15a00a
          ShippedRooms, \* group ids of the rooms SQLITE.DB comes with, by row number
          IndexMod,     \* the Index of a C structure is uint16_t: 2^16
          Masks,        \* the mask codes callers give to DeviceTableUpdate
          MaxInserts,   \* bound: rows ever inserted, over all tables
          MaxUpdates    \* bound: update calls

ASSUME IdAssumption == /\ IdMod \in Nat /\ IdMod > 1
                       /\ CallerIds \subseteq 0 .. IdMod - 1
ASSUME RoomAssumption == /\ RoomBase \in Nat
                         /\ ShippedRooms \in Seq(Nat)
                         /\ \A i, j \in DOMAIN ShippedRooms :
                              ShippedRooms[i] >= RoomBase
                                /\ (ShippedRooms[i] = ShippedRooms[j] => i = j)
(* Row numbers are handed to callers in 16 bits.  The links are only right while
   no table has seen 2^16 insertions. *)
ASSUME IndexAssumption == /\ IndexMod \in Nat /\ MaxInserts \in Nat
                          /\ MaxInserts < IndexMod /\ Len(ShippedRooms) < IndexMod
ASSUME MaskAssumption == Masks \subseteq 0 .. 255 /\ MaxUpdates \in Nat

VARIABLES db,      \* the rows of each table
          seq,     \* sqlite_sequence: the largest row number ever used
          given,   \* <<key, Index>> pairs the program holds in its structures
          clock    \* number of update calls made

dbVars == <<db, seq, given, clock>>

Things == {"Device", "Scene", "Profile", "Room", "Linkage"}
Links == {"SceneDevice", "ProfileList", "RoomList"}
Tables == Things \cup Links

(* The first and the second end of a link row. *)
EndA == [SceneDevice |-> "Scene", ProfileList |-> "Scene", RoomList |-> "Device"]
EndB == [SceneDevice |-> "Device", ProfileList |-> "Profile", RoomList |-> "Room"]

-----------------------------------------------------------------------------
(* The masks of JIP_Sqlite.h and the statements of the update functions, in the
   order the code runs them. *)
DEVICEID == 1
DEVICEUSERNAME == 2
DEVICEAPPEND == 3
DEVICEADDRESS == 4
DEVICEMACADDRESS == 8
DEVICEISONLINE == 16
DEVICEONOFF == 32
DEVICEVALUE1 == 64
DEVICEVALUE2 == 128
DEVICETYPE == 256

HasBit(mask, bit) == (mask \div bit) % 2 = 1

(* An update function: <<mask, column>> of its statements, in the order the code
   runs them. *)
\* Mutant: in the order of the masks.
OnlineFirst == << <<DEVICEID, "deviceid">>, <<DEVICEUSERNAME, "username">>,
                  <<DEVICEADDRESS, "address">>, <<DEVICEMACADDRESS, "macaddress">>,
                  <<DEVICEISONLINE, "deviceisonline">>, <<DEVICEONOFF, "deviceonoff">>,
                  <<DEVICEVALUE1, "devicevalue1">>, <<DEVICEVALUE2, "devicevalue2">>,
                  <<DEVICETYPE, "devicetype">> >>
DeviceStatements == << <<DEVICEID, "deviceid">>, <<DEVICEUSERNAME, "username">>,
                       <<DEVICEADDRESS, "address">>, <<DEVICEMACADDRESS, "macaddress">>,
                       <<DEVICETYPE, "devicetype">>, <<DEVICEONOFF, "deviceonoff">>,
                       <<DEVICEVALUE1, "devicevalue1">>, <<DEVICEVALUE2, "devicevalue2">>,
                       <<DEVICEISONLINE, "deviceisonline">> >>
SceneStatements == << <<1, "timespan">>, <<2, "onoff">>, <<4, "repeatmode">> >>
ProfileStatements == << <<1, "profilename">>, <<32, "profileonoff">>, <<2, "profilestarttime">>,
                        <<4, "profileendtime">>, <<8, "profiletimerepeat">>, <<16, "profiledevices">> >>
RoomStatements == << <<1, "roomname">> >>

(* The columns a mask code selects.  Every mask is tested with &, except the one
   of the append text, which is compared with ==. *)
Selected(statements, mask) ==
    LET chosen == Filter(statements, {s \in ToSet(statements) : HasBit(mask, s[1])})
    IN  [i \in DOMAIN chosen |-> chosen[i][2]]
DeviceWrites(mask) == Selected(DeviceStatements, mask)
                        \o (IF mask = DEVICEAPPEND THEN <<"deviceappend">> ELSE <<>>)

ColumnSet(t) ==
    CASE t = "Device" -> {s[2] : s \in ToSet(DeviceStatements)} \cup {"deviceappend"}
      [] t = "Scene" -> {s[2] : s \in ToSet(SceneStatements)}
      [] t = "Profile" -> {s[2] : s \in ToSet(ProfileStatements)}
      [] t = "Room" -> {s[2] : s \in ToSet(RoomStatements)}
      [] t = "Linkage" -> {}

-----------------------------------------------------------------------------
(* SQL, as the functions use it. *)

Keys(t) == {r.key : r \in db[t]}
Inserted == seq["Device"] + seq["Scene"] + seq["Profile"] + seq["Room"]
              + seq["Linkage"] + seq["SceneDevice"] + seq["ProfileList"] + seq["RoomList"]

(* indexnum is INTEGER PRIMARY KEY AUTOINCREMENT: a number is never used twice,
   whatever was deleted. *)
\* Mutant: no AUTOINCREMENT.
MaxRowPlusOne(t) == IF db[t] = {} THEN 1
                    ELSE (CHOOSE n \in {r.idx : r \in db[t]} : \A r \in db[t] : r.idx <= n) + 1
NextRow(t) == seq[t] + 1

(* The C structures keep row numbers in 16 bits. *)
Index(n) == n % IndexMod

NewRow(t, n, k) == [idx |-> n, key |-> k, ver |-> [c \in ColumnSet(t) |-> 0], report |-> 0]

Init ==
    /\ db = [t \in Tables |-> IF t = "Room" THEN {NewRow("Room", n, ShippedRooms[n]) : n \in DOMAIN ShippedRooms}
                              ELSE {}]
    /\ seq = [t \in Tables |-> IF t = "Room" THEN Len(ShippedRooms) ELSE 0]
    /\ given = [t \in Things |-> {<<r.key, Index(r.idx)>> : r \in db[t]}]
    /\ clock = 0

(* The structures a new program fills with the search functions. *)
Refilled == [t \in Things |-> {<<r.key, Index(r.idx)>> : r \in db[t]}]

(* CloseSqliteDB, the end of the program and OpenSqliteDB in the next one.  A
   program also ends in a search whose statement cannot be prepared, in the
   functions that go through the list without looking at the status: the list was
   not initialised and its first link is no address. *)
Reopen ==
    /\ given' = Refilled
    /\ UNCHANGED <<db, seq, clock>>

Insert(t, k) ==
    /\ Inserted < MaxInserts
    /\ k \notin Keys(t)
    /\ db' = [db EXCEPT ![t] = @ \cup {NewRow(t, NextRow(t), k)}]
    /\ given' = [given EXCEPT ![t] = @ \cup {<<k, Index(NextRow(t))>>}]
    /\ seq' = [seq EXCEPT ![t] = NextRow(t)]
    /\ UNCHANGED <<clock>>

(* Delete ... where key = k: the rows of the other tables that name the row
   stay.  Foreign keys are declared in the schema and never switched on. *)
DeleteRows(t, gone) ==
    /\ db' = [db EXCEPT ![t] = @ \ gone]
    /\ UNCHANGED <<seq, given, clock>>
DeleteKey(t, k) == DeleteRows(t, {r \in db[t] : r.key = k})
Clear(t) == DeleteRows(t, db[t])

(* The first n of the chosen update statements, for the rows with the key. *)
Written(r, cols, mask) ==
    [r EXCEPT !.ver = [c \in DOMAIN @ |-> IF c \in cols THEN clock + 1 ELSE @[c]],
              !.report = IF "deviceisonline" \in cols THEN mask ELSE @]
Update(t, k, mask, writes) ==
    /\ clock < MaxUpdates
    /\ \E n \in 0 .. Len(writes) :
         db' = [db EXCEPT ![t] = {IF r.key = k THEN Written(r, ToSet(SubSeq(writes, 1, n)), mask) ELSE r
                                    : r \in @}]
    /\ clock' = clock + 1
    /\ UNCHANGED <<seq, given>>

(* A link names the Index of two structures.  for keeps the keys that stand
   beside the two numbers in the caller's structures and are not stored. *)
InsertLink(t, a, b) ==
    /\ Inserted < MaxInserts
    /\ db' = [db EXCEPT ![t] = @ \cup {[idx |-> NextRow(t), a |-> a[2], b |-> b[2],
                                        for |-> <<a[1], b[1]>>]}]
    /\ seq' = [seq EXCEPT ![t] = NextRow(t)]
    /\ UNCHANGED <<given, clock>>

-----------------------------------------------------------------------------
(* Searches. *)

\* Mutant: the id is taken for the row number.
SearchOneById(t, k) == IF k \in Keys(t) THEN k ELSE 0
(* The Index of the row with the key, 0 (what memset left in the structure) when
   there is none. *)
SearchOne(t, k) == LET hits == {r \in db[t] : r.key = k}
                   IN  IF hits = {} THEN 0 ELSE Index((CHOOSE r \in hits : TRUE).idx)
ProfileTableSearchOne(p) == SearchOne("Profile", p)

\* Mutant: no ORDER BY.
RowOrder(t) == LET Older(r, s) == r.idx < s.idx
                   rows == SetToSortSeq(db[t], Older)
               IN  [i \in DOMAIN rows |-> rows[i].key]
(* Select * From ... Order By ... asc.: the i-th key has i - 1 smaller ones. *)
SortedKeys(t) == [i \in 1 .. Cardinality(Keys(t)) |->
                    CHOOSE k \in Keys(t) : Cardinality({l \in Keys(t) : l < k}) = i - 1]
SceneTableSearch == SortedKeys("Scene")
RoomTableSearch == SortedKeys("Room")
ProfileTableSearch == SortedKeys("Profile")

(* A search ends early, as if the table were shorter, when sqlite3_step or
   malloc fails: the functions below do not look at its status. *)
CutShort(list) == {SubSeq(list, 1, n) : n \in 0 .. Len(list)}

(* The walk of DBUnUsedSceneId, DBUnUsedRoomId and DBUnUsedProfileId along a
   sorted list: as far as the keys are first, first + 1, ... *)
Walk(list, first) == first + Max({n \in 0 .. Len(list) : \A i \in 1 .. n : list[i] = first + i - 1})

DBUnUsedSceneId(list) == Walk(list, 1) % IdMod
DBUnUsedProfileId(list) == Walk(list, 1) % IdMod
DBUnUsedRoomId(list) == Walk(list, RoomBase)

(* ...TableDataIsExist, given the list its search came back with. *)
DataIsExist(list, k) == \E i \in DOMAIN list : list[i] = k

Devices(rows) == {d.key : d \in {e \in db["Device"] : e.idx \in rows}}
Under(t, n) == {l \in db[t] : l.b = n}

ProfileSceneListSearch(p) ==
    {s.key : s \in {e \in db["Scene"] : \E l \in Under("ProfileList", ProfileTableSearchOne(p)) : e.idx = l.a}}

RoomDeviceListSearch(g) ==
    LET rooms == {r.idx : r \in {e \in db["Room"] : e.key = g}}
    IN  Devices({l.a : l \in {e \in db["RoomList"] : e.b \in rooms}})

(* Its argument is called SceneId and compared with the scene's row number. *)
SceneDeviceListSearch(n) == Devices({l.b : l \in {e \in db["SceneDevice"] : e.a = n}})

(* The third statement takes the Scene_Device row whose own number is the number
   of the scene. *)
ProfileRows(p) == {r.idx : r \in {e \in db["Profile"] : e.key = p}}
ProfileDeviceListSearch(p) ==
    LET lists == {l \in db["ProfileList"] : l.b \in ProfileRows(p)}
        picks == {e \in db["SceneDevice"] : \E l \in lists : e.idx = l.a}
    IN  Devices({e.b : e \in picks})

-----------------------------------------------------------------------------
(* The calls. *)

DeviceTableAddRecord(k) == Insert("Device", k)
DeviceTableDelete(k) == DeleteKey("Device", k)
DeviceTableUpdate(k, mask) == Update("Device", k, mask, DeviceWrites(mask))
DeviceTableClear == Clear("Device")

SceneTableAddRecord(k) == Insert("Scene", k)
SceneTableDelete(k) == DeleteKey("Scene", k)
SceneTableUpdate(k, mask) == Update("Scene", k, mask, Selected(SceneStatements, mask))
SceneTableClear == Clear("Scene")

ProfileTableAddRecord(k) == Insert("Profile", k)
ProfileTableDelete(k) == DeleteKey("Profile", k)
ProfileTableUpdate(k, mask) == Update("Profile", k, mask, Selected(ProfileStatements, mask))
ProfileTableClear == Clear("Profile")

RoomTableAddRecord == \E list \in CutShort(RoomTableSearch) : Insert("Room", DBUnUsedRoomId(list))
RoomTableDelete(k) == DeleteKey("Room", k)
RoomTableUpdate(k, mask) == Update("Room", k, mask, Selected(RoomStatements, mask))
RoomTableClear == Clear("Room")

LinkageTableAddRecord(k) == Insert("Linkage", k)
LinkageTableDelete(k) == DeleteKey("Linkage", k)
LinkageTableClear == Clear("Linkage")

SceneDeviceTableAddRecord(s, d) == InsertLink("SceneDevice", s, d)
SceneDeviceTableDelete(s) == DeleteRows("SceneDevice", {l \in db["SceneDevice"] : l.a = s[2]})
SceneDeviceTableClear == Clear("SceneDevice")

ProfileListTableAddRecord(s, p) == InsertLink("ProfileList", s, p)
ProfileListTableDelete(p) == DeleteRows("ProfileList", Under("ProfileList", p[2]))
ProfileListTableClear == Clear("ProfileList")

RoomListTableAddRecord(d, r) == InsertLink("RoomList", d, r)
RoomListTableDelete(r) == DeleteRows("RoomList", Under("RoomList", r[2]))
RoomListTableDeleteUnderDevice(d) == DeleteRows("RoomList", {l \in db["RoomList"] : l.a = d[2]})
RoomListTableClear == Clear("RoomList")

(* Update Profile_List_Table Set sceneid ... Where profileid and Update
   Room_List_Table Set roomid ... Where deviceid: all rows of the profile get the
   same scene, all rows of the device the same room. *)
ProfileListTableUpdate(s, p) ==
    /\ db' = [db EXCEPT !["ProfileList"] =
                 {IF l.b = p[2] THEN [l EXCEPT !.a = s[2], !.for = <<s[1], @[2]>>] ELSE l : l \in @}]
    /\ UNCHANGED <<seq, given, clock>>
\* Mutant: the two indices are confused.
RoomSetToDevice(d, r) ==
    /\ db' = [db EXCEPT !["RoomList"] =
                 {IF l.a = d[2] THEN [l EXCEPT !.b = d[2], !.for = <<@[1], r[1]>>] ELSE l : l \in @}]
    /\ UNCHANGED <<seq, given, clock>>
RoomListTableUpdate(d, r) ==
    /\ db' = [db EXCEPT !["RoomList"] =
                 {IF l.a = d[2] THEN [l EXCEPT !.b = r[2], !.for = <<@[1], r[1]>>] ELSE l : l \in @}]
    /\ UNCHANGED <<seq, given, clock>>

(* The scenes of a profile are switched one by one, in the order of the list's
   rows; the profile's own column is not written. *)
\* Mutant: the row number is taken for the id.
SwitchedById(l) == {s \in db["Scene"] : s.key = l.a}
SwitchedScene(l) == {s \in db["Scene"] : s.idx = l.a}
ProfileTableOnOff(p, n) ==
    LET list == Under("ProfileList", ProfileTableSearchOne(p))
        first == {l \in list : Cardinality({m \in list : m.idx < l.idx}) < n}
        on == UNION {SwitchedScene(l) : l \in first}
    IN  /\ clock < MaxUpdates
        /\ p \in Keys("Profile")
        /\ n \in 0 .. Cardinality(list)
        /\ db' = [db EXCEPT !["Scene"] = {IF s \in on THEN Written(s, {"onoff"}, 0) ELSE s : s \in @}]
        /\ clock' = clock + 1
        /\ UNCHANGED <<seq, given>>

-----------------------------------------------------------------------------
DeviceCalls ==
    \/ \E k \in Addresses : \/ DeviceTableAddRecord(k) \/ DeviceTableDelete(k)
                            \/ \E mask \in Masks : DeviceTableUpdate(k, mask)
    \/ DeviceTableClear

(* Rooms with the devices in them, and the linkages. *)
RoomCalls ==
    \/ \E k \in Addresses : LinkageTableAddRecord(k) \/ LinkageTableDelete(k)
    \/ RoomTableAddRecord
    \/ \E k \in Keys("Room") : \/ RoomTableDelete(k)
                               \/ \E mask \in Masks : RoomTableUpdate(k, mask)
    \/ \E d \in given["Device"] :
         \/ RoomListTableDeleteUnderDevice(d)
         \/ \E r \in given["Room"] : RoomListTableAddRecord(d, r) \/ RoomListTableUpdate(d, r)
    \/ \E r \in given["Room"] : RoomListTableDelete(r)
    \/ LinkageTableClear \/ RoomTableClear \/ RoomListTableClear

(* Profiles, their scenes and the devices in those.  A caller takes the id of a
   new scene or profile from DBUnUsed... or has one of its own. *)
ProfileCalls ==
    \/ \E k \in CallerIds \cup {DBUnUsedSceneId(list) : list \in CutShort(SceneTableSearch)} : SceneTableAddRecord(k)
    \/ \E k \in CallerIds \cup {DBUnUsedProfileId(list) : list \in CutShort(ProfileTableSearch)} : ProfileTableAddRecord(k)
    \/ \E k \in Keys("Scene") : \/ SceneTableDelete(k)
                                \/ \E mask \in Masks : SceneTableUpdate(k, mask)
    \/ \E k \in Keys("Profile") : \/ ProfileTableDelete(k)
                                  \/ \E mask \in Masks : ProfileTableUpdate(k, mask)
                                  \/ \E n \in 0 .. MaxInserts : ProfileTableOnOff(k, n)
    \/ \E s \in given["Scene"] :
         \/ SceneDeviceTableDelete(s)
         \/ \E d \in given["Device"] : SceneDeviceTableAddRecord(s, d)
         \/ \E p \in given["Profile"] : ProfileListTableAddRecord(s, p) \/ ProfileListTableUpdate(s, p)
    \/ \E p \in given["Profile"] : ProfileListTableDelete(p)
    \/ SceneTableClear \/ ProfileTableClear \/ SceneDeviceTableClear \/ ProfileListTableClear

Next == Reopen \/ DeviceCalls \/ RoomCalls \/ ProfileCalls

Spec == Init /\ [][Next]_dbVars

-----------------------------------------------------------------------------
(* Properties. *)

(* Every table holds rows of its kind, with numbers that were given out and no
   key twice (the UNIQUE columns that the calls rely on). *)
DBTypeOK ==
    /\ \A t \in Things : \A r \in db[t] :
         /\ r.idx \in 1 .. seq[t]
         /\ r.ver \in [ColumnSet(t) -> 0 .. clock]
         /\ \A s \in db[t] : (r.key = s.key \/ r.idx = s.idx) => r = s
    /\ \A t \in Links : \A l \in db[t] :
         /\ l.idx \in 1 .. seq[t]
         /\ l.a \in 1 .. seq[EndA[t]]
         /\ l.b \in 1 .. seq[EndB[t]]
    /\ clock \in 0 .. MaxUpdates

(* Deletes do not cascade, so a link outlives the rows it names.  It then names
   nothing: it never comes to mean another device, scene, profile or room than
   the ones the caller of ...AddRecord or ...Update had in its structures. *)
LinksKeepTheirEnds ==
    \A t \in Links : \A l \in db[t] :
        /\ \A r \in db[EndA[t]] : r.idx = l.a => r.key = l.for[1]
        /\ \A r \in db[EndB[t]] : r.idx = l.b => r.key = l.for[2]

(* DBUnUsedSceneId, DBUnUsedRoomId and DBUnUsedProfileId return an id that no row
   has, and the lowest such one, when the table is read to its end; for scenes
   and profiles only as long as no caller chose id 0, which sorts before the
   first id the walk expects. *)
LowestFree(id, first, list) == ~DataIsExist(list, id) /\ \A k \in first .. id - 1 : DataIsExist(list, k)
UnUsedIsFree ==
    /\ 0 \notin Keys("Scene") => LowestFree(DBUnUsedSceneId(SceneTableSearch), 1, SceneTableSearch)
    /\ 0 \notin Keys("Profile") => LowestFree(DBUnUsedProfileId(ProfileTableSearch), 1, ProfileTableSearch)
    /\ LowestFree(DBUnUsedRoomId(RoomTableSearch), RoomBase, RoomTableSearch)

(* DeviceTableUpdate is several statements without a transaction, and any of them
   may fail.  A device whose online column comes from a report has, in every
   column which that report was to write, the value of that report or of a newer
   one: whatever masks the callers give, and however many reports broke off.
   The append text, whose mask is the sum of two others, is never newer than the
   id and the name written with it. *)
Reported(mask) == {s[2] : s \in {e \in ToSet(DeviceStatements) : HasBit(mask, e[1])}}
OnlineIsBacked ==
    \A d \in db["Device"] :
        /\ \A c \in Reported(d.report) : d.ver["deviceisonline"] <= d.ver[c]
        /\ d.ver["deviceappend"] <= d.ver["deviceid"]
        /\ d.ver["deviceappend"] <= d.ver["username"]

(* A device that RoomDeviceListSearch lists for a room, and a scene that
   ProfileSceneListSearch lists for a profile, was linked to it by a caller. *)
ListedWasLinked ==
    /\ \A g \in Keys("Room") : \A d \in RoomDeviceListSearch(g) :
         \E l \in db["RoomList"] : l.for = <<d, g>>
    /\ \A p \in Keys("Profile") : \A s \in ProfileSceneListSearch(p) :
         \E l \in db["ProfileList"] : l.for = <<s, p>>

(* The comment of ProfileDeviceListSearch says that it looks up the devices of a
   profile.  They are the devices of its scenes: those that SceneDeviceListSearch
   lists for the scenes in the profile's list. *)
ProfileDevicesListed ==
    \A p \in Keys("Profile") :
        ProfileDeviceListSearch(p) =
            UNION {SceneDeviceListSearch(l.a) : l \in Under("ProfileList", ProfileTableSearchOne(p))}

(* ProfileTableOnOff switches only scenes that ProfileSceneListSearch lists for
   the profile, and all of them when no statement fails. *)
SwitchesListed ==
    [][\A p \in Keys("Profile") : \A n \in 0 .. MaxInserts :
         ProfileTableOnOff(p, n) =>
            LET switched == {s.key : s \in {e \in db'["Scene"] : e.ver["onoff"] = clock'}}
            IN  /\ switched \subseteq ProfileSceneListSearch(p)
                /\ n = Cardinality(Under("ProfileList", ProfileTableSearchOne(p)))
                      => switched = ProfileSceneListSearch(p)]_dbVars

(* The comment of ProfileTableOnOff says that it sets the ONOFF attribute of the
   profile, and the one of the scenes that belong to it.  So it does, when no
   statement fails, for the profile's own column. *)
ProfileIsSwitched ==
    [][\A p \in Keys("Profile") : \A n \in 0 .. MaxInserts :
         ProfileTableOnOff(p, n) /\ n = Cardinality(Under("ProfileList", ProfileTableSearchOne(p)))
            => \A r \in db'["Profile"] : r.key = p => r.ver["profileonoff"] = clock']_dbVars

=============================================================================
