--------------------------- MODULE ImportObsProofs ---------------------------
(***************************************************************************)
(* What holds of the import of observation files for any keys, files,      *)
(* stations and lists: a key serves one record, and the rows of an         *)
(* accepted list become files and stations of their own, with the names of *)
(* the rows.  Accept folds over the list, so the second is shown by        *)
(* induction over it.                                                      *)
(***************************************************************************)
EXTENDS ImportObs, WellFoundedInduction, TLAPS

-----------------------------------------------------------------------------
(* The fold *)

(* Induction over the natural numbers for a set that is given: the library's *)
(* theorem takes a predicate.                                               *)
LEMMA SetInduction ==
  ASSUME NEW S, 0 \in S, \A n \in Nat : n \in S => n + 1 \in S
  PROVE  \A n \in Nat : n \in S
<1> DEFINE T == {n \in Nat : n \notin S}
<1> SUFFICES ASSUME T # {} PROVE FALSE
  OBVIOUS
<1>1. T \subseteq Nat
  OBVIOUS
<1>2. PICK n \in T : \A m \in T : <<m, n>> \notin OpToRel(<, Nat)
  BY <1>1, WFMin, NatLessThanWellFounded, Zenon
<1>3. n \in Nat /\ n # 0
  BY <1>2
<1>4. n - 1 \in Nat /\ n - 1 < n
  BY <1>3
<1>5. <<n - 1, n>> \in OpToRel(<, Nat)
  BY <1>3, <1>4, Zenon DEF OpToRel
<1>6. n - 1 \in S
  BY <1>2, <1>4, <1>5
<1>7. (n - 1) + 1 \in S
  BY <1>4, <1>6
<1>8. (n - 1) + 1 = n
  BY <1>3
<1> QED
  BY <1>2, <1>7, <1>8

(* The last index of a part of a sequence. *)
LEMMA MaxIs ==
  ASSUME NEW n \in Nat, NEW s \in SUBSET (1 .. n), n \in s
  PROVE  Max(s) = n
<1>1. n \in s /\ \A y \in s : n >= y
  OBVIOUS
<1>2. ASSUME NEW m \in s, \A y \in s : m >= y
      PROVE  m = n
  <2>1. m >= n /\ n >= m /\ m \in Nat
    BY <1>1, <1>2
  <2> QED
    BY <2>1
<1> QED
  BY <1>1, <1>2, Zenon DEF Max

(* What Accept folds is what one addObsFile after the other makes of it.   *)
LEMMA FoldSteps ==
  ASSUME NEW base, NEW list, NEW K, list \in Seq(K)
  PROVE  \E f : /\ f[0] = base
                /\ \A n \in 1 .. Len(list) : f[n] = Added(f[n - 1], list[n])
                /\ FoldLeft(Added, base, list) = f[Len(list)]
<1> DEFINE Step(it, s) ==
             IF s = {} THEN base ELSE Added(it[s \ {Max(s)}], list[Max(s)])
           Iterated(it, n) == it = [s \in SUBSET (1 .. n) |-> Step(it, s)]
           N == {n \in Nat : \E it : Iterated(it, n)}
<1>1. 0 \in N
  <2>1. Iterated([s \in SUBSET (1 .. 0) |-> base], 0)
    OBVIOUS
  <2> QED
    BY <2>1
<1>2. ASSUME NEW n \in Nat, n \in N
      PROVE  n + 1 \in N
  <2>1. PICK it : Iterated(it, n)
    BY <1>2
  <2> DEFINE next == [s \in SUBSET (1 .. n + 1) |->
                        IF n + 1 \in s THEN Added(it[s \ {n + 1}], list[n + 1]) ELSE it[s]]
  <2>2. ASSUME NEW s \in SUBSET (1 .. n + 1)
        PROVE  next[s] = Step(next, s)
    <3>1. CASE n + 1 \in s
      <4>1. Max(s) = n + 1
        BY <3>1, MaxIs
      <4>2. s \ {n + 1} \in SUBSET (1 .. n + 1) /\ n + 1 \notin s \ {n + 1}
        OBVIOUS
      <4>3. next[s \ {n + 1}] = it[s \ {n + 1}]
        BY <4>2
      <4> QED
        BY <3>1, <4>1, <4>3
    <3>2. CASE n + 1 \notin s
      <4>1. s \in SUBSET (1 .. n)
        BY <3>2
      <4>2. /\ s \ {Max(s)} \in SUBSET (1 .. n + 1)
            /\ n + 1 \notin s \ {Max(s)}
        BY <3>2
      <4>3. next[s \ {Max(s)}] = it[s \ {Max(s)}]
        BY <4>2
      <4>4. it[s] = Step(it, s)
        BY <2>1, <4>1
      <4> QED
        BY <3>2, <4>3, <4>4
    <3> QED
      BY <3>1, <3>2
  <2>3. Iterated(next, n + 1)
    BY <2>2
  <2>4. n + 1 \in Nat
    OBVIOUS
  <2> HIDE DEF Iterated, next
  <2> QED
    BY <2>3, <2>4
<1> DEFINE iter == CHOOSE it : Iterated(it, Len(list))
<1>3. Len(list) \in Nat /\ DOMAIN list = 1 .. Len(list)
  OBVIOUS
<1>4. Iterated(iter, Len(list))
  <2> HIDE DEF Iterated
  <2>1. \A n \in Nat : n \in N
    BY <1>1, <1>2, SetInduction
  <2>2. \E it : Iterated(it, Len(list))
    BY <2>1, <1>3
  <2> QED
    BY <2>2
<1>5. FoldLeft(Added, base, list) = iter[1 .. Len(list)]
  BY <1>3, Zenon DEF FoldLeft, MapThenFoldSet
<1> DEFINE f == [n \in 0 .. Len(list) |-> iter[1 .. n]]
<1> HIDE DEF iter
<1>6. f[0] = base
  BY <1>3, <1>4
<1>7. ASSUME NEW n \in 1 .. Len(list)
      PROVE  f[n] = Added(f[n - 1], list[n])
  <2>1. /\ 1 .. n \in SUBSET (1 .. Len(list)) /\ n \in 1 .. n /\ n \in Nat
        /\ n \in 0 .. Len(list) /\ n - 1 \in 0 .. Len(list)
    BY <1>3
  <2>4. (1 .. n) \ {n} = 1 .. (n - 1)
    BY <2>1
  <2>2. Max(1 .. n) = n
    BY <2>1, MaxIs
  <2>3. iter[1 .. n] = Step(iter, 1 .. n)
    BY <1>4, <2>1
  <2> QED
    BY <2>1, <2>2, <2>3, <2>4
<1>8. FoldLeft(Added, base, list) = f[Len(list)]
  BY <1>3, <1>5
<1> HIDE DEF f
<1> QED
  BY <1>6, <1>7, <1>8

-----------------------------------------------------------------------------
(* The registries *)

Maps(K, Value) == UNION {[known -> Value] : known \in SUBSET K}

(* A record that is entered keeps the others and maps like them. *)
LEMMA InsertedIsMap ==
  ASSUME NEW K, NEW Value, NEW map \in Maps(K, Value),
         NEW key \in K, NEW value \in Value
  PROVE  /\ Inserted(map, key, value) \in Maps(K, Value)
         /\ DOMAIN Inserted(map, key, value) = DOMAIN map \cup {key}
         /\ Inserted(map, key, value)[key] = value
         /\ \A k \in DOMAIN map : k # key => Inserted(map, key, value)[k] = map[k]
<1>1. PICK known \in SUBSET K : map \in [known -> Value]
  BY DEF Maps
<1>2. Inserted(map, key, value) \in [known \cup {key} -> Value]
  BY <1>1 DEF Inserted
<1>3. known \cup {key} \in SUBSET K
  BY <1>1
<1> QED
  BY <1>1, <1>2, <1>3 DEF Inserted, Maps

(* What addStation leaves is a map that has the station and every station  *)
(* it had, unchanged.                                                      *)
LEMMA StationInsertedIsMap ==
  ASSUME NEW known \in StationMap, NEW u \in StationUid, NEW n \in StationName
  PROVE  /\ StationInserted(known, u, n) \in StationMap
         /\ DOMAIN StationInserted(known, u, n) = DOMAIN known \cup {u}
         /\ \A k \in DOMAIN known : StationInserted(known, u, n)[k] = known[k]
<1>1. CASE u \in DOMAIN known
  BY <1>1 DEF StationInserted
<1>2. CASE u \notin DOMAIN known
  <2>1. StationMap = Maps(StationUid, StationName)
    BY DEF StationMap, Maps
  <2>2. /\ Inserted(known, u, n) \in Maps(StationUid, StationName)
        /\ DOMAIN Inserted(known, u, n) = DOMAIN known \cup {u}
        /\ \A k \in DOMAIN known : k # u => Inserted(known, u, n)[k] = known[k]
    <3>1. known \in Maps(StationUid, StationName)
      BY <2>1
    <3>2. Inserted(known, u, n) \in Maps(StationUid, StationName)
      BY <3>1, InsertedIsMap
    <3>3. DOMAIN Inserted(known, u, n) = DOMAIN known \cup {u}
      BY <3>1, InsertedIsMap
    <3>4. \A k \in DOMAIN known : k # u => Inserted(known, u, n)[k] = known[k]
      BY DEF Inserted
    <3> QED
      BY <3>2, <3>3, <3>4
  <2> QED
    BY <1>2, <2>1, <2>2 DEF StationInserted
<1> QED
  BY <1>1, <1>2

-----------------------------------------------------------------------------
(* The accepted list *)

Registries == [stations : StationMap, obsfiles : ObsFileMap, refused : BOOLEAN]

(* The keys of the list are new to the registries and differ.              *)
New(list, before) ==
  /\ \A i, j \in DOMAIN list :
       i # j => list[i].obsfile # list[j].obsfile /\ list[i].station # list[j].station
  /\ \A i \in DOMAIN list : /\ list[i].obsfile \notin DOMAIN before.obsfiles
                            /\ list[i].station \notin DOMAIN before.stations

(* The first n items are registered, and nothing else was.                 *)
Entered(list, n, before, after) ==
  /\ after \in Registries
  /\ after.refused = before.refused
  /\ \A u \in DOMAIN after.stations :
       u \in DOMAIN before.stations \/ \E i \in 1 .. n : u = list[i].station
  /\ \A f \in DOMAIN after.obsfiles :
       f \in DOMAIN before.obsfiles \/ \E i \in 1 .. n : f = list[i].obsfile
  /\ \A i \in 1 .. n : /\ list[i].obsfile \in DOMAIN after.obsfiles
                       /\ after.obsfiles[list[i].obsfile] = list[i].station
  /\ \A i \in 1 .. n : /\ list[i].station \in DOMAIN after.stations
                       /\ after.stations[list[i].station] = list[i].stationName

LEMMA AddedEnters ==
  ASSUME NEW list \in Seq(Item), NEW before \in Registries, New(list, before),
         NEW n \in Nat, n + 1 \in 1 .. Len(list), NEW registry,
         Entered(list, n, before, registry)
  PROVE  Entered(list, n + 1, before, Added(registry, list[n + 1]))
<1> DEFINE item == list[n + 1]
           s == StationInserted(registry.stations, item.station, item.stationName)
           o == Inserted(registry.obsfiles, item.obsfile, item.station)
           after == [stations |-> s, obsfiles |-> o, refused |-> registry.refused]
<1>1. /\ item \in Item /\ DOMAIN list = 1 .. Len(list) /\ n + 1 \in DOMAIN list
      /\ \A i \in 1 .. n : i \in DOMAIN list /\ i # n + 1
      /\ 1 .. n + 1 = (1 .. n) \cup {n + 1}
  OBVIOUS
<1>2. /\ item.obsfile \in ObsFileUid /\ item.station \in StationUid
      /\ item.stationName \in StationName
  BY <1>1, KeyAssumption DEF Item
<1>3. registry \in Registries /\ registry.stations \in StationMap /\ registry.obsfiles \in ObsFileMap
  BY DEF Entered, Registries
<1>4. item.obsfile \notin DOMAIN registry.obsfiles /\ item.station \notin DOMAIN registry.stations
  BY <1>1 DEF Entered, New
<1>5. Added(registry, item) = after
  BY <1>3, <1>4 DEF Added, Registries
<1>6. /\ s \in StationMap /\ DOMAIN s = DOMAIN registry.stations \cup {item.station}
      /\ \A u \in DOMAIN registry.stations : s[u] = registry.stations[u]
      /\ s[item.station] = item.stationName
  <2>1. s[item.station] = item.stationName
    BY <1>4 DEF StationInserted, Inserted
  <2> HIDE DEF item
  <2> QED
    BY <1>2, <1>3, <2>1, StationInsertedIsMap
<1>7. /\ o \in ObsFileMap /\ DOMAIN o = DOMAIN registry.obsfiles \cup {item.obsfile}
      /\ \A f \in DOMAIN registry.obsfiles : o[f] = registry.obsfiles[f]
      /\ o[item.obsfile] = item.station
  <2>1. ObsFileMap = Maps(ObsFileUid, StationUid)
    BY DEF ObsFileMap, Maps
  <2> HIDE DEF item
  <2>2. registry.obsfiles \in Maps(ObsFileUid, StationUid)
    BY <1>3, <2>1
  <2>3. /\ o \in Maps(ObsFileUid, StationUid)
        /\ DOMAIN o = DOMAIN registry.obsfiles \cup {item.obsfile}
        /\ o[item.obsfile] = item.station
        /\ \A f \in DOMAIN registry.obsfiles : f # item.obsfile => o[f] = registry.obsfiles[f]
    <3>1. o \in Maps(ObsFileUid, StationUid)
      BY <1>2, <2>2, InsertedIsMap
    <3> QED
      BY <3>1 DEF Inserted
  <2> QED
    BY <1>4, <2>1, <2>3
<1>8. after \in Registries /\ after.refused = before.refused
  BY <1>3, <1>6, <1>7 DEF Registries, Entered
<1> HIDE DEF s, o
<1>9. \A u \in DOMAIN after.stations :
        u \in DOMAIN before.stations \/ \E i \in 1 .. n + 1 : u = list[i].station
  BY <1>1, <1>6 DEF Entered
<1>10. \A f \in DOMAIN after.obsfiles :
         f \in DOMAIN before.obsfiles \/ \E i \in 1 .. n + 1 : f = list[i].obsfile
  BY <1>1, <1>7 DEF Entered
<1>11. \A i \in 1 .. n + 1 : /\ list[i].obsfile \in DOMAIN after.obsfiles
                             /\ after.obsfiles[list[i].obsfile] = list[i].station
  BY <1>1, <1>7 DEF Entered
<1>12. \A i \in 1 .. n + 1 : /\ list[i].station \in DOMAIN after.stations
                             /\ after.stations[list[i].station] = list[i].stationName
  BY <1>1, <1>6 DEF Entered
<1> HIDE DEF after
<1>13. Entered(list, n + 1, before, after)
  BY <1>8, <1>9, <1>10, <1>11, <1>12 DEF Entered
<1> QED
  BY <1>5, <1>13

(* What the fold of a list with new keys leaves in the registries.         *)
LEMMA AcceptEnters ==
  ASSUME NEW list \in Seq(Item), NEW before \in Registries, New(list, before)
  PROVE  Entered(list, Len(list), before, FoldLeft(Added, before, list))
<1>1. PICK f : /\ f[0] = before
               /\ \A n \in 1 .. Len(list) : f[n] = Added(f[n - 1], list[n])
               /\ FoldLeft(Added, before, list) = f[Len(list)]
  BY FoldSteps
<1> DEFINE N == {n \in Nat : n <= Len(list) => Entered(list, n, before, f[n])}
<1>2. 0 \in N
  BY <1>1 DEF Entered
<1>3. ASSUME NEW n \in Nat, n \in N
      PROVE  n + 1 \in N
  <2> SUFFICES ASSUME n + 1 <= Len(list)
               PROVE  Entered(list, n + 1, before, f[n + 1])
    OBVIOUS
  <2>1. Len(list) \in Nat /\ n + 1 \in 1 .. Len(list) /\ n <= Len(list) /\ (n + 1) - 1 = n
    OBVIOUS
  <2>2. Entered(list, n, before, f[n])
    BY <1>3, <2>1
  <2>3. f[n + 1] = Added(f[n], list[n + 1])
    BY <1>1, <2>1
  <2> QED
    BY <2>1, <2>2, <2>3, AddedEnters
<1> HIDE DEF N
<1>4. \A n \in Nat : n \in N
  BY <1>2, <1>3, SetInduction
<1>5. Len(list) \in Nat
  OBVIOUS
<1>6. Entered(list, Len(list), before, f[Len(list)])
  BY <1>4, <1>5 DEF N
<1> QED
  BY <1>1, <1>6

-----------------------------------------------------------------------------
(* The invariant *)

(* A key is remembered when a record or an item of the list has it.        *)
KeysAreRemembered ==
  /\ DOMAIN stations \subseteq generated /\ DOMAIN obsfiles \subseteq generated
  /\ \A i \in DOMAIN items : items[i].obsfile \in generated /\ items[i].station \in generated

KeysDiffer ==
  \A i, j \in DOMAIN items :
    i # j => items[i].obsfile # items[j].obsfile /\ items[i].station # items[j].station

(* Nothing of a list that can still be accepted is registered.             *)
ListIsNew ==
  open => \A i \in DOMAIN items : /\ items[i].obsfile \notin DOMAIN obsfiles
                                  /\ items[i].station \notin DOMAIN stations

IInv == TypeOK /\ KeysAreRemembered /\ KeysDiffer /\ ListIsNew /\ NothingRefused

LEMMA InitHolds == Init => IInv
<1>1. /\ EmptyMap \in StationMap /\ EmptyMap \in ObsFileMap
      /\ DOMAIN EmptyMap = {} /\ DOMAIN <<>> = {}
      /\ <<>> \in Seq(Item) /\ <<>> \in Seq(StationName)
  <2>1. EmptyMap \in [{} -> StationName] /\ EmptyMap \in [{} -> StationUid]
    BY DEF EmptyMap
  <2>2. {} \in SUBSET StationUid /\ {} \in SUBSET ObsFileUid
    OBVIOUS
  <2>3. EmptyMap \in StationMap /\ EmptyMap \in ObsFileMap
    BY <2>1, <2>2 DEF StationMap, ObsFileMap
  <2>4. DOMAIN EmptyMap = {}
    BY DEF EmptyMap
  <2> QED
    BY <2>3, <2>4
<1> QED
  BY <1>1 DEF Init, IInv, TypeOK, KeysAreRemembered, KeysDiffer, ListIsNew,
     NothingRefused, RegistryInit, RegistryTypeOK

LEMMA ListStep ==
  ASSUME IInv, NEW f \in FileName, NEW k1 \in Key, NEW k2 \in Key, NEW k3 \in Key,
         AddObsItem(f, k1, k2, k3)
  PROVE  IInv'
<1>1. /\ generated' = generated \cup {k1, k2, k3}
      /\ k1 \notin generated /\ k2 \notin generated
      /\ UNCHANGED <<stations, obsfiles, open, refused>>
  BY DEF AddObsItem, Generate, registryVars
<1>2. CASE IsDuplicate(f)
  <2>1. items' = items /\ texts' = texts
    BY <1>2 DEF AddObsItem, listVars
  <2> QED
    BY <1>1, <2>1 DEF IInv, TypeOK, KeysAreRemembered, KeysDiffer, ListIsNew,
       NothingRefused, RegistryTypeOK
<1>3. CASE ~IsDuplicate(f)
  <2> DEFINE item == [obsfile |-> k1, station |-> k2, name |-> f, stationName |-> StationOf(f)]
  <2>1. item \in Item /\ item.obsfile = k1 /\ item.station = k2
    BY KeyAssumption DEF Item
  <2>2. items' = Append(items, item) /\ texts' = Append(texts, StationOf(f))
    BY <1>3 DEF AddObsItem
  <2> HIDE DEF item
  <2>3. /\ items \in Seq(Item) /\ Len(items) \in Nat /\ DOMAIN items = 1 .. Len(items)
        /\ items' \in Seq(Item) /\ DOMAIN items' = (1 .. Len(items)) \cup {Len(items) + 1}
        /\ items'[Len(items) + 1] = item
        /\ \A i \in 1 .. Len(items) : items'[i] = items[i] /\ i # Len(items) + 1
    BY <2>1, <2>2 DEF IInv, TypeOK
  <2>4. KeysAreRemembered'
    BY <1>1, <2>1, <2>3 DEF IInv, KeysAreRemembered
  <2>5. \A i \in DOMAIN items : items[i].obsfile # k1 /\ items[i].station # k2
    BY <1>1 DEF IInv, KeysAreRemembered
  <2>6. KeysDiffer'
    BY <2>1, <2>3, <2>5 DEF IInv, KeysDiffer
  <2>7. k1 \notin DOMAIN obsfiles /\ k2 \notin DOMAIN stations
    BY <1>1 DEF IInv, KeysAreRemembered
  <2>8. ListIsNew'
    BY <1>1, <2>1, <2>3, <2>7 DEF IInv, ListIsNew
  <2>9. texts' \in Seq(StationName) /\ Len(texts') = Len(items')
    BY <2>2, KeyAssumption DEF IInv, TypeOK
  <2> QED
    BY <1>1, <2>3, <2>4, <2>6, <2>8, <2>9 DEF IInv, TypeOK, RegistryTypeOK, NothingRefused
<1> QED
  BY <1>2, <1>3

(* An edit leaves the keys of the list alone.                              *)
LEMMA EditStep ==
  ASSUME IInv, NEW i \in DOMAIN items,
         (\E f \in FileName : EditFileName(i, f)) \/ EditStationName(i)
  PROVE  IInv'
<1>1. UNCHANGED <<stations, obsfiles, generated, texts, open, refused>>
  BY DEF EditFileName, EditStationName, registryVars
<1>2. /\ items' \in Seq(Item) /\ DOMAIN items' = DOMAIN items
      /\ \A j \in DOMAIN items : /\ items'[j].obsfile = items[j].obsfile
                                 /\ items'[j].station = items[j].station
  <2>1. items \in Seq(Item) /\ items[i] \in Item /\ texts[i] \in StationName
    BY DEF IInv, TypeOK
  <2>2. PICK item \in Item : /\ items' = [items EXCEPT ![i] = item]
                             /\ item.obsfile = items[i].obsfile
                             /\ item.station = items[i].station
    <3>1. ASSUME NEW f \in FileName, EditFileName(i, f)
          PROVE  items' = [items EXCEPT ![i] = [items[i] EXCEPT !.name = f]]
      BY <3>1 DEF EditFileName
    <3>2. ASSUME EditStationName(i)
          PROVE  items' = [items EXCEPT ![i] = [items[i] EXCEPT !.stationName = texts[i]]]
      BY <3>2 DEF EditStationName
    <3> QED
      BY <2>1, <3>1, <3>2 DEF Item
  <2> QED
    BY <2>1, <2>2
<1>3. Len(items') = Len(items)
  BY <1>2 DEF IInv, TypeOK
<1> QED
  BY <1>1, <1>2, <1>3 DEF IInv, TypeOK, KeysAreRemembered, KeysDiffer, ListIsNew,
     NothingRefused, RegistryTypeOK

(* A name that is chosen changes the text of one box.                      *)
LEMMA ChooseStep ==
  ASSUME IInv, NEW i \in DOMAIN items, NEW n \in StationName, ChooseStationName(i, n)
  PROVE  IInv'
<1>1. UNCHANGED <<stations, obsfiles, generated, items, open, refused>>
  BY DEF ChooseStationName, registryVars
<1>2. texts' \in Seq(StationName) /\ Len(texts') = Len(texts)
  BY DEF ChooseStationName, IInv, TypeOK
<1> QED
  BY <1>1, <1>2 DEF IInv, TypeOK, KeysAreRemembered, KeysDiffer, ListIsNew,
     NothingRefused, RegistryTypeOK

(* The registries after the list is accepted. *)
LEMMA Accepted ==
  ASSUME IInv, Accept
  PROVE  /\ Entered(items, Len(items),
                    [stations |-> stations, obsfiles |-> obsfiles, refused |-> refused],
                    [stations |-> stations', obsfiles |-> obsfiles', refused |-> refused'])
         /\ items \in Seq(Item) /\ DOMAIN items = 1 .. Len(items)
<1> DEFINE before == [stations |-> stations, obsfiles |-> obsfiles, refused |-> refused]
           after == FoldLeft(Added, before, items)
<1>1. items \in Seq(Item) /\ DOMAIN items = 1 .. Len(items)
  BY DEF IInv, TypeOK
<1>2. before \in Registries /\ New(items, before)
  BY DEF IInv, TypeOK, RegistryTypeOK, Registries, New, KeysDiffer, ListIsNew, Accept
<1>3. stations' = after.stations /\ obsfiles' = after.obsfiles /\ refused' = after.refused
  BY DEF Accept
<1> HIDE DEF before
<1>4. Entered(items, Len(items), before, after)
  BY <1>1, <1>2, AcceptEnters
<1> HIDE DEF after
<1>5. after = [stations |-> stations', obsfiles |-> obsfiles', refused |-> refused']
  BY <1>3, <1>4 DEF Entered, Registries
<1> QED
  BY <1>1, <1>4, <1>5 DEF before

LEMMA AcceptStep ==
  ASSUME IInv, Accept
  PROVE  IInv'
<1>1. /\ items \in Seq(Item) /\ DOMAIN items = 1 .. Len(items)
      /\ ~open' /\ open' \in BOOLEAN /\ UNCHANGED <<generated, items, texts>>
  BY Accepted DEF Accept, listVars
<1>2. /\ stations' \in StationMap /\ obsfiles' \in ObsFileMap /\ refused' = refused
      /\ \A u \in DOMAIN stations' :
           u \in DOMAIN stations \/ \E i \in DOMAIN items : u = items[i].station
      /\ \A f \in DOMAIN obsfiles' :
           f \in DOMAIN obsfiles \/ \E i \in DOMAIN items : f = items[i].obsfile
  BY <1>1, Accepted DEF Entered, Registries
<1>3. KeysAreRemembered'
  BY <1>1, <1>2 DEF IInv, KeysAreRemembered
<1> QED
  BY <1>1, <1>2, <1>3 DEF IInv, TypeOK, RegistryTypeOK, KeysDiffer, ListIsNew, NothingRefused

LEMMA NewStationStep ==
  ASSUME IInv, NEW k \in Key, NEW n \in StationName, AddNewStation(k, n)
  PROVE  IInv'
<1>1. /\ k \in StationUid /\ k \notin DOMAIN stations /\ generated' = generated \cup {k}
      /\ ~open' /\ UNCHANGED <<obsfiles, items, texts, open>>
      /\ refused' = (refused \/ k \in DOMAIN stations)
      /\ stations' = StationInserted(stations, k, n)
  BY KeyAssumption DEF AddNewStation, Generate, AddStation, IInv, KeysAreRemembered, listVars
<1>2. stations' \in StationMap /\ DOMAIN stations' = DOMAIN stations \cup {k}
  BY <1>1, StationInsertedIsMap DEF IInv, TypeOK, RegistryTypeOK
<1>3. ~refused'
  BY <1>1 DEF IInv, NothingRefused
<1>4. KeysAreRemembered'
  BY <1>1, <1>2 DEF IInv, KeysAreRemembered
<1> QED
  BY <1>1, <1>2, <1>3, <1>4
  DEF IInv, TypeOK, RegistryTypeOK, KeysDiffer, ListIsNew, NothingRefused

LEMMA StepHolds == IInv /\ [Next]_vars => IInv'
<1> SUFFICES ASSUME IInv, [Next]_vars PROVE IInv'
  OBVIOUS
<1>1. CASE OpenDialog
  <2>1. /\ items' \in Seq(Item) /\ DOMAIN items' = {}
        /\ texts' \in Seq(StationName) /\ Len(texts') = Len(items')
    BY <1>1 DEF OpenDialog
  <2> QED
    BY <1>1, <2>1 DEF OpenDialog, registryVars, IInv, TypeOK, RegistryTypeOK,
       KeysAreRemembered, KeysDiffer, ListIsNew, NothingRefused
<1>2. CASE Cancel \/ UNCHANGED vars
  <2>1. /\ UNCHANGED <<stations, obsfiles, generated, items, texts, refused>>
        /\ open' = open \/ open' = FALSE
    BY <1>2 DEF Cancel, vars, registryVars, listVars
  <2>2. TypeOK' /\ NothingRefused'
    BY <2>1 DEF IInv, TypeOK, RegistryTypeOK, NothingRefused
  <2>3. KeysAreRemembered' /\ KeysDiffer'
    BY <2>1 DEF IInv, KeysAreRemembered, KeysDiffer
  <2>4. ListIsNew'
    <3>1. open' => open
      BY <2>1
    <3> QED
      BY <2>1, <3>1 DEF IInv, ListIsNew
  <2> QED
    BY <2>2, <2>3, <2>4 DEF IInv
<1> QED
  BY <1>1, <1>2, ListStep, EditStep, ChooseStep, AcceptStep, NewStationStep DEF Next

LEMMA InvariantHolds == Spec => []IInv
BY InitHolds, StepHolds, PTL DEF Spec

(* Every list the dialog shows and every record the registries hold keeps  *)
(* its type, whatever is listed, edited and accepted.                      *)
THEOREM TypeCorrect == Spec => []TypeOK
<1>1. IInv => TypeOK
  BY DEF IInv
<1> QED
  BY <1>1, InvariantHolds, PTL

(* addStation and addObsFile never refuse a record: a key that was         *)
(* generated for one serves no other.                                      *)
THEOREM NothingIsRefused == Spec => []NothingRefused
<1>1. IInv => NothingRefused
  BY DEF IInv
<1> QED
  BY <1>1, InvariantHolds, PTL

(* A list of any length becomes, row by row, a new file and a new station  *)
(* of the row's name, and no two rows have one of them in common.          *)
THEOREM ListsAreRegistered == Spec => AcceptedIsRegistered
<1> DEFINE Whole(i) ==
      LET file == items[i].obsfile
          station == obsfiles'[file]
      IN  /\ file \in DOMAIN obsfiles' \ DOMAIN obsfiles
          /\ station \in DOMAIN stations' \ DOMAIN stations
          /\ stations'[station] = items[i].stationName
          /\ \A j \in DOMAIN items \ {i} :
               items[j].obsfile # file /\ obsfiles'[items[j].obsfile] # station
<1>1. ASSUME IInv, Accept, NEW i \in DOMAIN items
      PROVE  Whole(i)
  <2>1. \A j \in DOMAIN items :
          /\ items[j].obsfile \in DOMAIN obsfiles'
          /\ obsfiles'[items[j].obsfile] = items[j].station
          /\ items[j].station \in DOMAIN stations'
          /\ stations'[items[j].station] = items[j].stationName
    BY <1>1, Accepted DEF Entered
  <2>2. items[i].obsfile \notin DOMAIN obsfiles /\ items[i].station \notin DOMAIN stations
    BY <1>1 DEF IInv, ListIsNew, Accept
  <2>3. \A j \in DOMAIN items \ {i} :
          items[j].obsfile # items[i].obsfile /\ items[j].station # items[i].station
    BY <1>1 DEF IInv, KeysDiffer
  <2> QED
    BY <2>1, <2>2, <2>3
<1>2. IInv => [Accept => \A i \in DOMAIN items : Whole(i)]_vars
  BY <1>1
<1> QED
  BY <1>2, InvariantHolds, PTL DEF Spec, AcceptedIsRegistered

=============================================================================
