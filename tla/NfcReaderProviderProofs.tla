---------------------- MODULE NfcReaderProviderProofs ----------------------
(***************************************************************************)
(* What NfcReaderProvider guarantees for any number of providers, units    *)
(* and readers.                                                            *)
(***************************************************************************)
EXTENDS NfcReaderProvider, FiniteSetTheorems, TLAPS

\* The part of TypeOK that the units make up.
UnitsOK ==
    /\ d_name \in [Units -> Readers \cup {Default, None}]
    /\ d_connectedName \in [Units -> Readers \cup {Default, None}]
    /\ d_device \in [Units -> Readers \cup {None}]
    /\ provider \in [Units -> Providers \cup {None}]
    /\ \A u \in Units : d_name[u] = None <=> provider[u] = None
    /\ renamed \in SUBSET Units
    /\ lost \in SUBSET Readers

\* New units have all their members.
LEMMA AddUnitsOK ==
    ASSUME TypeOK, NEW p \in Providers,
           NEW added \in SUBSET Units,
           NEW names \in [added -> Readers \cup {Default}],
           NEW connectedNames \in [added -> Readers \cup {Default, None}],
           AddUnits(p, names, connectedNames), UNCHANGED d_device
    PROVE  UnitsOK' /\ d_readers' \in [Providers -> SUBSET Units]
<1>1. /\ added \in SUBSET Units
      /\ DOMAIN names = added /\ DOMAIN connectedNames = added
      /\ names \in [added -> Readers \cup {Default, None}]
      /\ connectedNames \in [added -> Readers \cup {Default, None}]
  OBVIOUS
<1>2. /\ d_name \in [Units -> Readers \cup {Default, None}]
      /\ d_connectedName \in [Units -> Readers \cup {Default, None}]
      /\ provider \in [Units -> Providers \cup {None}]
  BY DEF TypeOK
<1>3. /\ d_name' \in [Units -> Readers \cup {Default, None}]
      /\ \A u \in Units : d_name'[u] = IF u \in added THEN names[u] ELSE d_name[u]
  BY <1>1, <1>2 DEF AddUnits, Updated
<1>4. d_connectedName' \in [Units -> Readers \cup {Default, None}]
  BY <1>1, <1>2 DEF AddUnits, Updated
<1>5. /\ provider' \in [Units -> Providers \cup {None}]
      /\ \A u \in Units : provider'[u] = IF u \in added THEN p ELSE provider[u]
  BY <1>1, <1>2 DEF AddUnits, Updated
<1>6. \A u \in Units : d_name'[u] = None <=> provider'[u] = None
  BY <1>3, <1>5, ProviderAssumption DEF TypeOK, ProviderAssumption
<1>7. d_readers' \in [Providers -> SUBSET Units]
  BY <1>1 DEF AddUnits, TypeOK
<1>8. renamed' \in SUBSET Units /\ lost' \in SUBSET Readers
  BY DEF AddUnits, TypeOK
<1> QED BY <1>3, <1>4, <1>5, <1>6, <1>7, <1>8 DEF UnitsOK, TypeOK

LEMMA DestroyUnitsOK ==
    ASSUME TypeOK, NEW dead \in SUBSET Units, DestroyUnits(dead)
    PROVE  UnitsOK' /\ claimed' \in SUBSET Readers
<1>1. dead \in SUBSET Units
  OBVIOUS
<1> QED BY <1>1 DEF DestroyUnits, Updated, UnitsOK, TypeOK

LEMMA RefreshedOK ==
    ASSUME TypeOK, NEW p \in Providers, NEW loaded \in BOOLEAN, Refreshed(p, loaded)
    PROVE  /\ UnitsOK' /\ d_readers' \in [Providers -> SUBSET Units]
           /\ answer' \in Answers
<1>1. PICK found \in Scans(loaded), added \in SUBSET (Units \ Existing) :
          \E names \in Bijection(added, NewNames(p, found)) : AddUnits(p, names, names)
  BY DEF Refreshed
<1>2. PICK names \in Bijection(added, NewNames(p, found)) : AddUnits(p, names, names)
  BY <1>1
<1>3. NewNames(p, found) \subseteq Readers
  BY DEF NewNames, Scans, Plugged
<1>4. names \in [added -> Readers]
  BY <1>3 DEF Bijection, Injection, Surjection
<1>5. /\ added \in SUBSET Units /\ UNCHANGED d_device
      /\ names \in [added -> Readers \cup {Default}]
      /\ names \in [added -> Readers \cup {Default, None}]
  BY <1>4 DEF Refreshed
<1>6. answer' \in Answers
  <2>1. PICK f \in Scans(loaded) :
            answer' = <<"refreshReaderList", p, TRUE, IF loaded THEN Plugged \ f ELSE {}>>
    BY DEF Refreshed
  <2>2. (IF loaded THEN Plugged \ f ELSE {}) \in SUBSET Readers
    BY DEF Plugged
  <2> QED BY <2>1, <2>2 DEF Answers
<1> QED BY <1>2, <1>5, <1>6, AddUnitsOK

LEMMA OpenableOK ==
    ASSUME NEW name, NEW r \in Openable(name)
    PROVE  r = None \/ (r \in Plugged /\ r \notin claimed)
BY DEF Openable, Plugged

----------------------------------------------------------------------------
LEMMA InitType == Init => TypeOK
BY DEF Init, TypeOK, Answers

LEMMA CrashType == ASSUME TypeOK, Crash PROVE TypeOK'
BY DEF Crash, TypeOK, Answers, unit

LEMMA ProviderType ==
    ASSUME TypeOK, ProviderCall
    PROVE  TypeOK'
<1>1. PICK p \in Providers :
          \/ NewProvider(p) \/ RefreshReaderList(p) \/ CreateReaderUnit(p)
          \/ Release(p) \/ DestroyProvider(p)
  BY DEF ProviderCall
<1>2. CASE NewProvider(p)
  <2>1. UnitsOK' /\ d_readers' \in [Providers -> SUBSET Units] /\ answer' \in Answers
    BY <1>2, RefreshedOK DEF NewProvider
  <2> QED BY <1>2, <2>1 DEF NewProvider, Refreshed, UnitsOK, TypeOK
<1>3. CASE RefreshReaderList(p)
  <2>1. CASE Crash
    BY <2>1, CrashType
  <2>2. CASE Refreshed(p, drivers) /\ UNCHANGED <<drivers, d_context>>
    <3>1. UnitsOK' /\ d_readers' \in [Providers -> SUBSET Units] /\ answer' \in Answers
      BY <2>2, RefreshedOK DEF TypeOK
    <3> QED BY <2>2, <3>1 DEF Refreshed, UnitsOK, TypeOK
  <2> QED BY <1>3, <2>1, <2>2 DEF RefreshReaderList
<1>4. CASE CreateReaderUnit(p)
  <2>1. CASE Crash
    BY <2>1, CrashType
  <2>2. CASE ~Crash
    <3>1. PICK u \in Units \ Existing, r \in Openable(Default) :
              AddUnits(p, [new \in {u} |-> Default], [new \in {u} |-> r])
      BY <1>4, <2>2 DEF CreateReaderUnit
    <3>2. UNCHANGED <<usb, claimed, drivers, d_context, d_device, crashed>> /\ answer' = None
      BY <1>4, <2>2 DEF CreateReaderUnit
    <3>3. r \in Readers \cup {Default, None}
      BY OpenableOK DEF Plugged
    <3>4. UnitsOK' /\ d_readers' \in [Providers -> SUBSET Units]
      BY <3>1, <3>2, <3>3, AddUnitsOK
    <3> QED BY <3>2, <3>4 DEF UnitsOK, TypeOK, Answers
  <2> QED BY <2>1, <2>2
<1>5. CASE Release(p)
  BY <1>5 DEF Release, TypeOK, Answers, unit
<1>6. CASE DestroyProvider(p)
  <2>1. PICK dead \in SUBSET d_readers[p] : DestroyUnits(dead)
    BY <1>6 DEF DestroyProvider
  <2>2. dead \in SUBSET Units
    BY DEF TypeOK
  <2>3. UnitsOK' /\ claimed' \in SUBSET Readers
    BY <2>1, <2>2, DestroyUnitsOK
  <2> QED BY <1>6, <2>3 DEF DestroyProvider, UnitsOK, TypeOK, Answers
<1> QED BY <1>1, <1>2, <1>3, <1>4, <1>5, <1>6

LEMMA UnitType ==
    ASSUME TypeOK, UnitCall
    PROVE  TypeOK'
<1>1. PICK u \in Units :
          \/ ConnectToReader(u) \/ DisconnectFromReader(u) \/ FetchRealName(u) \/ DropUnit(u)
          \/ \E name \in Readers \cup {Default} : UnSerialize(u, name)
  BY DEF UnitCall
<1>2. CASE ConnectToReader(u)
  <2>1. CASE Crash
    BY <2>1, CrashType
  <2>2. CASE ~Crash
    <3>1. PICK r \in Openable(d_name[u]) :
              /\ d_device' = [d_device EXCEPT ![u] = r]
              /\ claimed' = claimed \cup ({r} \ {None})
              /\ lost' = lost \cup ({d_device[u]} \ {None})
              /\ answer' = <<"connectToReader", u, r # None>>
      BY <1>2, <2>2 DEF ConnectToReader
    <3>2. r \in Readers \cup {None}
      BY OpenableOK DEF Plugged
    <3>3. answer' \in Answers
      BY <3>1 DEF Answers
    <3>4. UNCHANGED <<usb, drivers, d_context, d_readers, d_name, d_connectedName, provider,
                      renamed, crashed>>
      BY <1>2, <2>2 DEF ConnectToReader
    <3> QED BY <3>1, <3>2, <3>3, <3>4 DEF TypeOK
  <2> QED BY <2>1, <2>2
<1>3. CASE DisconnectFromReader(u)
  BY <1>3 DEF DisconnectFromReader, TypeOK, Answers
<1>4. CASE FetchRealName(u)
  BY <1>4 DEF FetchRealName, TypeOK, Answers
<1>5. CASE DropUnit(u)
  <2>1. UnitsOK' /\ claimed' \in SUBSET Readers
    BY <1>5, DestroyUnitsOK DEF DropUnit
  <2> QED BY <1>5, <2>1 DEF DropUnit, UnitsOK, TypeOK, Answers
<1>6. ASSUME NEW name \in Readers \cup {Default}, UnSerialize(u, name) PROVE TypeOK'
  <2>1. /\ d_name' \in [Units -> Readers \cup {Default, None}]
        /\ \A v \in Units : d_name'[v] = None <=> d_name[v] = None
    BY <1>6, ProviderAssumption DEF UnSerialize, Existing, TypeOK, ProviderAssumption
  <2> QED BY <1>6, <2>1 DEF UnSerialize, TypeOK, Answers
<1> QED BY <1>1, <1>2, <1>3, <1>4, <1>5, <1>6

LEMMA StepType == TypeOK /\ [Next]_vars => TypeOK'
<1> SUFFICES ASSUME TypeOK, [Next]_vars PROVE TypeOK'
  OBVIOUS
<1>1. CASE Environment
  BY <1>1 DEF Environment, Plug, Unplug, TypeOK, Answers, unit
<1>2. CASE UNCHANGED vars
  BY <1>2 DEF vars, unit, TypeOK
<1> QED BY <1>1, <1>2, ProviderType, UnitType DEF Next

\* Every variable holds a value of its kind, and a unit has all its members or
\* none of them.
THEOREM TypeCorrect == Spec => []TypeOK
BY InitType, StepType, PTL DEF Spec

----------------------------------------------------------------------------
(***************************************************************************)
(* Handles.  A handle to a reader that is plugged in has claimed it, so    *)
(* that no other handle to it can be opened.                               *)
(***************************************************************************)
HandlesInv ==
    /\ OneHandlePerReader
    /\ \A u \in Units : d_device[u] \in Plugged => d_device[u] \in claimed
    /\ \A u \in Units : d_device[u] \in Readers => usb[d_device[u]] # "absent"

\* Closing a set of handles, and only these.
LEMMA ClosingKeepsHandles ==
    ASSUME TypeOK, HandlesInv, NEW closed \in SUBSET Units, UNCHANGED usb,
           claimed' = claimed \ {d_device[u] : u \in closed},
           d_device' = [u \in Units |-> IF u \in closed THEN None ELSE d_device[u]]
    PROVE  HandlesInv'
<1>1. closed \in SUBSET Units
  OBVIOUS
<1>2. \A u \in Units : d_device'[u] \in Readers => d_device'[u] = d_device[u] /\ u \notin closed
  BY ProviderAssumption DEF ProviderAssumption
<1>3. Plugged' = Plugged /\ Plugged \subseteq Readers
  BY DEF Plugged
<1> QED BY <1>1, <1>2, <1>3 DEF HandlesInv, OneHandlePerReader

LEMMA DestroyingCloses ==
    ASSUME TypeOK, NEW dead \in SUBSET Units, DestroyUnits(dead)
    PROVE  /\ claimed' = claimed \ {d_device[u] : u \in dead} /\ UNCHANGED lost
           /\ d_device' = [u \in Units |-> IF u \in dead THEN None ELSE d_device[u]]
BY DEF DestroyUnits, Updated, TypeOK

LEMMA InitHandles == Init => HandlesInv
BY ProviderAssumption DEF Init, HandlesInv, OneHandlePerReader, Plugged, ProviderAssumption

LEMMA StepHandles == TypeOK /\ HandlesInv /\ [Next]_vars => HandlesInv'
<1> SUFFICES ASSUME TypeOK, HandlesInv, [Next]_vars PROVE HandlesInv'
  OBVIOUS
<1>1. CASE UNCHANGED <<usb, claimed, d_device>>
  BY <1>1 DEF HandlesInv, OneHandlePerReader, Plugged
<1>2. ASSUME NEW r \in Readers, Plug(r) PROVE HandlesInv'
  <2>1. \A u \in Units : d_device[u] # r
    BY <1>2 DEF Plug, HandlesInv
  <2>2. \A u \in Units : d_device[u] \in Plugged' => d_device[u] \in Plugged
    BY <1>2, <2>1 DEF Plug, Plugged, TypeOK
  <2>3. \A u \in Units : d_device[u] \in Readers => usb'[d_device[u]] # "absent"
    BY <1>2 DEF Plug, HandlesInv, TypeOK
  <2> QED BY <1>2, <2>2, <2>3 DEF Plug, HandlesInv, OneHandlePerReader, unit
<1>3. ASSUME NEW r \in Readers, Unplug(r) PROVE HandlesInv'
  <2>1. \A u \in Units : d_device[u] \in Plugged' => d_device[u] \in Plugged /\ d_device[u] # r
    BY <1>3 DEF Unplug, Plugged, TypeOK
  <2>2. \A u \in Units : d_device[u] \in Readers => usb'[d_device[u]] # "absent"
    BY <1>3 DEF Unplug, HandlesInv, TypeOK
  <2> QED BY <1>3, <2>1, <2>2 DEF Unplug, HandlesInv, OneHandlePerReader, unit
<1>4. ASSUME NEW p \in Providers, DestroyProvider(p) PROVE HandlesInv'
  <2>1. PICK dead \in SUBSET d_readers[p] : DestroyUnits(dead)
    BY <1>4 DEF DestroyProvider
  <2>2. dead \in SUBSET Units
    BY DEF TypeOK
  <2> QED BY <1>4, <2>1, <2>2, DestroyingCloses, ClosingKeepsHandles DEF DestroyProvider
<1>5. ASSUME NEW u \in Units, ConnectToReader(u), ~Crash PROVE HandlesInv'
  <2>1. PICK r \in Openable(d_name[u]) :
            /\ d_device' = [d_device EXCEPT ![u] = r]
            /\ claimed' = claimed \cup ({r} \ {None})
            /\ UNCHANGED usb
    BY <1>5 DEF ConnectToReader
  <2>2. r = None \/ (r \in Plugged /\ r \notin claimed)
    BY OpenableOK
  <2>3. \A v \in Units \ {u} : d_device[v] \in Plugged => d_device[v] # r
    BY <2>2, ProviderAssumption DEF HandlesInv, Plugged, ProviderAssumption
  <2>4. /\ Plugged' = Plugged
        /\ d_device'[u] = r /\ \A v \in Units \ {u} : d_device'[v] = d_device[v]
    BY <2>1 DEF Plugged, TypeOK
  <2>5. None \notin Plugged /\ (r \in Readers => usb[r] # "absent")
    BY <2>2, ProviderAssumption DEF Plugged, ProviderAssumption
  <2>6. OneHandlePerReader'
    BY <2>3, <2>4 DEF HandlesInv, OneHandlePerReader
  <2>7. \A v \in Units : d_device'[v] \in Plugged' => d_device'[v] \in claimed'
    BY <2>1, <2>4, <2>5 DEF HandlesInv
  <2>8. \A v \in Units : d_device'[v] \in Readers => usb'[d_device'[v]] # "absent"
    BY <2>1, <2>4, <2>5 DEF HandlesInv
  <2> QED BY <2>6, <2>7, <2>8 DEF HandlesInv
<1>6. ASSUME NEW u \in Units, DisconnectFromReader(u) PROVE HandlesInv'
  <2>1. /\ claimed' = claimed \ {d_device[v] : v \in {u}}
        /\ d_device' = [v \in Units |-> IF v \in {u} THEN None ELSE d_device[v]]
        /\ UNCHANGED usb
    BY <1>6 DEF DisconnectFromReader, TypeOK
  <2> QED BY <2>1, ClosingKeepsHandles
<1>7. ASSUME NEW u \in Units, DropUnit(u) PROVE HandlesInv'
  BY <1>7, DestroyingCloses, ClosingKeepsHandles DEF DropUnit
<1>8. ASSUME NEW p \in Providers,
             NewProvider(p) \/ RefreshReaderList(p) \/ CreateReaderUnit(p) \/ Release(p)
      PROVE  UNCHANGED <<usb, claimed, d_device>>
  BY <1>8 DEF NewProvider, RefreshReaderList, Refreshed, CreateReaderUnit, Release, Crash, unit
<1>9. Crash => UNCHANGED <<usb, claimed, d_device>>
  BY DEF Crash, unit
<1>10. ASSUME NEW u \in Units, FetchRealName(u) PROVE UNCHANGED <<usb, claimed, d_device>>
  BY <1>10 DEF FetchRealName
<1>11. UNCHANGED vars => UNCHANGED <<usb, claimed, d_device>>
  BY DEF vars, unit
<1>12. ASSUME NEW u \in Units, NEW name, UnSerialize(u, name)
       PROVE  UNCHANGED <<usb, claimed, d_device>>
  BY <1>12 DEF UnSerialize
<1> QED BY <1>1, <1>2, <1>3, <1>4, <1>5, <1>6, <1>7, <1>8, <1>9, <1>10, <1>11, <1>12
        DEF Next, Environment, ProviderCall, UnitCall

\* Two units never talk to one reader, even across providers.
THEOREM OneHandleEach == Spec => []OneHandlePerReader
<1>1. HandlesInv => OneHandlePerReader
  BY DEF HandlesInv
<1> QED BY <1>1, InitHandles, StepHandles, TypeCorrect, PTL DEF Spec

----------------------------------------------------------------------------
(***************************************************************************)
(* Claims.  Only connectToReader() overwrites a handle.                    *)
(***************************************************************************)
LEMMA ClosingKeepsOwners ==
    ASSUME TypeOK, ClaimsHaveOwners, NEW closed \in SUBSET Units, UNCHANGED lost,
           claimed' = claimed \ {d_device[u] : u \in closed},
           d_device' = [u \in Units |-> IF u \in closed THEN None ELSE d_device[u]]
    PROVE  ClaimsHaveOwners'
BY DEF ClaimsHaveOwners

LEMMA StepOwners == TypeOK /\ ClaimsHaveOwners /\ [Next]_vars => ClaimsHaveOwners'
<1> SUFFICES ASSUME TypeOK, ClaimsHaveOwners, [Next]_vars PROVE ClaimsHaveOwners'
  OBVIOUS
<1>1. CASE UNCHANGED <<claimed, d_device, lost>>
  BY <1>1 DEF ClaimsHaveOwners
<1>2. ASSUME NEW r \in Readers, Plug(r) \/ Unplug(r) PROVE ClaimsHaveOwners'
  BY <1>2 DEF Plug, Unplug, ClaimsHaveOwners, unit
<1>3. ASSUME NEW p \in Providers, DestroyProvider(p) PROVE ClaimsHaveOwners'
  <2>1. PICK dead \in SUBSET d_readers[p] : DestroyUnits(dead)
    BY <1>3 DEF DestroyProvider
  <2>2. dead \in SUBSET Units
    BY DEF TypeOK
  <2> QED BY <2>1, <2>2, DestroyingCloses, ClosingKeepsOwners
<1>4. ASSUME NEW u \in Units, ConnectToReader(u), ~Crash PROVE ClaimsHaveOwners'
  <2>1. PICK r : /\ d_device' = [d_device EXCEPT ![u] = r]
                 /\ claimed' = claimed \cup ({r} \ {None})
                 /\ lost' = lost \cup ({d_device[u]} \ {None})
    BY <1>4 DEF ConnectToReader
  <2>2. None \notin claimed
    BY ProviderAssumption DEF TypeOK, ProviderAssumption
  <2>3. d_device'[u] = r /\ \A v \in Units \ {u} : d_device'[v] = d_device[v]
    BY <2>1 DEF TypeOK
  <2> QED BY <2>1, <2>2, <2>3 DEF ClaimsHaveOwners
<1>5. ASSUME NEW u \in Units, DisconnectFromReader(u) PROVE ClaimsHaveOwners'
  <2>1. /\ claimed' = claimed \ {d_device[v] : v \in {u}}
        /\ d_device' = [v \in Units |-> IF v \in {u} THEN None ELSE d_device[v]]
        /\ UNCHANGED lost
    BY <1>5 DEF DisconnectFromReader, TypeOK
  <2> QED BY <2>1, ClosingKeepsOwners
<1>6. ASSUME NEW u \in Units, DropUnit(u) PROVE ClaimsHaveOwners'
  BY <1>6, DestroyingCloses, ClosingKeepsOwners DEF DropUnit
<1>7. ASSUME NEW p \in Providers,
             NewProvider(p) \/ RefreshReaderList(p) \/ CreateReaderUnit(p) \/ Release(p)
      PROVE  UNCHANGED <<claimed, d_device, lost>>
  BY <1>7 DEF NewProvider, RefreshReaderList, Refreshed, CreateReaderUnit, AddUnits, Release,
              Crash, unit
<1>8. Crash => UNCHANGED <<claimed, d_device, lost>>
  BY DEF Crash, unit
<1>9. ASSUME NEW u \in Units, FetchRealName(u) PROVE UNCHANGED <<claimed, d_device, lost>>
  BY <1>9 DEF FetchRealName
<1>10. UNCHANGED vars => UNCHANGED <<claimed, d_device, lost>>
  BY DEF vars, unit
<1>11. ASSUME NEW u \in Units, NEW name, UnSerialize(u, name)
       PROVE  UNCHANGED <<claimed, d_device, lost>>
  BY <1>11 DEF UnSerialize
<1> QED BY <1>1, <1>2, <1>3, <1>4, <1>5, <1>6, <1>7, <1>8, <1>9, <1>10, <1>11
        DEF Next, Environment, ProviderCall, UnitCall

\* No reader stays claimed by a handle that nobody can close, unless
\* connectToReader() of a connected unit has overwritten that handle.
THEOREM NoHandleIsLost == Spec => []ClaimsHaveOwners
<1>1. Init => ClaimsHaveOwners
  BY DEF Init, ClaimsHaveOwners
<1> QED BY <1>1, StepOwners, TypeCorrect, PTL DEF Spec

----------------------------------------------------------------------------
(***************************************************************************)
(* Names.  The units of a list exist and are those of its provider.        *)
(***************************************************************************)
ListsInv ==
    /\ NamesAreUnique
    /\ \A p \in Providers : \A u \in d_readers[p] : provider[u] = p

\* Units that join a list keep its names unique if their names are new, and
\* different unless they have none.
LEMMA AddUnitsNames ==
    ASSUME TypeOK, ListsInv, NEW p \in Providers, NEW added \in SUBSET (Units \ Existing),
           NEW names \in [added -> Readers \cup {Default}], NEW connectedNames,
           \A u, v \in added : names[u] = names[v] /\ names[u] # Default => u = v,
           \A u \in added : names[u] # Default => \A v \in d_readers[p] : d_name[v] # names[u],
           AddUnits(p, names, connectedNames)
    PROVE  ListsInv'
<1>1. added \in SUBSET Units /\ \A q \in Providers : d_readers[q] \cap added = {}
  BY ProviderAssumption DEF ListsInv, Existing, TypeOK, ProviderAssumption
<1>2. /\ \A u \in added : d_name'[u] = names[u] /\ provider'[u] = p
      /\ \A u \in Units \ added : d_name'[u] = d_name[u] /\ provider'[u] = provider[u]
  BY <1>1 DEF AddUnits, Updated, TypeOK
<1>3. /\ d_readers'[p] = d_readers[p] \cup added
      /\ \A q \in Providers \ {p} : d_readers'[q] = d_readers[q]
      /\ \A q \in Providers : d_readers[q] \subseteq Units \ added
  BY <1>1 DEF AddUnits, TypeOK
<1>4. \A q \in Providers : \A u \in d_readers'[q] : provider'[u] = q
  BY <1>2, <1>3 DEF ListsInv
<1>5. ASSUME NEW q \in Providers,
             NEW u \in d_readers'[q] \ renamed', NEW v \in d_readers'[q] \ renamed',
             d_name'[u] = d_name'[v], d_name'[u] # Default
      PROVE  u = v
  <2>1. CASE u \in d_readers[q] /\ v \in d_readers[q]
    BY <1>2, <1>3, <1>5, <2>1 DEF ListsInv, NamesAreUnique, AddUnits
  <2>2. CASE u \in added /\ v \in added
    BY <1>2, <1>5, <2>2
  <2>3. CASE q = p /\ (u \in added <=> v \notin added)
    BY <1>2, <1>3, <1>5, <2>3
  <2> QED BY <1>3, <2>1, <2>2, <2>3
<1> QED BY <1>4, <1>5 DEF ListsInv, NamesAreUnique

LEMMA RefreshedNames ==
    ASSUME TypeOK, ListsInv, NEW p \in Providers, NEW loaded \in BOOLEAN, Refreshed(p, loaded)
    PROVE  ListsInv'
<1>1. PICK found \in Scans(loaded), added \in SUBSET (Units \ Existing) :
          \E names \in Bijection(added, NewNames(p, found)) : AddUnits(p, names, names)
  BY DEF Refreshed
<1>2. PICK names \in Bijection(added, NewNames(p, found)) : AddUnits(p, names, names)
  BY <1>1
<1>3. NewNames(p, found) \subseteq Readers
  BY DEF NewNames, Scans, Plugged
<1>4. /\ names \in [added -> NewNames(p, found)]
      /\ \A u, v \in added : names[u] = names[v] => u = v
  BY DEF Bijection, Injection, Surjection, IsInjective
<1>5. /\ names \in [added -> Readers \cup {Default}]
      /\ \A u \in added : \A v \in d_readers[p] : d_name[v] # names[u]
  BY <1>3, <1>4 DEF NewNames
<1> QED BY <1>2, <1>4, <1>5, AddUnitsNames

LEMMA StepNames == TypeOK /\ ListsInv /\ [Next]_vars => ListsInv'
<1> SUFFICES ASSUME TypeOK, ListsInv, [Next]_vars PROVE ListsInv'
  OBVIOUS
<1>1. CASE UNCHANGED <<d_readers, d_name, provider, renamed>>
  BY <1>1 DEF ListsInv, NamesAreUnique
<1>2. ASSUME NEW p \in Providers, NewProvider(p) PROVE ListsInv'
  BY <1>2, RefreshedNames DEF NewProvider
<1>3. ASSUME NEW p \in Providers, RefreshReaderList(p), ~Crash PROVE ListsInv'
  BY <1>3, RefreshedNames DEF RefreshReaderList, TypeOK
<1>4. ASSUME NEW p \in Providers, CreateReaderUnit(p), ~Crash PROVE ListsInv'
  <2>1. PICK u \in Units \ Existing, r \in Openable(Default) :
            AddUnits(p, [new \in {u} |-> Default], [new \in {u} |-> r])
    BY <1>4 DEF CreateReaderUnit
  <2> DEFINE names == [new \in {u} |-> Default]
  <2>2. /\ {u} \in SUBSET (Units \ Existing)
        /\ names \in [{u} -> Readers \cup {Default}]
        /\ \A v \in {u} : names[v] = Default
    OBVIOUS
  <2>3. AddUnits(p, names, [new \in {u} |-> r])
    BY <2>1
  <2> HIDE DEF names
  <2> QED BY <2>2, <2>3, AddUnitsNames
<1>5. ASSUME NEW p \in Providers, DestroyProvider(p) PROVE ListsInv'
  <2>1. PICK dead \in SUBSET d_readers[p] : DestroyUnits(dead)
    BY <1>5 DEF DestroyProvider
  <2>2. d_readers'[p] = {} /\ \A q \in Providers \ {p} : d_readers'[q] = d_readers[q]
    BY <1>5 DEF DestroyProvider, TypeOK
  <2>3. \A q \in Providers \ {p} : \A u \in d_readers[q] : u \in Units /\ u \notin dead
    BY DEF ListsInv, TypeOK
  <2>4. /\ \A u \in Units : u \notin dead => d_name'[u] = d_name[u] /\ provider'[u] = provider[u]
        /\ renamed' = renamed \ dead
    BY <2>1 DEF DestroyUnits, Updated, TypeOK
  <2> QED BY <2>2, <2>3, <2>4 DEF ListsInv, NamesAreUnique
<1>6. ASSUME NEW u \in Units, DropUnit(u) PROVE ListsInv'
  <2>1. UNCHANGED d_readers /\ \A q \in Providers : u \notin d_readers[q]
    BY <1>6 DEF DropUnit
  <2>2. /\ \A v \in Units \ {u} : d_name'[v] = d_name[v] /\ provider'[v] = provider[v]
        /\ renamed' = renamed \ {u}
    BY <1>6 DEF DropUnit, DestroyUnits, Updated, TypeOK
  <2>3. \A q \in Providers : d_readers[q] \subseteq Units \ {u}
    BY <2>1 DEF TypeOK
  <2> QED BY <2>1, <2>2, <2>3 DEF ListsInv, NamesAreUnique
<1>7. ASSUME NEW u \in Units, ConnectToReader(u) \/ DisconnectFromReader(u) \/ FetchRealName(u)
      PROVE  UNCHANGED <<d_readers, d_name, provider, renamed>>
  BY <1>7 DEF ConnectToReader, DisconnectFromReader, FetchRealName, Crash, unit
<1>8. ASSUME NEW p \in Providers, Release(p) PROVE UNCHANGED <<d_readers, d_name, provider, renamed>>
  BY <1>8 DEF Release, unit
<1>9. ASSUME NEW r \in Readers, Plug(r) \/ Unplug(r)
      PROVE  UNCHANGED <<d_readers, d_name, provider, renamed>>
  BY <1>9 DEF Plug, Unplug, unit
<1>10. Crash \/ UNCHANGED vars => UNCHANGED <<d_readers, d_name, provider, renamed>>
  BY DEF Crash, vars, unit
<1>11. ASSUME NEW u \in Units, NEW name, UnSerialize(u, name) PROVE ListsInv'
  <2>1. /\ UNCHANGED <<d_readers, provider>> /\ renamed' = renamed \cup {u}
        /\ \A v \in Units \ {u} : d_name'[v] = d_name[v]
    BY <1>11 DEF UnSerialize, TypeOK
  <2>2. \A q \in Providers : d_readers[q] \subseteq Units
    BY DEF TypeOK
  <2> QED BY <2>1, <2>2 DEF ListsInv, NamesAreUnique
<1> QED BY <1>1, <1>2, <1>3, <1>4, <1>5, <1>6, <1>7, <1>8, <1>9, <1>10, <1>11
        DEF Next, Environment, ProviderCall, UnitCall

\* However often the list is refreshed, it has one unit of each name, apart from
\* those that took their name from a configuration.
THEOREM ListedOnce == Spec => []NamesAreUnique
<1>1. Init => ListsInv
  BY DEF Init, ListsInv, NamesAreUnique
<1>2. ListsInv => NamesAreUnique
  BY DEF ListsInv
<1> QED BY <1>1, <1>2, StepNames, TypeCorrect, PTL DEF Spec

----------------------------------------------------------------------------
(***************************************************************************)
(* The drivers.  Without them a scan finds nothing; with one provider at a *)
(* time they are loaded while it has a context.                            *)
(***************************************************************************)
\* A refresh with the drivers loaded gives every reader it finds a unit.
LEMMA RefreshedListsAll ==
    ASSUME TypeOK, NEW p \in Providers, Refreshed(p, TRUE)
    PROVE  RefreshListsAll'
<1>1. PICK found \in Scans(TRUE), added \in SUBSET (Units \ Existing) :
          /\ \E names \in Bijection(added, NewNames(p, found)) : AddUnits(p, names, names)
          /\ answer' = <<"refreshReaderList", p, TRUE, Plugged \ found>>
  BY DEF Refreshed
<1>2. PICK names \in Bijection(added, NewNames(p, found)) : AddUnits(p, names, names)
  BY <1>1
<1>3. Plugged' = Plugged
  BY DEF Refreshed, Plugged
<1>4. /\ DOMAIN names = added
      /\ \A r \in NewNames(p, found) : \E u \in added : names[u] = r
  BY DEF Bijection, Injection, Surjection
<1>5. d_readers'[p] = d_readers[p] \cup added
  BY <1>2, <1>4 DEF AddUnits, TypeOK
<1>6. \A u \in Units : d_name'[u] = IF u \in added THEN names[u] ELSE d_name[u]
  BY <1>2, <1>4 DEF AddUnits, Updated, TypeOK
<1>7. ASSUME NEW r \in Plugged, r \in found PROVE \E u \in d_readers'[p] : d_name'[u] = r
  <2>1. CASE r \in NewNames(p, found)
    BY <1>4, <1>5, <1>6, <2>1
  <2>2. CASE r \notin NewNames(p, found)
    <3>1. PICK u \in d_readers[p] : d_name[u] = r
      BY <1>7, <2>2 DEF NewNames
    <3>2. u \in Units /\ u \notin added
      BY <3>1, ProviderAssumption DEF Plugged, Existing, TypeOK, ProviderAssumption
    <3> QED BY <1>5, <1>6, <3>1, <3>2
  <2> QED BY <2>1, <2>2
<1>8. \A q, skipped : answer' = <<"refreshReaderList", q, TRUE, skipped>>
          => q = p /\ skipped = Plugged \ found
  BY <1>1
<1> QED BY <1>3, <1>7, <1>8 DEF RefreshListsAll

\* A list that has been answered is that of a provider with a context.
AnswersInv ==
    \A p \in Providers, skipped \in SUBSET Readers :
        answer = <<"refreshReaderList", p, TRUE, skipped>> => d_context[p] = "open"

LEMMA StepListsAll ==
    TypeOK /\ ListsAllWhileDriven /\ AnswersInv /\ [Next]_vars
        => (ListsAllWhileDriven /\ AnswersInv)'
<1> SUFFICES ASSUME TypeOK, ListsAllWhileDriven, AnswersInv, [Next]_vars
             PROVE  ListsAllWhileDriven' /\ AnswersInv'
  OBVIOUS
<1>1. CASE \A p \in Providers, skipped \in SUBSET Readers :
              answer' # <<"refreshReaderList", p, TRUE, skipped>>
  BY <1>1 DEF ListsAllWhileDriven, RefreshListsAll, AnswersInv
<1>2. CASE UNCHANGED vars
  <2>1. /\ UNCHANGED <<answer, drivers, d_context, d_readers, d_name>>
        /\ Plugged' = Plugged
    BY <1>2 DEF Plugged, vars, unit
  <2>2. RefreshListsAll => RefreshListsAll'
    BY <2>1 DEF RefreshListsAll
  <2>3. ListsAllWhileDriven'
    BY <2>1, <2>2 DEF ListsAllWhileDriven
  <2>4. AnswersInv'
    BY <2>1 DEF AnswersInv
  <2> QED BY <2>3, <2>4
<1>3. ASSUME NEW p \in Providers, NewProvider(p) PROVE ListsAllWhileDriven' /\ AnswersInv'
  <2>1. RefreshListsAll'
    BY <1>3, RefreshedListsAll DEF NewProvider
  <2>2. d_context'[p] = "open"
    BY <1>3 DEF NewProvider, TypeOK
  <2> QED BY <1>3, <2>1, <2>2 DEF NewProvider, Refreshed, ListsAllWhileDriven, AnswersInv
<1>4. ASSUME NEW p \in Providers, RefreshReaderList(p), ~Crash
      PROVE  ListsAllWhileDriven' /\ AnswersInv'
  <2>1. d_context'[p] = "open" /\ Refreshed(p, drivers) /\ drivers' = drivers
    BY <1>4 DEF RefreshReaderList
  <2>2. CASE ~drivers
    BY <2>1, <2>2 DEF Refreshed, ListsAllWhileDriven, AnswersInv
  <2>3. CASE drivers = TRUE
    <3>1. RefreshListsAll'
      BY <2>1, <2>3, RefreshedListsAll
    <3> QED BY <2>1, <3>1 DEF Refreshed, ListsAllWhileDriven, AnswersInv
  <2> QED BY <2>2, <2>3 DEF TypeOK
<1>5. ASSUME NEW p \in Providers, CreateReaderUnit(p) \/ Release(p) \/ DestroyProvider(p) \/ Crash
      PROVE  answer' = None
  BY <1>5 DEF CreateReaderUnit, Release, DestroyProvider, Crash
<1>6. Environment => answer' = None
  BY DEF Environment, Plug, Unplug
<1>7. UnitCall => answer' = None \/ \E u \in Units, b \in BOOLEAN : answer' = <<"connectToReader", u, b>>
  BY DEF UnitCall, ConnectToReader, DisconnectFromReader, FetchRealName, DropUnit, UnSerialize,
         Crash
<1>8. /\ \A p \in Providers, skipped \in SUBSET Readers :
            None # <<"refreshReaderList", p, TRUE, skipped>>
      /\ \A u \in Units, b \in BOOLEAN, p \in Providers, skipped \in SUBSET Readers :
            <<"connectToReader", u, b>> # <<"refreshReaderList", p, TRUE, skipped>>
  <2>1. \A p \in Providers, skipped \in SUBSET Readers :
            None # <<"refreshReaderList", p, TRUE, skipped>>
    BY ProviderAssumption DEF ProviderAssumption
  <2>2. \A u \in Units, b \in BOOLEAN, p \in Providers, skipped \in SUBSET Readers :
            <<"connectToReader", u, b>> # <<"refreshReaderList", p, TRUE, skipped>>
    OBVIOUS
  <2> QED BY <2>1, <2>2
<1> QED BY <1>1, <1>2, <1>3, <1>4, <1>5, <1>6, <1>7, <1>8 DEF Next, ProviderCall

\* Whatever the caller does, with any number of providers: while libnfc has its
\* drivers, a refresh lists every reader but those its scan passed over.
THEOREM DrivenListsAll == Spec => []ListsAllWhileDriven
<1>1. Init => ListsAllWhileDriven /\ AnswersInv
  BY ProviderAssumption DEF Init, ListsAllWhileDriven, AnswersInv, ProviderAssumption
<1>2. ListsAllWhileDriven /\ AnswersInv /\ TypeOK /\ [Next]_vars
        => (ListsAllWhileDriven /\ AnswersInv)'
  BY StepListsAll
<1> QED BY <1>1, <1>2, TypeCorrect, PTL DEF Spec

DriversInv ==
    /\ IsFiniteSet(Alive)
    /\ \A p, q \in Alive : p = q
    /\ \A p \in Providers : d_context[p] = "open" => drivers

LEMMA StepDrivers ==
    ASSUME MaxAlive = 1
    PROVE  TypeOK /\ DriversInv /\ [Next]_vars => DriversInv'
<1> SUFFICES ASSUME TypeOK, DriversInv, [Next]_vars PROVE DriversInv'
  OBVIOUS
<1>1. CASE UNCHANGED <<drivers, d_context>>
  BY <1>1 DEF DriversInv, Alive
<1>2. ASSUME NEW p \in Providers, NewProvider(p) PROVE DriversInv'
  <2>1. Alive = {}
    BY <1>2, FS_EmptySet, FS_CardinalityType DEF NewProvider, DriversInv
  <2>2. Alive' = {p}
    BY <1>2, <2>1 DEF NewProvider, Alive, TypeOK
  <2> QED BY <1>2, <2>2, FS_Singleton DEF NewProvider, DriversInv
<1>3. ASSUME NEW p \in Providers, Release(p) PROVE DriversInv'
  <2>1. Alive' = Alive
    BY <1>3 DEF Release, Alive, TypeOK
  <2>2. \A q \in Providers \ {p} : d_context[q] # "open" /\ d_context'[q] = d_context[q]
    BY <1>3 DEF Release, DriversInv, Alive, TypeOK
  <2>3. d_context'[p] = "null"
    BY <1>3 DEF Release, TypeOK
  <2> QED BY <2>1, <2>2, <2>3 DEF DriversInv
<1>4. ASSUME NEW p \in Providers, DestroyProvider(p) PROVE DriversInv'
  <2>1. Alive' = Alive \ {p}
    BY <1>4 DEF DestroyProvider, Alive, TypeOK
  <2>2. \A q \in Providers \ {p} : d_context[q] # "open" /\ d_context'[q] = d_context[q]
    BY <1>4 DEF DestroyProvider, DriversInv, Alive, TypeOK
  <2>3. d_context'[p] = "destroyed"
    BY <1>4 DEF DestroyProvider, TypeOK
  <2>4. IsFiniteSet(Alive')
    BY <2>1, FS_Subset DEF DriversInv
  <2> QED BY <2>1, <2>2, <2>3, <2>4 DEF DriversInv
<1>5. ASSUME NEW p \in Providers, RefreshReaderList(p) \/ CreateReaderUnit(p)
      PROVE  UNCHANGED <<drivers, d_context>>
  BY <1>5 DEF RefreshReaderList, CreateReaderUnit, Crash
<1>6. UnitCall => UNCHANGED <<drivers, d_context>>
  BY DEF UnitCall, ConnectToReader, DisconnectFromReader, FetchRealName, DropUnit, UnSerialize,
         Crash
<1>7. Environment \/ UNCHANGED vars => UNCHANGED <<drivers, d_context>>
  BY DEF Environment, Plug, Unplug, vars
<1> QED BY <1>1, <1>2, <1>3, <1>4, <1>5, <1>6, <1>7 DEF Next, ProviderCall

\* While there is one provider at a time, its refresh lists every reader but those
\* its scan passed over: the drivers are there, whatever was released before, and
\* a unit that took another name does not keep a reader off the list.
THEOREM RefreshesListAll ==
    ASSUME MaxAlive = 1
    PROVE  Spec => []RefreshListsAll
<1>1. Init => DriversInv /\ ListsAllWhileDriven /\ AnswersInv
  <2> SUFFICES ASSUME Init PROVE DriversInv /\ ListsAllWhileDriven /\ AnswersInv
    OBVIOUS
  <2>1. \A p \in Providers : d_context[p] = "unborn" /\ answer = None
    BY DEF Init
  <2>2. Alive = {}
    BY <2>1 DEF Alive
  <2>3. DriversInv
    BY <2>1, <2>2, FS_EmptySet DEF DriversInv
  <2>4. ListsAllWhileDriven /\ AnswersInv
    BY <2>1, ProviderAssumption DEF Init, ListsAllWhileDriven, AnswersInv, ProviderAssumption
  <2> QED BY <2>3, <2>4
<1>2. DriversInv /\ ListsAllWhileDriven /\ AnswersInv => RefreshListsAll
  BY DEF DriversInv, ListsAllWhileDriven, AnswersInv, RefreshListsAll
<1> QED BY <1>1, <1>2, StepDrivers, StepListsAll, TypeCorrect, PTL DEF Spec

----------------------------------------------------------------------------
(***************************************************************************)
(* The lease: every step either lends a reader or refuses one, ends        *)
(* leases, moves a reader or does something else.                          *)
(***************************************************************************)
ClaimsInv == claimed \subseteq Plugged

LEMMA StepClaims == TypeOK /\ ClaimsInv /\ [Next]_vars => ClaimsInv'
<1> SUFFICES ASSUME TypeOK, ClaimsInv, [Next]_vars PROVE ClaimsInv'
  OBVIOUS
<1>1. CASE UNCHANGED usb /\ claimed' \subseteq claimed
  BY <1>1 DEF ClaimsInv, Plugged
<1>2. ASSUME NEW r \in Readers, Plug(r) \/ Unplug(r) PROVE ClaimsInv'
  BY <1>2 DEF Plug, Unplug, ClaimsInv, Plugged, TypeOK
<1>3. ASSUME NEW p \in Providers,
             NewProvider(p) \/ RefreshReaderList(p) \/ CreateReaderUnit(p) \/ Release(p)
                            \/ DestroyProvider(p)
      PROVE  UNCHANGED usb /\ claimed' \subseteq claimed
  BY <1>3 DEF NewProvider, RefreshReaderList, Refreshed, CreateReaderUnit, Release, DestroyProvider,
              DestroyUnits, Crash
<1>4. ASSUME NEW u \in Units, ConnectToReader(u), ~Crash PROVE ClaimsInv'
  <2>1. PICK r \in Openable(d_name[u]) : claimed' = claimed \cup ({r} \ {None}) /\ UNCHANGED usb
    BY <1>4 DEF ConnectToReader
  <2> QED BY <2>1, OpenableOK DEF ClaimsInv, Plugged
<1>5. ASSUME NEW u \in Units, NEW name,
             \/ DisconnectFromReader(u) \/ FetchRealName(u) \/ DropUnit(u) \/ UnSerialize(u, name)
      PROVE  UNCHANGED usb /\ claimed' \subseteq claimed
  BY <1>5 DEF DisconnectFromReader, FetchRealName, DropUnit, DestroyUnits, UnSerialize
<1>6. Crash \/ UNCHANGED vars => UNCHANGED usb /\ claimed' \subseteq claimed
  BY DEF Crash, vars
<1> QED BY <1>1, <1>2, <1>3, <1>4, <1>5, <1>6 DEF Next, Environment, ProviderCall, UnitCall

\* What a call tells its caller, as the lease sees it.
LEMMA ToldNothing ==
    ASSUME \/ answer' = None
           \/ \E p, skipped : answer' = <<"refreshReaderList", p, TRUE, skipped>>
    PROVE  Told' = None
<1>1. None \notin {"connectToReader"} \X Units \X BOOLEAN
  BY ProviderAssumption DEF ProviderAssumption
<1>2. \A p, skipped : <<"refreshReaderList", p, TRUE, skipped>>
                         \notin {"connectToReader"} \X Units \X BOOLEAN
  OBVIOUS
<1> QED BY <1>1, <1>2 DEF Told

LEMMA ToldAnswer ==
    ASSUME NEW u \in Units, NEW granted \in BOOLEAN,
           answer' = <<"connectToReader", u, granted>>
    PROVE  Told' = <<u, granted>>
BY DEF Told

\* Closing handles gives back the readers that were borrowed with them, and
\* nobody else's.
LEMMA ClosingGivesBack ==
    ASSUME TypeOK, HandlesInv, ClaimsInv, NEW closed \in SUBSET Units, UNCHANGED usb,
           claimed' = claimed \ {d_device[u] : u \in closed},
           d_device' = [u \in Units |-> IF u \in closed THEN None ELSE d_device[u]],
           Told' = None
    PROVE  Lease!Next
<1> DEFINE givers == {u \in closed : d_device[u] \in claimed}
<1>1. /\ givers \in SUBSET Units
      /\ \A u \in Units : Borrowed[u] = IF d_device[u] \in claimed THEN d_device[u] ELSE None
      /\ \A u \in Units : Borrowed'[u] = IF d_device'[u] \in claimed' THEN d_device'[u] ELSE None
  BY DEF Borrowed
<1>2. None \notin claimed
  BY ProviderAssumption DEF TypeOK, ProviderAssumption
<1>3. givers \in SUBSET Lease!Borrowers
  BY <1>1, <1>2 DEF Lease!Borrowers
<1>4. claimed' = claimed \ {Borrowed[u] : u \in givers}
  BY <1>1
<1>5. \A u \in Units \ closed, v \in closed : d_device[u] \in claimed => d_device[u] # d_device[v]
  BY DEF HandlesInv, OneHandlePerReader, ClaimsInv
<1>6. \A u \in Units : Borrowed'[u] = IF u \in givers THEN None ELSE Borrowed[u]
  <2> TAKE u \in Units
  <2>1. CASE u \in closed
    BY <1>1, <1>2, <2>1
  <2>2. CASE u \notin closed
    BY <1>1, <1>5, <2>2
  <2> QED BY <2>1, <2>2
<1>7. Borrowed' = Lease!LeasesWithout(givers)
  BY <1>6 DEF Borrowed, Lease!LeasesWithout
<1>8. Plugged' = Plugged
  BY DEF Plugged
<1> HIDE DEF givers
<1>9. Lease!GiveBack(givers)
  BY <1>4, <1>7, <1>8 DEF Lease!GiveBack
<1> QED BY <1>3, <1>9 DEF Lease!Next

LEMMA StepLends ==
    TypeOK /\ HandlesInv /\ ClaimsInv /\ [Next]_vars => [Lease!Next]_(Lease!vars)
<1> SUFFICES ASSUME TypeOK, HandlesInv, ClaimsInv, [Next]_vars
             PROVE  Lease!Next \/ UNCHANGED Lease!vars
  OBVIOUS
<1>1. ASSUME UNCHANGED <<usb, claimed, d_device>>, Told' = None PROVE Lease!Next
  <2>1. /\ claimed' = claimed \ {d_device[u] : u \in {}}
        /\ d_device' = [u \in Units |-> IF u \in {} THEN None ELSE d_device[u]]
    BY <1>1 DEF TypeOK
  <2> QED BY <1>1, <2>1, ClosingGivesBack
<1>2. ASSUME NEW r \in Readers, Plug(r) PROVE Lease!Next
  <2>1. r \notin Plugged /\ Plugged' = Plugged \cup {r} /\ UNCHANGED <<claimed, d_device>>
    BY <1>2 DEF Plug, Plugged, TypeOK, unit
  <2>2. UNCHANGED Borrowed /\ Told' = None
    BY <1>2, <2>1, ToldNothing DEF Borrowed, Plug
  <2> QED BY <2>1, <2>2 DEF Lease!Arrive, Lease!Next
<1>3. ASSUME NEW r \in Readers, Unplug(r) PROVE Lease!Next
  <2>1. /\ r \in Plugged /\ Plugged' = Plugged \ {r}
        /\ claimed' = claimed \ {r} /\ UNCHANGED d_device
    BY <1>3 DEF Unplug, Plugged, TypeOK, unit
  <2>2. r # None
    BY ProviderAssumption DEF ProviderAssumption
  <2>3. Borrowed' = Lease!LeasesWithout({u \in Units : Borrowed[u] = r})
    BY <2>1, <2>2 DEF Borrowed, Lease!LeasesWithout
  <2>4. Told' = None
    BY <1>3, ToldNothing DEF Unplug
  <2>5. Lease!Leave(r)
    BY <2>1, <2>3, <2>4 DEF Lease!Leave
  <2> QED BY <2>5 DEF Lease!Next
<1>4. ASSUME NEW p \in Providers, DestroyProvider(p) PROVE Lease!Next
  <2>1. PICK dead \in SUBSET d_readers[p] : DestroyUnits(dead)
    BY <1>4 DEF DestroyProvider
  <2>2. dead \in SUBSET Units
    BY DEF TypeOK
  <2>3. Told' = None
    BY <1>4, ToldNothing DEF DestroyProvider
  <2> QED BY <1>4, <2>1, <2>2, <2>3, DestroyingCloses, ClosingGivesBack DEF DestroyProvider
<1>5. ASSUME NEW u \in Units, ConnectToReader(u), ~Crash PROVE Lease!Next
  <2>1. PICK r \in Openable(d_name[u]) :
            /\ d_device' = [d_device EXCEPT ![u] = r]
            /\ claimed' = claimed \cup ({r} \ {None})
            /\ answer' = <<"connectToReader", u, r # None>>
            /\ UNCHANGED usb
    BY <1>5 DEF ConnectToReader
  <2>2. None \notin claimed
    BY ProviderAssumption DEF TypeOK, ProviderAssumption
  <2>3. CASE r = None
    <3>1. claimed' = claimed /\ Plugged' = Plugged
      BY <2>1, <2>3 DEF Plugged
    <3>2. d_device'[u] = None /\ \A v \in Units \ {u} : d_device'[v] = d_device[v]
      BY <2>1, <2>3 DEF TypeOK
    <3>3. Borrowed' = Lease!LeasesWithout({u})
      BY <2>2, <3>1, <3>2 DEF Borrowed, Lease!LeasesWithout
    <3>4. Told' = <<u, FALSE>>
      <4>1. (r # None) = FALSE
        BY <2>3
      <4>2. answer' = <<"connectToReader", u, FALSE>>
        BY <2>1, <4>1, Zenon
      <4> QED BY <4>2, ToldAnswer
    <3>5. Lease!Refuse(u)
      BY <3>1, <3>3, <3>4 DEF Lease!Refuse
    <3> QED BY <3>5 DEF Lease!Next
  <2>4. CASE r # None
    <3>1. r \in Plugged \ claimed /\ r \in Readers
      BY <2>4, OpenableOK DEF Plugged
    <3>2. claimed' = claimed \cup {r} /\ Plugged' = Plugged
      BY <2>1, <2>4 DEF Plugged
    <3>3. \A v \in Units \ {u} : d_device[v] # r
      BY <3>1 DEF HandlesInv
    <3>4. Told' = <<u, TRUE>>
      <4>1. (r # None) = TRUE
        BY <2>4
      <4>2. answer' = <<"connectToReader", u, TRUE>>
        BY <2>1, <4>1, Zenon
      <4> QED BY <4>2, ToldAnswer
    <3>5. d_device'[u] = r /\ \A v \in Units \ {u} : d_device'[v] = d_device[v]
      BY <2>1 DEF TypeOK
    <3>6. Borrowed' = [Borrowed EXCEPT ![u] = r]
      <4>1. Borrowed' = [v \in Units |-> IF d_device'[v] \in claimed' THEN d_device'[v] ELSE None]
        BY DEF Borrowed
      <4>2. \A v \in Units :
                (IF d_device'[v] \in claimed' THEN d_device'[v] ELSE None)
                    = IF v = u THEN r ELSE Borrowed[v]
        BY <3>2, <3>3, <3>5 DEF Borrowed
      <4>3. [Borrowed EXCEPT ![u] = r] = [v \in Units |-> IF v = u THEN r ELSE Borrowed[v]]
        BY DEF Borrowed
      <4> QED BY <4>1, <4>2, <4>3
    <3>7. Lease!Borrow(u, r)
      BY <3>1, <3>2, <3>4, <3>6 DEF Lease!Borrow
    <3> QED BY <3>1, <3>7 DEF Lease!Next
  <2> QED BY <2>3, <2>4
<1>6. ASSUME NEW u \in Units, DisconnectFromReader(u) PROVE Lease!Next
  <2>1. /\ claimed' = claimed \ {d_device[v] : v \in {u}}
        /\ d_device' = [v \in Units |-> IF v \in {u} THEN None ELSE d_device[v]]
        /\ UNCHANGED usb
    BY <1>6 DEF DisconnectFromReader, TypeOK
  <2>2. Told' = None
    BY <1>6, ToldNothing DEF DisconnectFromReader
  <2> QED BY <2>1, <2>2, ClosingGivesBack
<1>7. ASSUME NEW u \in Units, DropUnit(u) PROVE Lease!Next
  <2>1. Told' = None
    BY <1>7, ToldNothing DEF DropUnit
  <2> QED BY <1>7, <2>1, DestroyingCloses, ClosingGivesBack DEF DropUnit
<1>8. ASSUME NEW p \in Providers,
             NewProvider(p) \/ RefreshReaderList(p) \/ CreateReaderUnit(p) \/ Release(p)
      PROVE  Lease!Next
  <2>1. UNCHANGED <<usb, claimed, d_device>>
    BY <1>8 DEF NewProvider, RefreshReaderList, Refreshed, CreateReaderUnit, Release, Crash, unit
  <2>2. Told' = None
    BY <1>8, ToldNothing DEF NewProvider, RefreshReaderList, Refreshed, CreateReaderUnit, Release,
                             Crash
  <2> QED BY <1>1, <2>1, <2>2
<1>9. CASE Crash
  BY <1>1, <1>9, ToldNothing DEF Crash, unit
<1>10. ASSUME NEW u \in Units, NEW name, FetchRealName(u) \/ UnSerialize(u, name)
       PROVE  Lease!Next
  <2>1. UNCHANGED <<usb, claimed, d_device>> /\ answer' = None
    BY <1>10 DEF FetchRealName, UnSerialize
  <2> QED BY <1>1, <2>1, ToldNothing
<1>11. CASE UNCHANGED vars
  BY <1>11 DEF Lease!vars, Plugged, Borrowed, Told, vars, unit
<1> QED BY <1>2, <1>3, <1>4, <1>5, <1>6, <1>7, <1>8, <1>9, <1>10, <1>11
        DEF Next, Environment, ProviderCall, UnitCall

\* The providers and units implement ReaderLease, whatever the caller does: no step
\* lends a reader that is lent, forgets to end a lease, or ends another unit's.
THEOREM ProviderImplementsLease == Spec => ImplementsLease
<1>1. Init => HandlesInv /\ ClaimsInv
  BY InitHandles DEF Init, ClaimsInv
<1>2. Init => Lease!Init
  <2> SUFFICES ASSUME Init PROVE Lease!Init
    OBVIOUS
  <2>1. Told = None
    BY ProviderAssumption DEF Init, Told, ProviderAssumption
  <2> QED BY <2>1 DEF Init, Lease!Init, Borrowed, Plugged
<1> QED BY <1>1, <1>2, StepHandles, StepClaims, StepLends, TypeCorrect, PTL
        DEF Spec, ImplementsLease, Lease!Spec
=============================================================================
