------------------------- MODULE NfcReaderProvider -------------------------
(***************************************************************************)
(* NFCReaderProvider (nfcreaderprovider.cpp), the reader units it lists    *)
(* and the USB readers behind them.  What makes it delicate is what the    *)
(* providers share: libnfc keeps one list of drivers for all contexts, the *)
(* system lets one handle claim a reader, and the units only hold a weak   *)
(* pointer to their provider.                                              *)
(*                                                                         *)
(* A reader is named by its connection string, which carries its USB       *)
(* address: a reader that is plugged in again has a new name.              *)
(***************************************************************************)
EXTENDS Integers, FiniteSets, Functions

CONSTANTS
    Providers, Units,    \* the objects that may be created
    Readers,             \* the connection strings of the readers
    MaxAlive,            \* how many providers may be alive at once
    Default,             \* the empty name: libnfc picks a reader
    None                 \* a null handle, an unknown name

ASSUME ProviderAssumption ==
    /\ MaxAlive \in Nat
    /\ Default \notin Readers /\ None \notin Readers \cup Providers /\ Default # None
    /\ \A p \in Providers, skipped \in SUBSET Readers :
          None # <<"refreshReaderList", p, TRUE, skipped>>
    /\ \A u \in Units, b \in BOOLEAN : None # <<"connectToReader", u, b>>

VARIABLES
    usb,                 \* reader |-> "absent", "plugged" or "removed"
    claimed,             \* the readers a handle has claimed
    drivers,             \* is nfc_drivers not empty
    d_context,           \* provider |-> "unborn", "open", "null" or "destroyed"
    d_readers,           \* provider |-> the units of its list
    d_name,              \* unit |-> its name, None if there is no such unit
    d_connectedName,     \* unit |-> the reader whose name it fetched, or None
    d_device,            \* unit |-> the reader of its handle, or None
    provider,            \* unit |-> the provider it weakly points to, or None
    crashed,             \* a null pointer was dereferenced
    answer,              \* the last call, and what it returned; of a refresh also,
                         \* as history, the readers its scan passed over
    renamed,             \* history: the units with a name from a configuration
    lost                 \* history: the readers of overwritten handles

unit == <<d_name, d_connectedName, d_device, provider, renamed, lost>>
vars == <<usb, claimed, drivers, d_context, d_readers, unit, crashed, answer>>

----------------------------------------------------------------------------
Plugged == {r \in Readers : usb[r] = "plugged"}

Existing == {u \in Units : d_name[u] # None}

Alive == {p \in Providers : d_context[p] \in {"open", "null"}}

\* What a scan of the buses may find.  It passes over any reader, claimed or not,
\* that has no configuration, cannot be opened or refuses the configuration tried
\* on it, and tells nobody.  Without a driver there is no scan.
Scans(loaded) == IF loaded THEN SUBSET Plugged ELSE {{}}

\* The readers nfc_open may return a handle to; None is always one of them, as
\* opening may fail.  Without a name it picks a reader of a scan, if that finds any.
Openable(name) ==
    LET asked == IF name = Default THEN Readers ELSE {name}
    IN  {None} \cup (IF drivers THEN asked \cap (Plugged \ claimed) ELSE {})

Crash ==
    /\ crashed' = TRUE /\ answer' = None
    /\ UNCHANGED <<usb, claimed, drivers, d_context, d_readers, unit>>

----------------------------------------------------------------------------
\* The environment.  The handle to a reader that is removed is good for nothing
\* but to be closed.
Plug(r) ==
    /\ usb[r] = "absent"
    /\ usb' = [usb EXCEPT ![r] = "plugged"]
    /\ answer' = None
    /\ UNCHANGED <<claimed, drivers, d_context, d_readers, unit, crashed>>

Unplug(r) ==
    /\ usb[r] = "plugged"
    /\ usb' = [usb EXCEPT ![r] = "removed"]
    /\ claimed' = claimed \ {r}
    /\ answer' = None
    /\ UNCHANGED <<drivers, d_context, d_readers, unit, crashed>>

----------------------------------------------------------------------------
(***************************************************************************)
(* The provider.                                                           *)
(***************************************************************************)
\* Mutant of NewNames: the list is not searched for the names found.
NamesOfScan(p, found) == found

\* The names of the readers found that no unit of the list has.
NewNames(p, found) == {r \in found : \A u \in d_readers[p] : d_name[u] # r}

\* f, with the values of g where g has one.
Updated(f, g) == [u \in DOMAIN f |-> IF u \in DOMAIN g THEN g[u] ELSE f[u]]

\* Mutants of AddUnits: the list is replaced; the units are not told of their
\* provider.
ReplaceUnits(p, names, connectedNames) ==
    /\ d_readers' = [d_readers EXCEPT ![p] = DOMAIN names]
    /\ d_name' = Updated(d_name, names)
    /\ d_connectedName' = Updated(d_connectedName, connectedNames)
    /\ provider' = Updated(provider, [u \in DOMAIN names |-> p])
    /\ UNCHANGED <<renamed, lost>>

AddOrphans(p, names, connectedNames) ==
    /\ d_readers' = [d_readers EXCEPT ![p] = @ \cup DOMAIN names]
    /\ d_name' = Updated(d_name, names)
    /\ d_connectedName' = Updated(d_connectedName, connectedNames)
    /\ UNCHANGED <<provider, renamed, lost>>

\* New units, with the names that `names' gives them, join the list of p.
AddUnits(p, names, connectedNames) ==
    /\ d_readers' = [d_readers EXCEPT ![p] = @ \cup DOMAIN names]
    /\ d_name' = Updated(d_name, names)
    /\ d_connectedName' = Updated(d_connectedName, connectedNames)
    /\ provider' = Updated(provider, [u \in DOMAIN names |-> p])
    /\ UNCHANGED <<renamed, lost>>

\* refreshReaderList() adds a unit for every new name, removes none, and answers
\* true, whatever its scan passed over.
Refreshed(p, loaded) ==
    /\ \E found \in Scans(loaded), added \in SUBSET (Units \ Existing) :
          /\ \E names \in Bijection(added, NewNames(p, found)) : AddUnits(p, names, names)
          /\ answer' = <<"refreshReaderList", p, TRUE, IF loaded THEN Plugged \ found ELSE {}>>
    /\ UNCHANGED <<usb, claimed, d_device, crashed>>

\* createInstance(): nfc_init() registers the drivers if there are none.
NewProvider(p) ==
    /\ d_context[p] = "unborn"
    /\ Cardinality(Alive) < MaxAlive
    /\ d_context' = [d_context EXCEPT ![p] = "open"]
    /\ drivers' = TRUE
    /\ Refreshed(p, TRUE)

\* The null context of a released provider is dereferenced.
RefreshReaderList(p) ==
    /\ p \in Alive
    /\ \/ d_context[p] = "null" /\ Crash
       \/ /\ d_context[p] = "open"
          /\ Refreshed(p, drivers)
          /\ UNCHANGED <<drivers, d_context>>

\* createReaderUnit() adds a unit without a name, which opens the reader libnfc
\* picks, fetches its name and closes it again.
CreateReaderUnit(p) ==
    /\ p \in Alive
    /\ \/ d_context[p] = "null" /\ Crash
       \/ /\ d_context[p] = "open"
          /\ \E u \in Units \ Existing, r \in Openable(Default) :
                AddUnits(p, [new \in {u} |-> Default], [new \in {u} |-> r])
          /\ answer' = None
          /\ UNCHANGED <<usb, claimed, drivers, d_context, d_device, crashed>>

\* release(): nfc_exit() empties the list of drivers, which all contexts share.
Release(p) ==
    /\ p \in Alive
    /\ drivers' = (drivers /\ d_context[p] # "open")
    /\ d_context' = [d_context EXCEPT ![p] = "null"]
    /\ answer' = None
    /\ UNCHANGED <<usb, claimed, d_readers, unit, crashed>>

\* Mutant of DestroyUnits: the handles stay open.
ForgetUnits(dead) ==
    /\ renamed' = renamed \ dead
    /\ UNCHANGED <<claimed, lost>>
    /\ LET gone == [u \in dead |-> None]
       IN  /\ d_name' = Updated(d_name, gone)
           /\ d_connectedName' = Updated(d_connectedName, gone)
           /\ d_device' = Updated(d_device, gone)
           /\ provider' = Updated(provider, gone)

\* The units `dead' are destroyed, which closes their handles.
DestroyUnits(dead) ==
    /\ renamed' = renamed \ dead
    /\ claimed' = claimed \ {d_device[u] : u \in dead}
    /\ UNCHANGED lost
    /\ LET gone == [u \in dead |-> None]
       IN  /\ d_name' = Updated(d_name, gone)
           /\ d_connectedName' = Updated(d_connectedName, gone)
           /\ d_device' = Updated(d_device, gone)
           /\ provider' = Updated(provider, gone)

\* ~NFCReaderProvider() releases the context, then drops the list: the units the
\* caller does not hold go with it.
DestroyProvider(p) ==
    /\ p \in Alive
    /\ drivers' = (drivers /\ d_context[p] # "open")
    /\ d_context' = [d_context EXCEPT ![p] = "destroyed"]
    /\ d_readers' = [d_readers EXCEPT ![p] = {}]
    /\ \E dead \in SUBSET d_readers[p] : DestroyUnits(dead)
    /\ answer' = None
    /\ UNCHANGED <<usb, crashed>>

----------------------------------------------------------------------------
(***************************************************************************)
(* The units: connectToReader(), disconnectFromReader(), fetchRealName().  *)
(***************************************************************************)
\* connectToReader() asks its provider for the context; there is none if the provider
\* is gone.  A null context is read before a reader is picked, and may be read once
\* a reader is open (a loop that the compiler may leave out).  The handle the unit
\* may have is overwritten.
ConnectToReader(u) ==
    /\ u \in Existing
    /\ \/ /\ d_context[provider[u]] = "destroyed"
          /\ Crash
       \/ /\ d_context[provider[u]] = "null"
          /\ d_name[u] = Default \/ Openable(d_name[u]) # {None}
          /\ Crash
       \/ /\ \/ d_context[provider[u]] = "open"
             \/ d_context[provider[u]] = "null" /\ d_name[u] # Default
          /\ \E r \in Openable(d_name[u]) :
                /\ d_device' = [d_device EXCEPT ![u] = r]
                /\ claimed' = claimed \cup ({r} \ {None})
                /\ lost' = lost \cup ({d_device[u]} \ {None})
                /\ answer' = <<"connectToReader", u, r # None>>
          /\ UNCHANGED <<usb, drivers, d_context, d_readers, d_name, d_connectedName,
                         provider, renamed, crashed>>

\* Mutant of DisconnectFromReader: d_device keeps the handle that was closed.
CloseReader(u) ==
    /\ u \in Existing
    /\ claimed' = claimed \ {d_device[u]}
    /\ answer' = None
    /\ UNCHANGED <<usb, drivers, d_context, d_readers, unit, crashed>>

DisconnectFromReader(u) ==
    /\ u \in Existing
    /\ claimed' = claimed \ {d_device[u]}
    /\ d_device' = [d_device EXCEPT ![u] = None]
    /\ answer' = None
    /\ UNCHANGED <<usb, drivers, d_context, d_readers, d_name, d_connectedName, provider,
                   renamed, lost, crashed>>

\* The name is the one the driver read when the handle was opened.
FetchRealName(u) ==
    /\ u \in Existing
    /\ d_connectedName' = [d_connectedName EXCEPT ![u] = d_device[u]]
    /\ answer' = None
    /\ UNCHANGED <<usb, claimed, drivers, d_context, d_readers, d_name, d_device, provider,
                   renamed, lost, crashed>>

\* unSerialize() takes the name from a configuration, the one of any reader or
\* none; neither the handle nor the list is told.
UnSerialize(u, name) ==
    /\ u \in Existing
    /\ d_name' = [d_name EXCEPT ![u] = name]
    /\ renamed' = renamed \cup {u}
    /\ answer' = None
    /\ UNCHANGED <<usb, claimed, drivers, d_context, d_readers, d_connectedName, d_device,
                   provider, lost, crashed>>

\* The caller drops the last pointer to a unit that is in no list any more.
DropUnit(u) ==
    /\ u \in Existing
    /\ \A p \in Providers : u \notin d_readers[p]
    /\ DestroyUnits({u})
    /\ answer' = None
    /\ UNCHANGED <<usb, drivers, d_context, d_readers, crashed>>

----------------------------------------------------------------------------
Init ==
    /\ usb \in [Readers -> {"absent", "plugged"}]
    /\ claimed = {}
    /\ drivers = FALSE
    /\ d_context = [p \in Providers |-> "unborn"]
    /\ d_readers = [p \in Providers |-> {}]
    /\ d_name = [u \in Units |-> None]
    /\ d_connectedName = [u \in Units |-> None]
    /\ d_device = [u \in Units |-> None]
    /\ provider = [u \in Units |-> None]
    /\ crashed = FALSE
    /\ answer = None
    /\ renamed = {} /\ lost = {}

Environment == \E r \in Readers : Plug(r) \/ Unplug(r)

ProviderCall ==
    \E p \in Providers :
        \/ NewProvider(p) \/ RefreshReaderList(p) \/ CreateReaderUnit(p)
        \/ Release(p) \/ DestroyProvider(p)

UnitCall ==
    \E u \in Units :
        \/ ConnectToReader(u) \/ DisconnectFromReader(u) \/ FetchRealName(u) \/ DropUnit(u)
        \/ \E name \in Readers \cup {Default} : UnSerialize(u, name)

\* A process that has crashed makes no more calls.
Next == ~crashed /\ (Environment \/ ProviderCall \/ UnitCall)

Spec == Init /\ [][Next]_vars

----------------------------------------------------------------------------
Answers ==
    {None} \cup ({"refreshReaderList"} \X Providers \X {TRUE} \X SUBSET Readers)
           \cup ({"connectToReader"} \X Units \X BOOLEAN)

\* Every variable holds a value of its kind; a unit exists with all its members
\* or with none.
TypeOK ==
    /\ usb \in [Readers -> {"absent", "plugged", "removed"}]
    /\ claimed \in SUBSET Readers
    /\ drivers \in BOOLEAN
    /\ d_context \in [Providers -> {"unborn", "open", "null", "destroyed"}]
    /\ d_readers \in [Providers -> SUBSET Units]
    /\ d_name \in [Units -> Readers \cup {Default, None}]
    /\ d_connectedName \in [Units -> Readers \cup {Default, None}]
    /\ d_device \in [Units -> Readers \cup {None}]
    /\ provider \in [Units -> Providers \cup {None}]
    /\ \A u \in Units : d_name[u] = None <=> provider[u] = None
    /\ crashed \in BOOLEAN
    /\ answer \in Answers
    /\ renamed \in SUBSET Units
    /\ lost \in SUBSET Readers

\* refreshReaderList() never lists one reader twice: whatever the refreshes,
\* removals and other providers before it, a list has one unit of each name, apart
\* from the default units and those that took their name from a configuration.
NamesAreUnique ==
    \A p \in Providers : \A u, v \in d_readers[p] \ renamed :
        d_name[u] = d_name[v] /\ d_name[u] # Default => u = v

\* Two units never talk to one reader, even across providers: of the units that
\* hold a handle to a reader still plugged in, there is one.
OneHandlePerReader ==
    \A u, v \in Units : d_device[u] = d_device[v] /\ d_device[u] \in Plugged => u = v

\* A reader stays claimed only while a unit can still close it, unless
\* connectToReader() of a connected unit has overwritten the handle: no other call
\* loses one (nfcreaderunit.cpp:516-541, ~NFCReaderUnit).
ClaimsHaveOwners == \A r \in claimed \ lost : \E u \in Units : d_device[u] = r

\* "List all readers of the system" (nfcreaderprovider.hpp:64): right after
\* refreshReaderList() every reader but those its scan passed over has a unit,
\* whatever units and names the list had before and whatever other providers did.
RefreshListsAll ==
    \A p \in Providers, skipped \in SUBSET Readers :
        answer = <<"refreshReaderList", p, TRUE, skipped>> =>
            \A r \in Plugged \ skipped : \E u \in d_readers[p] : d_name[u] = r

\* So it is unless another provider's release() has emptied libnfc's list of
\* drivers, and thereby every scan.
ListsAllWhileDriven == drivers => RefreshListsAll

----------------------------------------------------------------------------
\* A unit has borrowed the reader of its handle while the handle is good.
Borrowed == [u \in Units |-> IF d_device[u] \in claimed THEN d_device[u] ELSE None]

\* What the last connectToReader() told its caller.
Told == IF answer \in {"connectToReader"} \X Units \X BOOLEAN
        THEN <<answer[2], answer[3]>> ELSE None

Lease == INSTANCE ReaderLease WITH
    Holders <- Units, Devices <- Readers, Nothing <- None,
    present <- Plugged, busy <- claimed, lease <- Borrowed,
    told <- Told

\* Providers and units together lend each reader to one unit at a time, whatever
\* becomes of the lists, the names, the contexts and the readers: a claim starts
\* when a unit opens a free reader, as connectToReader() then says, and ends with
\* that unit's handle, or with the reader; only a unit that asks for another
\* reader leaves one behind (nfcreaderunit.cpp:516-541, ~NFCReaderUnit).
ImplementsLease == Lease!Spec
=============================================================================
