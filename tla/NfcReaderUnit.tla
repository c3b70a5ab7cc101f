--------------------------- MODULE NfcReaderUnit ---------------------------
(***************************************************************************)
(* NFCReaderUnit (nfcreaderunit.cpp): one reader, the chips it has listed  *)
(* and the chip the caller works with.  The unit runs one public call at a *)
(* time, but every libnfc call inside it takes a while: cards enter and    *)
(* leave the field between any two of them, and any of them may meet an    *)
(* I/O or RF error.  A step of a call is therefore one libnfc call (`pc`)  *)
(* together with the local computation up to the next one.                 *)
(*                                                                         *)
(* A card is named by its UID.  A chip object is named by its address: the *)
(* map d_chips is ordered by it, and the allocator is free to choose it.   *)
(***************************************************************************)
EXTENDS Integers, FiniteSets

CONSTANTS
    Tags,       \* the cards, each named by its UID
    TypeA,      \* the ISO14443A cards; the other ones are FeliCa
    Supported,  \* the cards whose type supported_tags[] recognises
    ChipIds,    \* the addresses the heap may give to a Chip
    MaxFaults,  \* how many I/O or RF errors a behaviour may meet
    Careful,    \* the caller disconnects from the card before it waits for
                \* another one or opens or closes the reader
    Commands,   \* the caller sends commands through the chips
    NoTag, NoChip

ASSUME UnitAssumption ==
    /\ TypeA \subseteq Tags
    /\ Supported \subseteq Tags
    /\ ChipIds \subseteq Nat
    /\ MaxFaults \in Nat
    /\ Careful \in BOOLEAN /\ Commands \in BOOLEAN
    /\ NoTag \notin Tags
    /\ NoChip \notin ChipIds

VARIABLES
    field,            \* the cards in the RF field
    halted,           \* the cards of the field a deselection left in HALT
    d_device,         \* is d_device a device handle (or null)
    d_chips,          \* chip |-> the card of its nfc_target, NoTag if absent
    d_insertedChip,
    d_chip_connected,
    target,           \* libnfc's current_target
    retryForever,     \* does the PN53x retry a selection for ever
    op,               \* the public call that runs
    pc,               \* the libnfc call it makes next
    maxwait,          \* 0, or 1 for every finite number of milliseconds
    late,             \* has maxwait elapsed
    found,            \* the candidates[] of the listing that runs
    result,           \* what the last call returned
    faults,           \* how many errors there have been
    \* History of the call that runs, read by the properties only:
    gone,             \* the cards that were out of the field meanwhile,
    seen,             \* of waitInsertion(), those that were in the field
    faultsBefore,     \* `faults' and
    fresh             \* whether d_chips was empty, when it began

device == <<target, retryForever>>
chips  == <<d_chips, d_insertedChip, d_chip_connected>>
hist   == <<seen, gone, faultsBefore, fresh>>
call   == <<op, maxwait, late, result, hist>>
vars   == <<field, halted, d_device, chips, device, call, pc, found, faults>>

----------------------------------------------------------------------------
\* The chips of the map, and the card of the chip the caller works with.
Listed == {c \in ChipIds : d_chips[c] # NoTag}

Inserted == IF d_insertedChip \in Listed THEN d_chips[d_insertedChip] ELSE NoTag

\* Only ISO14443A cards are selected and deselected.
Selectable == Inserted \in TypeA

\* Outcomes of one libnfc call.
Works == UNCHANGED faults
Fails == faults < MaxFaults /\ faults' = faults + 1

Idle == op = "none" /\ pc = "idle"

\* The call `name' starts with the libnfc call `label'.
Begin(name, label, wait) ==
    /\ Idle
    /\ op' = name /\ pc' = label /\ maxwait' = wait
    /\ result' = "none"
    /\ seen' = (IF name = "waitInsertion" THEN field ELSE {}) /\ gone' = Tags \ field
    /\ faultsBefore' = faults /\ fresh' = (Listed = {})
    /\ found' = {}
    /\ UNCHANGED <<late, faults>>

\* The call returns, or throws if the value is "threw".
Return(value) ==
    /\ op' = "none" /\ pc' = "idle"
    /\ result' = value
    /\ maxwait' = 0 /\ late' = FALSE /\ found' = {}
    /\ seen' = {} /\ gone' = {} /\ faultsBefore' = 0 /\ fresh' = FALSE

\* A call that runs to its end in one step.
Immediate(value) ==
    /\ Idle
    /\ Return(value)
    /\ UNCHANGED faults

\* The call goes on with the libnfc call `label'.
Goto(label) == pc' = label /\ UNCHANGED call

----------------------------------------------------------------------------
\* The environment: cards move, time passes.
CardEnters(t) ==
    /\ t \notin field
    /\ field' = field \cup {t}
    /\ seen' = IF op = "waitInsertion" THEN seen \cup {t} ELSE seen
    /\ UNCHANGED <<halted, d_device, chips, device, op, maxwait, late, result, gone,
                   faultsBefore, fresh, pc, found, faults>>

\* A card that leaves loses its power, and with it the HALT state.
CardLeaves(t) ==
    /\ t \in field
    /\ field' = field \ {t}
    /\ halted' = halted \ {t}
    /\ gone' = IF op = "none" THEN gone ELSE gone \cup {t}
    /\ UNCHANGED <<d_device, chips, device, op, maxwait, late, result, seen,
                   faultsBefore, fresh, pc, found, faults>>

MaxwaitElapses ==
    /\ op \in {"waitInsertion", "waitRemoval"}
    /\ maxwait # 0 /\ ~late
    /\ late' = TRUE
    /\ UNCHANGED <<field, halted, d_device, chips, device, op, maxwait, result, hist,
                   pc, found, faults>>

----------------------------------------------------------------------------
(***************************************************************************)
(* connectToReader() and disconnectFromReader().  nfc_open may find no     *)
(* device; what the chip was told about retries before is unknown.         *)
(***************************************************************************)
ConnectToReader ==
    /\ Careful => ~d_chip_connected
    /\ d_device' \in BOOLEAN
    /\ Immediate(IF d_device' THEN "true" ELSE "false")
    /\ target' = NoTag /\ retryForever' \in BOOLEAN
    /\ UNCHANGED <<field, halted, chips>>

DisconnectFromReader ==
    /\ Careful => ~d_chip_connected
    /\ Immediate("void")
    /\ d_device' = FALSE
    /\ IF d_device
       THEN target' = NoTag /\ halted' = {}     \* nfc_close: idle, field off
       ELSE UNCHANGED <<target, halted>>
    /\ UNCHANGED <<field, chips, retryForever>>

----------------------------------------------------------------------------
(***************************************************************************)
(* waitInsertion().                                                        *)
(***************************************************************************)
\* Bound of the model: the addresses left suffice for every chip of a refresh.
RoomForChips == Cardinality(Listed) + Cardinality(Supported) <= Cardinality(ChipIds)

WaitInsertion(wait) ==
    /\ Careful => ~d_chip_connected
    /\ RoomForChips
    /\ Begin("waitInsertion", "start", wait)
    /\ UNCHANGED <<field, halted, d_device, chips, device>>

\* Mutant of StartInsertion: the device is not tested.
StartInsertionUntested ==
    /\ pc = "start"
    /\ IF maxwait = 0 THEN Return("false") ELSE Goto("init") /\ UNCHANGED found
    /\ UNCHANGED <<field, halted, d_device, chips, device, faults>>

\* The loop is entered if currentDate < currentDate + maxwait.
StartInsertion ==
    /\ pc = "start"
    /\ IF ~d_device THEN Return("threw")
       ELSE IF maxwait = 0 THEN Return("false")
       ELSE Goto("init") /\ UNCHANGED found
    /\ UNCHANGED <<field, halted, d_device, chips, device, faults>>

(***************************************************************************)
(* refreshChipList().  nfc_initiator_init and the property calls drop the  *)
(* field, which wakes halted cards, and leave the chip retrying for ever.  *)
(* An error anywhere among them throws, with the calls before it done.     *)
(***************************************************************************)
InitReader ==
    /\ pc = "init"
    /\ \/ /\ Works /\ Goto("armA")
          /\ halted' = {} /\ retryForever' = TRUE
          /\ UNCHANGED found
       \/ /\ Fails /\ Return("threw")
          /\ halted' = {} \/ UNCHANGED halted
          /\ retryForever' = TRUE \/ UNCHANGED retryForever
    /\ UNCHANGED <<field, d_device, chips, target>>

(***************************************************************************)
(* nfc_initiator_list_passive_targets, for ISO14443A ("A") then for FeliCa *)
(* ("F").  It first limits the retries, which were unlimited since         *)
(* nfc_initiator_init: an error there is returned, and thrown.             *)
(***************************************************************************)
ListPassiveTargets(from, to) ==
    /\ pc = from
    /\ \/ Works /\ Goto(to) /\ retryForever' = FALSE
       \/ Fails /\ Return("threw") /\ UNCHANGED retryForever
    /\ found' = {}
    /\ UNCHANGED <<field, halted, d_device, chips, target>>

\* A selection is answered by a card that is not halted.  A card that has been
\* listed already and came back ends the listing, still selected; another one
\* is listed and deselected, whether the deselection works or not.
FindA(t) ==
    /\ pc = "pollA"
    /\ t \in (field \cap TypeA) \ halted
    /\ IF t \in found
       THEN target' = t /\ Works /\ Goto("restoreA") /\ UNCHANGED <<halted, found>>
       ELSE /\ found' = found \cup {t} /\ target' = NoTag /\ Goto("pollA")
            /\ \/ Works /\ halted' = halted \cup {t}
               \/ Fails /\ UNCHANGED halted
    /\ UNCHANGED <<field, d_device, chips, retryForever>>

\* No card answers, which the chip reports once its retries are spent, or the
\* selection fails: both end the listing.
FindNoA ==
    /\ pc = "pollA"
    /\ \/ Works /\ ~retryForever /\ (field \cap TypeA) \subseteq halted
       \/ Fails
    /\ Goto("restoreA")
    /\ UNCHANGED <<field, halted, d_device, chips, device, found>>

\* The listing of FeliCa cards stops after one.
FindF ==
    /\ pc = "pollF"
    /\ \/ /\ \E t \in field \ TypeA : found' = {t}
          /\ target' = NoTag
          /\ Works \/ Fails                      \* the deselection, ignored
       \/ /\ Works /\ ~retryForever /\ field \subseteq TypeA
          /\ UNCHANGED <<found, target>>
       \/ Fails /\ UNCHANGED <<found, target>>
    /\ Goto("restoreF")
    /\ UNCHANGED <<field, halted, d_device, chips, retryForever>>

\* Mutant of AddChips: the new chips replace the map.
AddChipsAfresh(tags) ==
    \E at \in [ChipIds \ Listed -> tags \cup {NoTag}] :
        /\ \A t \in tags : Cardinality({c \in ChipIds \ Listed : at[c] = t}) = 1
        /\ d_chips' = at

\* Mutant of AddChips: a chip for every candidate the array has room for.
AddEveryChip(tags) ==
    LET free == ChipIds \ Listed
    IN  \E at \in [free -> Supported \cup {NoTag}] :
            d_chips' = [c \in ChipIds |-> IF c \in free THEN at[c] ELSE d_chips[c]]

\* createChip and `d_chips[chip] = candidates[c]' for the candidates of a known
\* type, each at an address no listed chip has.
AddChips(tags) ==
    LET free == ChipIds \ Listed
    IN  \E at \in [free -> tags \cup {NoTag}] :
            /\ \A t \in tags : \E c \in free : \A b \in free : (at[b] = t) <=> (b = c)
            /\ d_chips' = [c \in ChipIds |-> IF c \in free THEN at[c] ELSE d_chips[c]]

\* The listing puts the unlimited retries back; an error there makes it fail as
\* a whole and the candidates are dropped.
RestoreRetries(from, to) ==
    /\ pc = from
    /\ \/ Works /\ Goto(to) /\ AddChips(found \cap Supported) /\ retryForever' = TRUE
       \/ Fails /\ Return("threw") /\ UNCHANGED <<d_chips, retryForever>>
    /\ found' = {}
    /\ UNCHANGED <<field, halted, d_device, d_insertedChip, d_chip_connected, target>>

\* Mutant of PickChip: the time limit is tested first.
PickChipInTime ==
    /\ pc = "pick"
    /\ \/ /\ \E c \in Listed : (\A b \in Listed : c <= b) /\ d_insertedChip' = c
          /\ ~late /\ Return("true")
       \/ /\ Listed = {} \/ late
          /\ UNCHANGED d_insertedChip
          /\ IF late THEN Return("false") ELSE Goto("init") /\ UNCHANGED found
    /\ UNCHANGED <<field, halted, d_device, d_chips, d_chip_connected, device, faults>>

\* Back in waitInsertion(): the chip at the lowest address is the inserted one.
PickChip ==
    /\ pc = "pick"
    /\ \/ /\ \E c \in Listed : (\A b \in Listed : c <= b) /\ d_insertedChip' = c
          /\ Return("true")
       \/ /\ Listed = {} /\ UNCHANGED d_insertedChip
          /\ IF late THEN Return("false") ELSE Goto("init") /\ UNCHANGED found
    /\ UNCHANGED <<field, halted, d_device, d_chips, d_chip_connected, device, faults>>

----------------------------------------------------------------------------
(***************************************************************************)
(* connect() and disconnect().                                             *)
(***************************************************************************)
\* Mutants of ConnectLabel: the retries are not limited; a connected card is
\* refused.
SelectAtOnce ==
    IF d_chip_connected /\ Selectable THEN "reselect"
    ELSE IF Selectable THEN "select" ELSE "refuse"

RefuseConnected == IF Selectable /\ ~d_chip_connected THEN "limit" ELSE "refuse"

\* What connect() does first.
ConnectLabel ==
    IF d_chip_connected /\ Selectable THEN "reselect"
    ELSE IF Selectable THEN "limit" ELSE "refuse"

Connect ==
    /\ Begin("connect", ConnectLabel, 0)
    /\ UNCHANGED <<field, halted, d_device, chips, device>>

\* nfc_initiator_deselect_target(); what it returns is ignored.
DeselectTarget ==
    /\ target' = NoTag
    /\ \/ Works /\ halted' = halted \cup ({target} \cap field)
       \/ Fails /\ UNCHANGED halted

Disconnect ==
    /\ IF Selectable
       THEN Begin("disconnect", "deselect", 0) /\ UNCHANGED d_chip_connected
       ELSE Immediate("void") /\ d_chip_connected' = FALSE
    /\ UNCHANGED <<field, halted, d_device, d_chips, d_insertedChip, device>>

Deselect ==
    /\ pc = "deselect"
    /\ DeselectTarget
    /\ d_chip_connected' = FALSE
    /\ Return("void")
    /\ UNCHANGED <<field, d_device, d_chips, d_insertedChip, retryForever>>

\* connect() of a connected unit: disconnect() comes first.
Reselect ==
    /\ pc = "reselect"
    /\ DeselectTarget
    /\ d_chip_connected' = FALSE
    /\ Goto("limit")
    /\ UNCHANGED <<field, d_device, d_chips, d_insertedChip, retryForever, found>>

\* nfc_device_set_property_bool(NP_INFINITE_SELECT, false).
LimitRetries ==
    /\ pc = "limit"
    /\ \/ Works /\ Goto("select") /\ retryForever' = FALSE
       \/ Fails /\ Return("threw") /\ UNCHANGED retryForever
    /\ d_chip_connected' = FALSE
    /\ UNCHANGED <<field, halted, d_device, d_chips, d_insertedChip, target, found>>

\* Mutants of Connected: the unit is connected before the selection succeeds;
\* a removal keeps d_insertedChip.
ConnectedAnyway(ok) ==
    /\ d_chip_connected' = TRUE
    /\ IF op = "connect"
       THEN Return(IF ok THEN "true" ELSE "false") /\ UNCHANGED <<d_chips, d_insertedChip>>
       ELSE Goto("check") /\ UNCHANGED <<d_chips, d_insertedChip, found>>

ConnectedKeepingChip(ok) ==
    /\ d_chip_connected' = ok
    /\ IF op = "connect"
       THEN Return(IF ok THEN "true" ELSE "false") /\ UNCHANGED <<d_chips, d_insertedChip>>
       ELSE IF ok
       THEN Goto("check") /\ UNCHANGED <<d_chips, d_insertedChip, found>>
       ELSE d_chips' = [c \in ChipIds |-> NoTag] /\ UNCHANGED d_insertedChip /\ Return("true")

\* connect() answers its caller: the user, or the loop of waitRemoval(), which
\* takes `false' for a removal and forgets every chip.
Connected(ok) ==
    /\ d_chip_connected' = ok
    /\ IF op = "connect"
       THEN Return(IF ok THEN "true" ELSE "false") /\ UNCHANGED <<d_chips, d_insertedChip>>
       ELSE IF ok
       THEN Goto("check") /\ UNCHANGED <<d_chips, d_insertedChip, found>>
       ELSE /\ d_chips' = [c \in ChipIds |-> NoTag] /\ d_insertedChip' = NoChip
            /\ Return("true")

\* nfc_initiator_select_passive_target() with the UID of the card, halted or
\* not: only that card answers.
SelectByUid ==
    /\ pc = "select"
    /\ \/ /\ Inserted \in field /\ Works
          /\ target' = Inserted /\ halted' = halted \ {Inserted}
          /\ Connected(TRUE)
       \/ /\ \/ Inserted \notin field /\ ~retryForever /\ Works
             \/ Fails
          /\ UNCHANGED <<target, halted>>
          /\ Connected(FALSE)
    /\ UNCHANGED <<field, d_device, retryForever>>

\* connect() makes no libnfc call for a FeliCa card.
Refuse ==
    /\ pc = "refuse"
    /\ Connected(FALSE)
    /\ UNCHANGED <<field, halted, d_device, device, faults>>

----------------------------------------------------------------------------
(***************************************************************************)
(* waitRemoval().                                                          *)
(***************************************************************************)
WaitRemoval(wait) ==
    /\ Begin("waitRemoval", "check", wait)
    /\ UNCHANGED <<field, halted, d_device, chips, device>>

\* The loop condition, after the test that there is a chip to wait for.
CheckRemoval ==
    /\ pc = "check"
    /\ IF Inserted = NoTag THEN Return("true")
       ELSE IF late THEN Return("false") ELSE Goto(ConnectLabel) /\ UNCHANGED found
    /\ UNCHANGED <<field, halted, d_device, chips, device, faults>>

\* The libnfc calls dereference d_device: with a null one the process dies.
DeviceCalls == {"init", "armA", "pollA", "restoreA", "armF", "pollF", "restoreF",
                "deselect", "reselect", "limit", "select"}

Crash ==
    /\ pc \in DeviceCalls /\ ~d_device
    /\ pc' = "crashed"
    /\ UNCHANGED <<field, halted, d_device, chips, device, call, found, faults>>

----------------------------------------------------------------------------
\* What a command may do to the unit (NfcSession has the command itself): the chip
\* of the reader answers that it has released or lost the card, and libnfc forgets
\* its target.  The unit is not told.
TargetReleased ==
    /\ Commands /\ Idle /\ d_device
    /\ target' = NoTag
    /\ UNCHANGED <<field, halted, d_device, chips, retryForever, call, pc, found, faults>>

----------------------------------------------------------------------------
Init ==
    /\ field \in SUBSET Tags
    /\ halted = {}
    /\ d_device = FALSE
    /\ d_chips = [c \in ChipIds |-> NoTag]
    /\ d_insertedChip = NoChip
    /\ d_chip_connected = FALSE
    /\ target = NoTag
    /\ retryForever \in BOOLEAN
    /\ op = "none" /\ pc = "idle"
    /\ maxwait = 0 /\ late = FALSE /\ found = {}
    /\ result = "none"
    /\ faults = 0
    /\ seen = {} /\ gone = {} /\ faultsBefore = 0 /\ fresh = FALSE

Environment == (\E t \in Tags : CardEnters(t) \/ CardLeaves(t)) \/ MaxwaitElapses

\* The caller may start any call when none runs.
Caller ==
    \/ ConnectToReader \/ DisconnectFromReader
    \/ \E wait \in {0, 1} : WaitInsertion(wait) \/ WaitRemoval(wait)
    \/ Connect \/ Disconnect
    \/ TargetReleased

\* The steps of the call that runs.
LibnfcCall ==
    \/ InitReader
    \/ ListPassiveTargets("armA", "pollA") \/ (\E t \in Tags : FindA(t)) \/ FindNoA
    \/ RestoreRetries("restoreA", "armF")
    \/ ListPassiveTargets("armF", "pollF") \/ FindF
    \/ RestoreRetries("restoreF", "pick")
    \/ Deselect \/ Reselect \/ LimitRetries \/ SelectByUid

Step == (d_device /\ LibnfcCall) \/ StartInsertion \/ PickChip \/ Refuse \/ CheckRemoval \/ Crash

Next == Environment \/ Caller \/ Step

Spec == Init /\ [][Next]_vars

\* A call that runs goes on, and time passes; nothing makes cards move.
FairSpec == Spec /\ WF_vars(Step) /\ WF_vars(MaxwaitElapses)

----------------------------------------------------------------------------
Flags ==
    /\ d_device \in BOOLEAN
    /\ d_chip_connected \in BOOLEAN
    /\ retryForever \in BOOLEAN
    /\ late \in BOOLEAN
    /\ fresh \in BOOLEAN

Ranges ==
    /\ field \in SUBSET Tags
    /\ halted \in SUBSET Tags
    /\ d_chips \in [ChipIds -> Tags \cup {NoTag}]
    /\ d_insertedChip \in ChipIds \cup {NoChip}
    /\ target \in Tags \cup {NoTag}
    /\ op \in {"none", "connect", "disconnect", "waitInsertion", "waitRemoval"}
    /\ pc \in DeviceCalls \cup {"idle", "start", "pick", "check", "refuse", "crashed"}
    /\ maxwait \in {0, 1}
    /\ found \in SUBSET Tags
    /\ result \in {"none", "void", "true", "false", "threw"}
    /\ faults \in 0 .. MaxFaults
    /\ seen \in SUBSET Tags
    /\ gone \in SUBSET Tags
    /\ faultsBefore \in 0 .. MaxFaults

\* Every variable holds a value of its kind; the members and locals of the code
\* are typed by the compiler, the others by this model.
TypeOK == Flags /\ Ranges

\* The chip the caller works with has a target in d_chips: connect() and
\* waitRemoval() look it up there after every other call.
InsertedIsListed == d_insertedChip # NoChip => d_insertedChip \in Listed

\* "prevent infinite wait" (connect(), nfcreaderunit.cpp:286): the chip never
\* starts a selection while it is told to retry for ever, whichever property
\* call failed before.
SelectIsBounded == pc \in {"select", "pollA", "pollF"} => ~retryForever

\* isConnected() is true only while libnfc holds the inserted chip's card as its
\* current target, until a first command is sent: a command may lose the target.
ConnectedIsSelected ==
    d_chip_connected /\ op = "none" => target # NoTag /\ target = Inserted

\* A null device is only ever dereferenced for an ISO14443A chip that is listed,
\* by connect(), disconnect() or waitRemoval(): waitInsertion() tests the device
\* before it enters the loop, and no call closes it meanwhile.
CrashNeedsChip == pc = "crashed" => ~d_device /\ Selectable /\ op # "waitInsertion"

----------------------------------------------------------------------------
\* The step in which the call `name' returns `value'.
Returns(name, value) == op = name /\ op' = "none" /\ result' = value

Undisturbed == faults' = faultsBefore

\* waitRemoval() says `true' of a chip only if its card was out of the field at
\* some time during the call, or a libnfc call failed.
RemovalIsReal ==
    [][Returns("waitRemoval", "true") /\ Undisturbed /\ Inserted # NoTag
            => Inserted \in gone]_vars

\* The same of the ISO14443A cards, next to any FeliCa card and for a caller who
\* waits in any order: forgetting every chip is never the answer to a card that
\* stayed where it was.
TypeARemovalIsReal ==
    [][Returns("waitRemoval", "true") /\ Undisturbed /\ Selectable
            => Inserted \in gone]_vars

\* waitInsertion() says `true' of a card that was in the field at some time
\* during the call.
InsertionIsReal ==
    [][Returns("waitInsertion", "true") => d_chips[d_insertedChip'] \in seen]_vars

\* The same, for a call that began with an empty d_chips.
FreshInsertionIsReal ==
    [][Returns("waitInsertion", "true") /\ fresh
            => d_chips[d_insertedChip'] \in seen]_vars

\* waitInsertion() gives up only if it has seen no card it could have seen: had
\* a supported card been in the field all along, and no card moved and no call
\* failed, it would have been found.
TimeoutIsReal ==
    [][Returns("waitInsertion", "false") /\ maxwait # 0 /\ Undisturbed
       /\ seen \cap gone = {} => field \cap Supported = {}]_vars

\* connect() answers `true' exactly when it leaves the unit connected, to the
\* card of the inserted chip; an exception out of it leaves no connection.
ConnectIsHonest ==
    [][op = "connect" /\ op' = "none"
            => /\ d_chip_connected' <=> (result' = "true")
               /\ d_chip_connected' => target' = Inserted]_vars

\* Every call with a time limit returns, whatever the cards do.
WaitsEnd == op \in {"waitInsertion", "waitRemoval"} /\ maxwait # 0
                ~> op = "none" \/ pc = "crashed"

\* A card that is out of the field and stays out ends waitRemoval(0).
RemovalIsNoticed ==
    op = "waitRemoval" ~> op = "none" \/ pc = "crashed" \/ Inserted \in field
----------------------------------------------------------------------------
(***************************************************************************)
(* What the unit promises a careful caller (CardSlot): the slot holds the  *)
(* card of the inserted chip, the link is libnfc's target, as long as      *)
(* isConnected() speaks of one.                                            *)
(***************************************************************************)
Known == {d_chips[c] : c \in Listed} \cup (IF op = "waitInsertion" THEN found ELSE {})

Link == IF d_chip_connected THEN target ELSE NoTag

Slot == INSTANCE CardSlot WITH
            known <- Known, slot <- Inserted, link <- Link, call <- op, reply <- result

\* The unit of a careful caller implements the slot: a link is only ever to the
\* card in the slot, is set up only while that card is in the field, is down
\* after a `false', an exception or a removal, breaks by itself only under a
\* command, and nothing enters the slot that the unit has not met in the field.
ImplementsSlot == Slot!Spec
=============================================================================
