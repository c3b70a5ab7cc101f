# Verification of the liblogicalaccess NFC plugin

TLA+ models of `liblogicalaccess-libnfc`, the plugin that makes libnfc readers
usable from liblogicalaccess. The plugin is a few thousand lines of C++ over a
vendored libnfc 1.7.1. It starts no threads. What makes it hard is that cards
move while a call runs, that any libnfc call may fail, and that the same fact is
kept in several places: in the plugin, in libnfc's caches, in the PN53x chip and
in the card.

Paths below are relative to `src/plugins/logicalaccess/plugins/readers/nfc/`;
libnfc files to `src/vendor/libnfc/linux/libnfc-1.7.1/libnfc/`.

## 1. The system

| Component | State | Operations |
|---|---|---|
| `NFCReaderProvider` | `d_context`, `d_readers`; libnfc's process-wide `nfc_drivers` | `createInstance`, `refreshReaderList`, `createReaderUnit`, `release`, destructor |
| `NFCReaderUnit` | `d_device`, `d_chips` (chip to `nfc_target`), `d_insertedChip`, `d_chip_connected`, `d_name`, `d_connectedName`, `d_card_type` | `connectToReader`, `disconnectFromReader`, `waitInsertion`/`refreshChipList`, `waitRemoval`, `connect`, `disconnect`, `createChip`, `writeChipUid`, `fetchRealName` |
| `NFCDataTransport` | `d_response`, `ignore_error_` | `send`, `receive`, `sendCommand`, `ignoreAllError` |
| `NFCReaderCardAdapter` | `ignore_error_`, the result checker | `sendCommand`, `ignoreAllError` |
| `MifareNFCCommands` | `d_keys` | `loadKey`, `authenticate`, `readBinary`, `updateBinary`, `increment`, `decrement` and their raw forms, `transfer`, `restore` |
| `MifareClassicUIDChangerCardService` | the reader unit | `changeUID` |
| libnfc, generic layer | `nfc_drivers`, `bInfiniteSelect`, `bCrc`, `bAutoIso14443_4`, ... | list, open, close, init, list and select targets, transceive |
| libnfc, PN53x layer | `current_target`, `ui8Parameters`, write-back cache | properties, select, deselect, transceive |
| libnfc, drivers | the USB handle | scan, open, close, send, receive |

How they interact. The provider scans for readers and makes a unit for each; a
unit keeps only a weak pointer to its provider and asks it for the libnfc
context when it connects. The unit lists cards and makes a `Chip` for each, all
chips sharing one card adapter and one transport. A command goes from
`MifareNFCCommands` through the adapter and the transport to
`nfc_initiator_transceive_bytes`; when an authentication is refused, the
transport calls back into the unit's `connect()`. `writeChipUid()` uses the same
adapter and transport after its guard has silenced both.

What is hard to test, with its line, is listed under `hazards` in
`PROJECT.json`. In short: stale chips, flags and names; removal inferred from a
failed selection; errors between two libnfc calls of one operation; settings that
libnfc believes in and the chip does not; two-command operations of which one is
lost; providers that share the driver list; handles that nobody can close.

What makes each component correct:

- *Unit*: reports of insertion, removal and timeout are real; "connected" means
  that the PN53x has selected the inserted chip's card, as long as no command has
  cost it its target; no selection is endless; waits end.
- *Provider*: a list names every reader its scan has found, once; one handle per reader; no
  handle is lost; libnfc is shut down after the last device.
- *Commands*: an answer belongs to its command; success is the whole effect and
  an exception is all or nothing; a refused key does not cost the selection.
- *UID change*: the mode of the chip and the error flags are restored whatever
  fails; an undisturbed change leaves unit, chip object and card in agreement.

## 2. Modules

| Module | What it is |
|---|---|
| `CardSlot` | abstract: what a unit promises a careful caller |
| `NfcReaderUnit` | one reader unit, its chips and the cards in the field |
| `NfcReaderUnitProofs` | its inductive invariant and theorems |
| `NfcReaderUnitRefinement` | the proof that it implements `CardSlot` |
| `CardTypes`, `CardTypesProofs` | the table of card types and what `createChip` makes of a type, as operators; theorems about them |
| `NfcSession`, `NfcSessionProofs` | the unit composed with the chip objects and the commands sent through them |
| `WaitClock`, `WaitClockProofs` | the clocks of the two waits |
| `ReaderLease` | abstract: readers lent to units, what providers and units promise together |
| `NfcReaderProvider`, `NfcReaderProviderProofs` | providers, their units and the readers on the bus |
| `ValueStore` | abstract: what the value commands promise, as single operations |
| `MifareNFCCommands`, `MifareNFCCommandsProofs` | commands, adapter, transport and a Mifare Classic card |
| `ChipUidChange`, `ChipUidChangeProofs` | `changeUID`, the guard, libnfc's caches and a "magic" card |
| `MCUnit`, `MCSession`, `MCWaitClock`, `MCProvider`, `MCMifare`, `MCUid` | constants of the instances TLC checks |

The modules meet at `NFCReaderUnit::connect()`. `NfcReaderUnit` has it libnfc call
by libnfc call, and `NfcSession`, which extends it, runs those very steps inside
`send()`. `MifareNFCCommands` and `ChipUidChange` take its
outcomes in one step (selected, not found, thrown); that these are all the
outcomes is `ConnectIsHonest` of the unit and `ReselectRecovers` of the session.

### NfcReaderUnit

A step is one libnfc call and the local computation up to the next one; `pc`
names the call. Between any two steps `CardEnters`, `CardLeaves` and
`MaxwaitElapses` may happen. `field` holds the cards in the field, `halted` those
that a deselection left in HALT, `target` is libnfc's `current_target`,
`retryForever` what the chip was told by `NP_INFINITE_SELECT`. The other
variables have the names of the code's members.

| Code | Actions |
|---|---|
| `waitInsertion` | `WaitInsertion`, `StartInsertion`, `PickChip` |
| `refreshChipList` | `InitReader`, `ListPassiveTargets`, `FindA`, `FindNoA`, `FindF`, `RestoreRetries` (with `AddChips`) |
| `connect` | `Connect`, `Reselect`, `LimitRetries`, `SelectByUid`, `Refuse`, `Connected` |
| `disconnect` | `Disconnect`, `Deselect` |
| `waitRemoval` | `WaitRemoval`, `CheckRemoval`, then the actions of `connect` |
| `connectToReader`, `disconnectFromReader` | actions of the same names |
| `pn53x_transceive`, as far as it changes the unit | `TargetReleased` |

`Commands` says whether the caller sends commands. A command never touches the
unit's members, but libnfc frees its current target when the PN53x answers that
it has released or discarded the card (`chips/pn53x.c:314`), while
`d_chip_connected` stays as it was: `TargetReleased`. Every libnfc call may fail, up to `MaxFaults` times. Chips are named by their
heap addresses, since `std::map` orders `d_chips` by them and `waitInsertion()`
takes the first: `AddChips` chooses the addresses freely. `Careful` restricts the
caller to disconnecting from a card before it waits for another or touches the
reader. `seen`, `gone`, `faultsBefore` and `fresh` are history that only
properties read. A libnfc call with a null device is the action `Crash`.

### CardSlot and how the unit implements it

A slot holds a card or none, a link is to the card in the slot or to none, and a
call is asked and answered. The slot says nothing of chips, targets, halted
cards, retries or errors. The mapping: `known` is the set of cards that have a
chip, and, while `waitInsertion()` runs, the candidates of the listing; `slot` is
the card of `d_insertedChip`; `link` is libnfc's `target` while
`d_chip_connected` is set; `call` and `reply` are `op` and `result`. What it adds
to the invariants is order: nothing enters the slot that the unit has not met in
the field, a link comes up only while its card is in the field, and goes down
with a `false`, an exception or a removal, or, if commands are sent, between two
calls (`Break`, the image of `TargetReleased`). It holds for a careful caller only,
since `waitInsertion()` of a connected unit lets go of the card under the flag.

### CardTypes

`supported_tags` is the table of the code, row by row; `CardType` is the search
in it and `CommandsOf`, `CheckerOf` and `OffersUidChange` what `createChip` and
`getCardService` decide by the type. A `nfc_target` keeps what the table looks at.

### NfcSession

It extends `NfcReaderUnit`: every step is a step of the unit, with its effect on
four more things, or a step of a command that leaves the unit alone. `active` is
the card that listens, `identifier` what each chip object answers to
`getChipIdentifier()`, `checker` the result checker of the shared adapter,
`sending` and `stage` the command on its way.

| Code | Actions |
|---|---|
| `createChip` in `refreshChipList` | `CreateChips`, with `RestoreRetries` |
| `getSingleChip`, `getNumber` | `SingleChip`, `SerialNumber` |
| `setChipIdentifier` in `connect` | `Identified`, with `SelectByUid` |
| `NFCDataTransport::send` | `SendCommand`, `Transceive`, `AuthenticationRefused`, `Resume` |

A command is answered or not, and may cost libnfc its target either way
(`Transceive` takes `TargetReleased` of the unit); what it does to the card is the
business of `MifareNFCCommands`. After a refused authentication the unit is connected and
its card silent, a state in which no user's call starts `connect()`; the session
runs it from there, with the cards moving and the calls failing. `Careful`
adds: commands are sent through `getSingleChip()` and while `isConnected()`.

### WaitClock

`NfcReaderUnit` lets a limit elapse at any time. `WaitClock` says when it does:
`waitInsertion()` reads the date in whole seconds before its loop and before
each sleep, `waitRemoval()` reads the steady clock in its condition. A turn of
the loop (`Turn`) takes up to `MaxTurn` and finds what it looks for or not. With
a limit of zero `waitInsertion()` gives up before its first turn, against what
the header says; the properties of limits are about other limits, and the run
`wait_zero` shows the case. `SetDate` sets the date of the computer in between.

### NfcReaderProvider

A reader is its connection string, which holds its USB address: a reader that is
unplugged and plugged in again is a new one. `claimed` is what the system
remembers of handles, `drivers` libnfc's shared list. `Scans` follows
`pn53x_usb_scan`, which passes over any reader, claimed or not, that has no
configuration, that it cannot open or that refuses the configuration it tries
(another process, permissions, an I/O error), and tells nobody: a scan finds any
subset of the plugged readers, and `refreshReaderList()` answers true all the
same. The answer of a refresh carries, as history, the readers that a scan
passed over; an empty driver list is no scan and passes over none. `Openable`
follows `nfc_open`. `~NFCReaderProvider` destroys the units the caller does not
hold, an arbitrary subset of the list. The caller may do anything: use a
provider after `release()`, its units when it is gone, connect a connected unit.
`lost` remembers, as history, the readers whose handle `connectToReader()` has
overwritten so. `UnSerialize` gives a unit another name, as reading a
configuration does, with its list and its handle as they are; `renamed`
remembers which units these were, since the names of a list are unique only up
to that.

### ReaderLease and how the provider implements it

A reader that is plugged in is borrowed by one unit, as `connectToReader()` says
(`told`), and is free again when the unit gives it back, is destroyed (several
units at once, when a provider goes) or the reader is pulled out. The mapping:
`present` is the set of plugged readers, `busy` is `claimed`, and a unit has
borrowed the reader of its handle while that reader is claimed (`Borrowed`): the
handle to a reader that was pulled out is no lease. The lease knows nothing of
lists, names, contexts and drivers. It holds whatever the caller does:
`connectToReader()` of a connected unit overwrites the handle, and the lease
says that the reader stays busy then with nobody to free it, whether the unit is
given another one (`Borrow`) or none (`Refuse`).

### MifareNFCCommands

A public call becomes the list `todo` of its raw commands; `Send` is
`NFCDataTransport::send()` with what the callers above make of its outcome, and
`Reselect` the `connect()` after `NFC_EMFCAUTHFAIL`. The card follows from how
libnfc and the plugin use it: a refused command or key deactivates it,
increment, decrement and restore change only its transfer register, transfer
writes that to a block. `Rejected` stands for the block contents that the
adapter's ISO 7816 checker takes for an error status. A lost command or answer
has every effect that the loss may leave behind. `before` and `calm` are history.

### ValueStore and how the commands implement it

A store of values and a transfer buffer, on which a call acts once, when it is
answered: whole after a success, whole or not at all after an exception. The
mapping is the identity on the card's blocks and its transfer buffer; a call
runs while `pc` is not idle. The store knows nothing of raw commands, of the
selection after a refused key, nor of what the adapter's checker refuses. What
it adds to `EffectIsExact` is the order: the first half of `increment()` shows
in the buffer and nowhere else, the blocks change only in the step that answers
the call, and a later `transfer()` writes what the earlier calls have computed.
When the caller has chosen to ignore errors, `increment()` may pretend: its
second half then writes an older content of the buffer.

### ChipUidChange

`believed` stands for the three flags libnfc records before it acts (`bCrc`,
`bEasyFraming`, `bAutoIso14443_4`; they are equal, because only the guard sets
them); `chipCrc` and `chipRats` are what the chip does. CRC handling is a
register write held back in `wb_data` until the next command (`wb_trigged`), or,
if that write-back has failed, until something makes one due again: a raw frame
does when its last byte has another number of bits than that of the frame before
it (`Due`, `pn53x_set_tx_bits`). Automatic RATS is a command of its own that
`ui8Parameters` caches. The guard is one step although it makes three property
calls: only the third one talks to the chip, so nothing can happen between them
that matters. `Asserts` tells a build with assertions from one with `NDEBUG`.
The card obeys the unlock commands in order and only if the chip adds no CRC of
its own.

## 3. Runs

| Run | Shows | States |
|---|---|---|
| `unit_careful` | `TypeOK`, `SelectIsBounded`, `ConnectedIsSelected`, `TimeoutIsReal`, the liveness properties `WaitsEnd` and `RemovalIsNoticed`, and the refinement `ImplementsSlot` | 63,923 |
| `unit_careless` | `InsertedIsListed`, `CrashNeedsChip`, `FreshInsertionIsReal`, `TypeARemovalIsReal`, `ConnectIsHonest`, whatever the caller does | 421,506 |
| `session` | `SessionTypeOK`, `CommandsHaveDevice`, `AnsweredByOwnCard`, `IdentifierKnown`, `OwnChecker`, `ReselectRecovers`, `CommandsReturn` | 683,045 |
| `wait_clock` | `TypeOK`, `InsertionLimit`, `LooksBeforeGivingUp`, `RemovalLimit`, `LimitedCallsEnd` | 29,671 |
| `provider` | `TypeOK`, `ClaimsHaveOwners`, `ListsAllWhileDriven`, `NamesAreUnique`, `OneHandlePerReader`, and the refinement `ImplementsLease`, whatever the caller does | 376,024 |
| `mifare_calls` | `TypeOK`, `EffectIsExact`, `ReadIsCurrent`, `AuthFailureRecovers`, `CallsReturn`, and the refinement `ImplementsStore` | 82,768 |
| `uid_checked` | `TypeOK`, `NormalModeRestored`, `SilenceEnds`, `ChangeIsComplete` | 32,620 |

Runs that find the code at odds with what it documents (`findings` quotes the
lines):

| Run | Finding |
|---|---|
| `unit_stale` | an earlier, departed card is reported as inserted |
| `unit_felica` | a FeliCa card is reported removed while it stays |
| `provider_shared` | releasing one provider blinds the others: a refresh finds nothing although no reader was passed over |
| `wait_zero` | `waitInsertion(0)` gives up at once, without a look at the cards |
| `uid_init` | automatic RATS stays off and no initialisation notices |

Bounds, and why they are enough:

- *Cards*: two. Every property relates one chip's card to at most one other: a
  second one is what a listing can confuse it with, an unknown type or FeliCa is
  what it can skip.
- *Chip addresses*: two for a careful caller, whose map is empty or has the chips
  of one refresh; four for a careless one, so that chips of two refreshes meet.
  `RoomForChips` keeps a call from starting when they could run out.
- *Faults*: one or two. One breaks a call; two let an error hit the cleanup after
  an error.
- *Readers, units, providers*: two of each: units of two providers, or of one, with
  one name, two names or none, that compete for one reader or hold both. A
  refresh that would need a third unit is not taken; the theorems have no such
  bound.
- *Blocks*: two, in two sectors, with values 0 and 1, of which one is `Rejected`,
  and a key for each key type.
- *UIDs*: an old and a new one (symmetric).
- *Session*: a Mifare Classic and a DESFire card, the two kinds that differ in
  commands and checker; three addresses, so that a chip of an earlier listing, or
  a second one of a card, can be in the map; one fault.
- *Clock*: a second is five ticks; limits of 0, of less than a second, of a whole
  one and of more, multiples of a second or not; turns shorter than a second and
  sleeps of one or two ticks, so that reading the date, sleeping and testing fall
  into different seconds; the date set twice, back or on by more than a second.
  `Horizon` bounds a call: none begins another turn after 40 ticks, more than
  the longest limit with its turns and all the date can lose takes, so that only
  calls without a limit meet it.

Symmetry is used where only safety is checked: of units, readers and providers,
and of UIDs.

`CHECK_DEADLOCK FALSE` appears in the two runs of the provider (a crashed process makes no
more calls, and all units and readers may have been used up) and in
`wait_clock`, where a behaviour is one call and ends with it.

Fairness. `NfcReaderUnit` has weak fairness of the running call's steps and of
time. The code is a loop in one thread around libnfc calls, each of which
returns: the selection because its retries are limited (that they are is
`SelectIsBounded`, not an assumption: `FindNoA` and `SelectByUid` need
`~retryForever` to end without an answer), the others because the drivers bound
their waits. Nothing forces cards to move. `MifareNFCCommands` has weak fairness
of `Send` and `Reselect` for the same reason, `NfcSession` of the unit's steps
(`Runs`) and of the command's (`Sends`), `WaitClock` of the call that runs
(`Turn`, `ReadAndSleep`, `TimeOut`); nothing makes anybody set the date.

## 4. Proofs

All theorems hold for arbitrary sets of cards, addresses, providers, units,
readers, blocks, keys and UIDs, for any lengths of time and any number of errors.
They rest on the named assumptions `UnitAssumption`, `SessionAssumption`,
`ClockAssumption`, `ProviderAssumption`, `MifareAssumption` and `UidAssumption`,
which say no more than that the markers (`NoTag`, `NoChip`, `None`, `Threw`,
`Default`) are not values, that bounds are numbers, and, of a session, that the
unit knows the types the table gives. Every safety property of the passing runs
is proved; where a theorem needs more than its run has, it says so.

*Unit.* `TypeCorrect` proves `TypeOK`. `UnitInvariant` proves
`UnitInv == TypeOK /\ Control /\ InsertedIsListed /\ SelectIsBounded /\ Linked`.
`Control` says which call each label of `pc` belongs to and that `Refuse` comes
only for a chip that cannot be selected; `SelectIsBounded` alone is not
inductive without it. `Linked` relates an empty map, the inserted chip and the
flag. From these follow `InsertedAlwaysListed` and `SelectsBounded`;
`ConnectedSelected` (for a careful caller, and without commands) strengthens
`ConnectedIsSelected` to the states inside a call. `TypeARemovalReal` is about the ISO14443A cards, next
to any other and for any caller; `RemovalReal`, when there is no other card, is
its consequence, and `unit_felica` shows the restriction to be needed.
`CrashesNeedChip` rests on `DeviceInv`, which says where in a call the device is
known to be open, and so which calls alone can meet a null one. `ConnectHonest`
follows from `Control`; `FreshInsertionReal` needs that candidates and listed
chips have been seen in the field (`FreshSeen`). `TimeoutReal` rests on `Seeing`,
what each place of `refreshChipList()` has seen while nothing disturbed it: the
init wakes every card, from then on the halted cards are the listed ones, and
the listing ends only when no other is there. It needs every FeliCa card to be
of a known type, which the table guarantees: the FeliCa listing stops at its
first card, and one that is not known would hide the others.

*Refinement.* `UnitImplementsSlot`, for a careful caller, with commands or without: `Init` maps to the
slot's `Init`, and every step, under `UnitInv`, to a step of the slot or to none.

*Card types.* `CardTypeUnambiguous`: any row that matches a target gives its
type, so that the order of the table does not matter. `MifareChips`: what a chip
with Mifare commands is, as an authentication takes four bytes of its UID.

*Session.* `SessionSpec => Spec`, so that the theorems about the unit hold in a
session, but for `ConnectedSelected`, which assumes that no commands are sent: in a
session a connected unit's libnfc may have no target. `OwnCardAnswers`, `IdentifiersKnown`, `CheckersFit` and
`ReselectionRecovers`, for a careful caller, rest on
`SessionInv == CommandStands /\ Listening /\ Names /\ Checks`: where a command
stands in the unit's call, which card can listen while the unit is connected,
what the chip objects are called, and whose checker the adapter has.
`SessionTimeoutReal` is `TimeoutReal` without its hypothesis, which the table of
types fulfils (`FelicaIsSupported`). `SessionImplementsSlot`: a command either leaves the unit
alone, which the slot does not see, or costs libnfc its target, which breaks the
link, or starts `connect()`, whose steps the slot knows. `CommandsMeetDevice`, for a careful caller, says that no command and
no `connect()` inside of one uses a null device, though `send()` never looks.

*Clock.* `InsertionLimitKept`, `InsertionLooks` and `RemovalLimitKept` rest on
`IInv`, whose `DatesAgree` relates the dates that `waitInsertion()` keeps to the
time that has passed as long as nobody sets the date, and whose `InsertionTurns`
and `RemovalTurns` say how late the last turn may have begun.

*Provider.* `OneHandleEach` rests on `HandlesInv`: a handle to a plugged reader
has claimed it. `NoHandleIsLost` holds for any caller, since `ClaimsHaveOwners`
leaves out the overwritten handles. `ListedOnce` rests on `ListsInv`: a list
holds existing units of its own provider, so that units destroyed or created
elsewhere cannot change its names. `DrivenListsAll` says that the list has every
plugged reader but those the scan passed over, whatever units and renamed units
it had before, as long as libnfc has its drivers. `RefreshesListAll` drops that
condition and assumes one provider at a time, as `provider_shared` shows it
must; it rests on `DriversInv` (a provider with a context has the drivers
loaded) and `AnswersInv` (the provider that has just answered a refresh has a
context). `ProviderImplementsLease` maps each step to a step of `ReaderLease`;
it needs `HandlesInv` and `ClaimsInv` (only plugged readers are claimed), so
that closing a unit's handle ends that unit's lease and no other.

*Commands.* `TypeCorrect`, `EffectExact`, `ReadCurrent` and `AuthRecovers` rest on
`IInv == TypeOK /\ CallInv /\ EffectInv /\ CalmInv`: the raw commands left are the
last one or two of the call; the card's blocks are as they were when it began, and
between two commands its transfer buffer holds what the first has put there, or
nothing; a card that nothing happened to is active until a key is refused.
`CommandsImplementStore` uses the same invariant to map every step to a step of
`ValueStore` or to none: the first raw command of a call computes, the last one
answers, and a call that is refused before its last command has written nothing.

*UID change.* `TypeCorrect` adds to `TypeOK` that a change that runs has a UID to
write. `SilenceAlwaysEnds` rests on `SilenceInv`: until the guard is set
up the flags are the user's, from then on the guard's saved copies are.
`NormalModeUnlessError` holds in every build and rests on `ModeInv`, as long as no
error was met that an assertion has not stopped (`Trusted`): a call that goes on
has met no error in its property calls, so the chip is in one mode or the other,
with nothing held back. `NormalModeAlwaysRestored`, with assertions, follows.
Without assertions and after an error the claim is false; `uid_init` shows how.
`ChangesAreComplete` needs no assertions: `ChangeInv` says
in what state the card is before each frame of an undisturbed change, and that
the chip adds no CRC to the next one, because it has stopped or because the
write held back stops it.

Only model-checked: the liveness properties `WaitsEnd`, `RemovalIsNoticed`,
`CallsReturn`, `CommandsReturn` and `LimitedCallsEnd`, which are out of the
prover's reach.

## 5. Not modelled

- DESFire and ISO 7816 commands: another plugin's code.
- The reader unit configuration (no fields) and the entry points, which keep no
  state; `setCardType`, whose member nothing in the plugin reads; `createChip`
  called by the user for a chip that no listing has found.
- The adapter a unit has before its first `createChip`: its transport knows no
  reader unit and throws (`nfcdatatransport.cpp:59`). No chip has it.
- The time a libnfc call takes is bounded in `WaitClock` by `MaxTurn`; the frames,
  ACKs and timeouts on the USB bus behind that are not modelled, and of the PN53x's
  registers only the CRC bits are.
- libnfc's other drivers, target mode, emulation, utilities and examples: the
  plugin does not use them.
- The length argument of `readBinary`: the code accepts 16 only, while
  `mifarenfccommands.hpp` documents a range that excludes 16.
- An authentication without a loaded key: what the chip makes of the short
  command is not known from the code.
- A command other than an authentication that the card refuses leaves the card
  deactivated while `isConnected()` stays true. The model has this; no document
  of the code says otherwise, so no property judges it.

Places where the code departs from its own comments, plain enough in the models
not to need a run each:

- `refreshReaderList()` answers true whatever its scan passed over
  (`pn53x_usb.c:198-218`, `nfcreaderprovider.cpp:70`);
  `nfcreaderprovider.hpp:64` says it lists all readers of the system.
- `isConnected()` stays true when a command has cost libnfc its target
  (`chips/pn53x.c:314`, `nfcreaderunit.cpp:511`).
- `waitInsertion()` of a connected unit drops the field and deselects the card but
  leaves `d_chip_connected` true (`nfcreaderunit.cpp:156`); `nfcreaderunit.hpp:67`
  says the call fails then. `ConnectedIsSelected` is therefore stated for a
  careful caller.
- `disconnect()` after `disconnectFromReader()` gives libnfc a null device
  (`nfcreaderunit.cpp:321`); `nfcreaderunit.hpp:115` says it has no effect.
  `CrashNeedsChip` says which other calls can, and which cannot.
- `loadKey` documents a location and a key type (`mifarenfccommands.hpp:117`); all
  share one slot (`mifarenfccommands.cpp:62`), so that the last key loaded is sent
  for every place and type.
- `writeChipUid()` of a chip that `waitRemoval()` has forgotten lists it again with
  an empty target (`nfcreaderunit.cpp:637`): the next `waitInsertion()` reports a
  chip without a card.
- A unit without a name that connects again keeps the first reader's name
  (`nfcreaderunit.cpp:516`, `nfcreaderunit.hpp:49`).
- `release()` exits libnfc under open devices (`nfcreaderprovider.cpp:50`);
  `nfc.c:205` asks for the opposite order.
- A refused authentication may throw out of `connect()` although errors are to be
  ignored (`nfcdatatransport.cpp:77`).
- An I/O error in a property call of the guard fails its assertion
  (`nfcreaderunit.cpp:656`).
- After `writeChipUid()` of a card with a seven-byte UID the target keeps seven
  bytes while the chip object has four (`nfcreaderunit.cpp:637`).

## 6. Plan

Done: the unit and its abstract slot, the card types, the session, the clocks, the
provider and its lease, the commands and their store, the UID change, and the
theorems above. Left, in this
order:

1. `Pn53xRegisters`: the write-back cache for arbitrary masks, against an
   abstract register file it should implement (refinement), with the failure
   cases that `ChipUidChange` abstracts; then `ChipUidChange` over it.
2. `Pn53xUsb`: frames, ACKs, aborts and timeouts between host and chip, and
   whether a late answer can be taken for the next command's.
3. `MifareNFCCommands` over `NfcSession` in place of its one-step `connect()`.
