---------------------------- MODULE ChipUidChange ----------------------------
(***************************************************************************)
(* MifareClassicUIDChangerCardService::changeUID() and the writeChipUid()  *)
(* of NFCReaderUnit behind it (nfcreaderunit.cpp): a WriteUIDConfigGuard   *)
(* takes the PN53x out of its normal mode and makes every error silent,    *)
(* raw frames open a "magic" card and write its block 0, the guard's       *)
(* destructor puts everything back.                                        *)
(*                                                                         *)
(* libnfc remembers what mode it has asked for, and holds register writes  *)
(* back until the next command: what it believes and what the chip does    *)
(* are different variables.  CRC handling stands for the registers,        *)
(* automatic RATS for the parameters; easy framing is only believed.       *)
(***************************************************************************)
EXTENDS Integers, Sequences

CONSTANTS
    Uids,        \* the first four bytes of UIDs
    UidLen,      \* the length of the card's UID: 4 or 7
    Asserts,     \* is the code built with its assertions (without NDEBUG)
    MaxFaults,   \* how many I/O or RF errors a behaviour may meet
    None

ASSUME UidAssumption ==
    /\ UidLen \in {4, 7}
    /\ Asserts \in BOOLEAN
    /\ MaxFaults \in Nat
    /\ None \notin Uids
    /\ None \notin [head : Uids, length : {0, 4, 7}]

VARIABLES
    magic,           \* does the card obey the unlock commands; only cards with
                     \* a UID of four bytes do
    cardUid, card,   \* the card's UID, and its state
    believed,        \* bCrc, bEasyFraming and bAutoIso14443_4, always equal
    ui8Parameters,   \* its PARAM_AUTO_RATS, as libnfc last saw it confirmed
    chipCrc, chipRats,       \* what the PN53x does
    wb_data, wb_trigged,     \* the register write held back: <<>> is none
    ignoreAdapter, ignoreTransport,
    saved,           \* rca_error_flag_ and dt_error_flag_ of the guard
    d_chips,         \* the UID under which the chip is listed, None if it is not
    identifier,      \* the identifier of the chip object
    new_uid,         \* the UID that the running call writes, or None
    pc,
    answer,          \* what the last call returned
    faults,
    \* History: the flags the user asked for; whether the card was connected when
    \* the call began and has not moved since, nor has a libnfc call failed.
    wanted, clean

mode  == <<believed, ui8Parameters, chipCrc, chipRats, wb_data, wb_trigged>>
flags == <<ignoreAdapter, ignoreTransport>>
chip  == <<d_chips, identifier>>
user  == <<saved, wanted>>
vars  == <<magic, cardUid, card, mode, flags, user, chip, new_uid, pc, answer, faults,
           clean>>

Uid(head, length) == [head |-> head, length |-> length]

Works == UNCHANGED <<faults, clean>>
Fails == faults < MaxFaults /\ faults' = faults + 1 /\ clean' = FALSE

----------------------------------------------------------------------------
(***************************************************************************)
(* The mode of the PN53x.                                                  *)
(***************************************************************************)
\* pn53x_writeback_register() before a command, when `held' is the write held
\* back: it works; it fails and is forgotten, done or not; it fails before it
\* has begun and waits for the next one.
WriteBack(held) ==
    /\ chipCrc' = IF held = <<>> THEN chipCrc ELSE Head(held)
    /\ wb_data' = <<>> /\ wb_trigged' = FALSE

WriteBackFails(held) ==
    /\ held # <<>>
    /\ wb_trigged' = FALSE
    /\ \/ wb_data' = <<>> /\ chipCrc' \in {chipCrc, Head(held)}
       \/ wb_data' = held /\ UNCHANGED chipCrc

\* nfc_device_set_property_bool() of the three properties.  The first holds a
\* register write back and the second sends nothing.  The third sends the
\* parameters, unless they are what the chip last confirmed.
Asked(v) ==
    /\ believed' = v
    /\ IF ui8Parameters = v
       THEN /\ Works /\ wb_data' = <<v>> /\ wb_trigged' = TRUE
            /\ UNCHANGED <<chipCrc, chipRats, ui8Parameters>>
       ELSE \/ Works /\ WriteBack(<<v>>) /\ chipRats' = v /\ ui8Parameters' = v
            \/ /\ Fails /\ UNCHANGED ui8Parameters
               /\ \/ WriteBackFails(<<v>>) /\ UNCHANGED chipRats
                  \/ WriteBack(<<v>>) /\ chipRats' \in {chipRats, v}

\* assert(ret >= 0), after each property call.
Continue(label) == pc' = IF Asserts /\ faults' # faults THEN "aborted" ELSE label

----------------------------------------------------------------------------
(***************************************************************************)
(* The card: what a frame does to it, if the chip adds no CRC of its own.  *)
(* A halted card ignores what it does not obey, another one turns idle.    *)
(***************************************************************************)
Obeys(frame) ==
    \/ frame = "halt" /\ card \in {"active", "unlocked"}
    \/ frame = "unlock1" /\ magic /\ card = "halted"
    \/ frame = "unlock2" /\ card = "unlocking"
    \/ frame = "write" /\ card = "unlocked"
    \/ frame = "data" /\ card = "writing"
    \/ frame = "wakeUp" /\ card \in {"halted", "idle"}

AfterFrame ==
    [halt |-> "halted", unlock1 |-> "unlocking", unlock2 |-> "unlocked",
     write |-> "writing", data |-> "unlocked", wakeUp |-> "ready"]

Receives(frame) ==
    /\ card' = IF ~chipCrc' /\ Obeys(frame) THEN AfterFrame[frame]
               ELSE IF card \in {"away", "halted"} THEN card ELSE "idle"
    /\ cardUid' = IF ~chipCrc' /\ Obeys(frame) /\ frame = "data"
                  THEN Uid(new_uid, UidLen) ELSE cardUid

CardMoves ==
    /\ card' = IF card = "away" THEN "idle" ELSE "away"
    /\ clean' = FALSE
    /\ answer' = "none"
    /\ UNCHANGED <<magic, cardUid, mode, flags, user, chip, new_uid, pc, faults>>

----------------------------------------------------------------------------
(***************************************************************************)
(* writeChipUid().                                                         *)
(***************************************************************************)
\* changeUID() only takes UIDs of four bytes.
ChangeUid(uid) ==
    /\ pc = "idle"
    /\ new_uid' = uid /\ pc' = "guard"
    /\ clean' = (magic /\ card = "active" /\ d_chips = cardUid)
    /\ answer' = "none"
    /\ UNCHANGED <<magic, cardUid, card, mode, flags, user, chip, faults>>

\* Mutant of Guard: the transport goes on reporting errors.
GuardOfAdapter ==
    /\ pc = "guard"
    /\ Asked(FALSE) /\ Continue("halt")
    /\ saved' = flags /\ ignoreAdapter' = TRUE
    /\ UNCHANGED <<magic, cardUid, card, ignoreTransport, wanted, chip, new_uid, answer>>

\* WriteUIDConfigGuard().
Guard ==
    /\ pc = "guard"
    /\ Asked(FALSE) /\ Continue("halt")
    /\ IF pc' = "aborted" THEN UNCHANGED <<flags, saved>>
       ELSE saved' = flags /\ ignoreAdapter' = TRUE /\ ignoreTransport' = TRUE
    /\ UNCHANGED <<magic, cardUid, card, wanted, chip, new_uid, answer>>

\* What a command sends before itself, if a write-back is due: all that is held.
Held(due) == IF due THEN wb_data ELSE <<>>

Flush(due) ==
    IF due THEN WriteBack(wb_data) ELSE UNCHANGED <<chipCrc, wb_data, wb_trigged>>

\* A frame whose last byte has another number of bits than that of the frame
\* before it writes BitFraming, and so makes the write-back due: unlock1 and
\* wakeUp have seven bits, all others eight.  Before the first frame of a change
\* there may have been a wakeUp, or another command.
Due(from) ==
    CASE from \in {"unlock1", "unlock2", "wakeUp"} -> {TRUE}
      [] from = "halt"                             -> {wb_trigged, TRUE}
      [] OTHER                                     -> {wb_trigged}

\* One frame, sent by sendCommand() or transmitBits(): neither says whether it
\* was answered.
Frame(from, frame, to) ==
    /\ pc = from /\ pc' = to
    /\ \E due \in Due(from) :
          \/ Works /\ Flush(due) /\ Receives(frame)
          \/ Fails /\ Flush(due) /\ (Receives(frame) \/ UNCHANGED <<card, cardUid>>)
          \/ Fails /\ WriteBackFails(Held(due)) /\ UNCHANGED <<card, cardUid>>
    /\ UNCHANGED <<magic, believed, ui8Parameters, chipRats, flags, user, chip, new_uid,
                   answer>>

\* Mutant of FixInternals: the copy of the target is not stored.
FixIdentifier ==
    /\ pc = "fix" /\ pc' = "restore"
    /\ identifier' = Uid(new_uid, 4)
    /\ UNCHANGED <<magic, cardUid, card, mode, flags, user, d_chips, new_uid, answer,
                   faults, clean>>

\* "We need to fix up our internals to match the new UID" (nfcreaderunit.cpp:636).
\* A chip that was not listed is listed now, with an empty target.
FixInternals ==
    /\ pc = "fix" /\ pc' = "restore"
    /\ d_chips' = Uid(new_uid, IF d_chips = None THEN 0 ELSE d_chips.length)
    /\ identifier' = Uid(new_uid, 4)
    /\ UNCHANGED <<magic, cardUid, card, mode, flags, user, new_uid, answer, faults, clean>>

\* Mutants of Unguard: the error flags are restored the wrong way round; the
\* chip is left in raw mode.
UnguardSwapped ==
    /\ pc = "restore"
    /\ Asked(TRUE) /\ Continue("idle")
    /\ IF pc' = "aborted" THEN UNCHANGED flags
       ELSE ignoreAdapter' = saved[2] /\ ignoreTransport' = saved[1]
    /\ new_uid' = None /\ answer' = "changed"
    /\ UNCHANGED <<magic, cardUid, card, user, chip>>

UnguardFlagsOnly ==
    /\ pc = "restore" /\ pc' = "idle"
    /\ ignoreAdapter' = saved[1] /\ ignoreTransport' = saved[2]
    /\ new_uid' = None /\ answer' = "changed"
    /\ UNCHANGED <<magic, cardUid, card, mode, user, chip, faults, clean>>

\* ~WriteUIDConfigGuard().
Unguard ==
    /\ pc = "restore"
    /\ Asked(TRUE) /\ Continue("idle")
    /\ IF pc' = "aborted" THEN UNCHANGED flags
       ELSE ignoreAdapter' = saved[1] /\ ignoreTransport' = saved[2]
    /\ new_uid' = None /\ answer' = "changed"
    /\ UNCHANGED <<magic, cardUid, card, user, chip>>

----------------------------------------------------------------------------
(***************************************************************************)
(* The other calls, each in one step: NfcReaderUnit has their details.     *)
(***************************************************************************)
Idle == pc = "idle" /\ UNCHANGED <<pc, new_uid>>

\* The calls before the listing of refreshChipList().  What libnfc believes is
\* not asked for again, but a write to the same registers sends what it holds.
Refresh ==
    /\ Idle
    /\ \/ Works /\ WriteBack(wb_data) /\ answer' = "refreshed"
       \/ /\ Fails /\ answer' = "threw"
          /\ Flush(wb_trigged) \/ WriteBack(wb_data) \/ WriteBackFails(wb_data)
    /\ card' = IF card = "away" THEN "away" ELSE "idle"
    /\ UNCHANGED <<magic, cardUid, believed, ui8Parameters, chipRats, flags, user, chip>>

\* connect() selects the UID of d_chips and gives it to the chip.
Connect ==
    /\ Idle
    /\ d_chips # None /\ d_chips.length # 0
    /\ \/ /\ Works /\ Flush(wb_trigged)
          /\ answer' = IF card # "away" /\ cardUid = d_chips THEN "connected" ELSE "refused"
       \/ /\ Fails /\ answer' \in {"refused", "threw"}
          /\ Flush(wb_trigged) \/ WriteBackFails(Held(wb_trigged))
    /\ card' = CASE answer' = "connected" -> "active"
                 [] card = "away"         -> "away"
                 [] OTHER                 -> "halted"
    /\ identifier' = IF answer' = "connected" THEN d_chips ELSE identifier
    /\ UNCHANGED <<magic, cardUid, believed, ui8Parameters, chipRats, flags, user, d_chips>>

\* waitRemoval() forgets the chip, which the caller may still hold.
WaitRemoval ==
    /\ Idle
    /\ d_chips' = None /\ answer' = "none"
    /\ UNCHANGED <<magic, cardUid, card, mode, flags, user, identifier, faults, clean>>

IgnoreAllError(adapter, transport) ==
    /\ Idle
    /\ ignoreAdapter' = adapter /\ ignoreTransport' = transport
    /\ wanted' = <<adapter, transport>> /\ answer' = "none"
    /\ UNCHANGED <<magic, cardUid, card, mode, saved, chip, faults, clean>>

----------------------------------------------------------------------------
\* The unit is connected to the card, which waitInsertion() has listed.
Init ==
    /\ magic \in BOOLEAN /\ (UidLen = 7 => ~magic)
    /\ \E head \in Uids : cardUid = Uid(head, UidLen)
    /\ card = "active"
    /\ believed = TRUE /\ ui8Parameters = TRUE /\ chipCrc = TRUE /\ chipRats = TRUE
    /\ wb_data = <<>> /\ wb_trigged = FALSE
    /\ ignoreAdapter = FALSE /\ ignoreTransport = FALSE
    /\ saved = <<FALSE, FALSE>> /\ wanted = <<FALSE, FALSE>>
    /\ d_chips = cardUid /\ identifier = cardUid
    /\ new_uid = None /\ pc = "idle" /\ answer = "none"
    /\ faults = 0 /\ clean = FALSE

Caller ==
    \/ \E uid \in Uids : ChangeUid(uid)
    \/ Refresh \/ Connect \/ WaitRemoval
    \/ \E adapter, transport \in BOOLEAN : IgnoreAllError(adapter, transport)

Step ==
    \/ Guard
    \/ Frame("halt", "halt", "unlock1")
    \/ Frame("unlock1", "unlock1", "unlock2") \/ Frame("unlock2", "unlock2", "write")
    \/ Frame("write", "write", "data") \/ Frame("data", "data", "haltAgain")
    \/ Frame("haltAgain", "halt", "wakeUp") \/ Frame("wakeUp", "wakeUp", "fix")
    \/ FixInternals
    \/ Unguard

Next == CardMoves \/ Caller \/ Step

Spec == Init /\ [][Next]_vars

----------------------------------------------------------------------------
RawSteps == {"halt", "unlock1", "unlock2", "write", "data", "haltAgain", "wakeUp"}

AllUids == {Uid(head, length) : head \in Uids, length \in {0, 4, 7}}

\* Every variable holds a value of its kind, and raw frames are sent only in raw
\* mode, as libnfc believes it, and in silence.
TypeOK ==
    /\ {magic, believed, ui8Parameters, chipCrc, chipRats, wb_trigged, ignoreAdapter,
        ignoreTransport, clean} \subseteq BOOLEAN
    /\ {saved, wanted} \subseteq BOOLEAN \X BOOLEAN
    /\ cardUid \in AllUids /\ identifier \in AllUids /\ d_chips \in AllUids \cup {None}
    /\ card \in {"away", "idle", "active", "halted", "unlocking", "unlocked", "writing", "ready"}
    /\ wb_data \in {<<>>} \cup {<<b>> : b \in BOOLEAN}
    /\ wb_trigged => wb_data # <<>>
    /\ new_uid \in Uids \cup {None}
    /\ pc \in RawSteps \cup {"idle", "guard", "fix", "restore", "aborted"}
    /\ faults \in 0 .. MaxFaults
    /\ pc \in RawSteps => ~believed /\ ignoreAdapter /\ ignoreTransport

\* "In the destructor, returns the configuration is more normal mode"
\* (WriteUIDConfigGuard, nfcreaderunit.hpp:255): the PN53x is in its normal mode
\* whenever no change of a UID runs, whatever failed while one did.
NormalModeRestored == pc = "idle" => chipCrc /\ chipRats

\* The silence about errors ends with the call: whenever none runs, the adapter
\* and the transport ignore errors exactly as the user told each of them to.
SilenceEnds == pc = "idle" => flags = wanted

\* A change that nothing disturbed, of a magic card that was connected: the card
\* has the new UID, is awake, and can be connected by what the unit lists.
ChangeIsComplete ==
    [][pc = "restore" /\ pc' = "idle" /\ clean'
          => /\ cardUid' = Uid(new_uid, 4) /\ card' = "ready"
             /\ d_chips' = cardUid' /\ identifier' = cardUid']_vars

\* nfc_initiator_init(): "Crc is handled by the device", "Auto-switching in
\* ISO14443-4 mode is enabled" (nfc.c:439 and 443): a refresh that succeeds leaves
\* the chip in its normal mode.
RefreshNormalises == answer = "refreshed" => chipCrc /\ chipRats
=============================================================================
