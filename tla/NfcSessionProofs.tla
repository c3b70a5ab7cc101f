-------------------------- MODULE NfcSessionProofs --------------------------
(***************************************************************************)
(* Theorems about NfcSession, for any cards, chips and number of errors.   *)
(* A session takes the steps of its unit or leaves the unit alone: what    *)
(* NfcReaderUnitProofs proves of a unit with commands holds in every       *)
(* session.                                                                *)
(***************************************************************************)
EXTENDS NfcSession, NfcReaderUnitRefinement, CardTypesProofs

LEMMA SessionStepsUnit == [SessionNext]_sessionVars => [Next]_vars
BY DEF SessionNext, Moves, Calls, Runs, SendCommand, Sends, Transceive,
       AuthenticationRefused, Resume, sessionVars,
       Next, Environment, Caller, Step, LibnfcCall

LEMMA SessionIsUnit == SessionSpec => Spec
BY SessionStepsUnit, PTL DEF SessionSpec, SessionInit, Spec

----------------------------------------------------------------------------
\* Every FeliCa card is of a known type: the first row of the table is for all.
LEMMA FelicaIsSupported == Tags \ TypeA \subseteq Supported
<1> SUFFICES ASSUME NEW t \in Tags, t \notin TypeA PROVE t \in Supported
  OBVIOUS
<1>1. TargetOf[t] \in Targets /\ TargetOf[t].nmt = "FELICA"
  <2>1. TargetOf[t] \in Targets
    BY SessionAssumption DEF SessionAssumption
  <2>2. TargetOf[t].nmt # "ISO14443A"
    <3> HIDE DEF TypeOf
    <3> QED BY SessionAssumption, Zenon DEF SessionAssumption
  <2> QED BY <2>1, <2>2 DEF Targets
<1>2. 1 \in DOMAIN supported_tags /\ supported_tags[1] = Row("FeliCA", "FELICA", 0, 0, << >>)
  BY DEF supported_tags
<1>3. CardType(TargetOf[t]) = "FeliCA"
  <2>1. Matches(supported_tags[1], TargetOf[t]) /\ supported_tags[1].card_type = "FeliCA"
    BY <1>1, <1>2 DEF Matches, Row
  <2> QED BY <1>1, <1>2, <2>1, CardTypeUnambiguous
<1>4. TypeOf(t) # ""
  BY <1>3, Zenon DEF TypeOf
<1> HIDE DEF TypeOf
<1> QED BY <1>4, SessionAssumption, Zenon DEF SessionAssumption

\* The table of card types is what the unit alone has to assume: in a session
\* waitInsertion() gives up only if there is no card it could have seen
\* (TimeoutIsReal), whatever cards and commands there are.
THEOREM SessionTimeoutReal == SessionSpec => TimeoutIsReal
BY SessionIsUnit, TimeoutReal, FelicaIsSupported, PTL

\* A session implements CardSlot with commands: a command may break the link, which
\* libnfc then knows and the unit does not; it does nothing else to what the unit
\* promises a careful user, nor does the connect() inside of it.
THEOREM SessionImplementsSlot ==
    ASSUME Careful
    PROVE  SessionSpec => ImplementsSlot
BY SessionIsUnit, UnitImplementsSlot, PTL

----------------------------------------------------------------------------
LEMMA CheckerKinds ==
    ASSUME NEW type
    PROVE  CheckerOf(type) \in {"ISO7816ResultChecker", "DESFireISO7816ResultChecker"}
BY DEF CheckerOf

LEMMA SessionTypeStep ==
    TypeOK /\ SessionTypeOK /\ [SessionNext]_sessionVars => SessionTypeOK'
<1> SUFFICES ASSUME TypeOK, SessionTypeOK, [SessionNext]_sessionVars PROVE SessionTypeOK'
  OBVIOUS
<1> USE UnitAssumption DEF UnitAssumption, SessionTypeOK, objects, command
<1>0. /\ field \subseteq Tags
      /\ Inserted \in Tags \cup {NoTag}
      /\ d_chips \in [ChipIds -> Tags \cup {NoTag}]
  BY DEF TypeOK, Ranges, Inserted, Listed
<1>1. CASE Moves
  BY <1>1 DEF Moves
<1>2. CASE Calls
  BY <1>2 DEF Calls
<1>3. CASE Runs
  <2>1. active' \in Tags \cup {NoTag}
    BY <1>0, <1>3 DEF Runs, Listens
  <2>2. identifier' \in [ChipIds -> Tags \cup {NoTag}]
    <3>1. ASSUME NEW c \in ChipIds PROVE Identified(c) \in Tags \cup {NoTag}
      BY <1>0 DEF Identified, SerialNumber
    <3> QED BY <1>3, <3>1 DEF Runs, CreateChips
  <2>3. checker' \in {"none", "ISO7816ResultChecker", "DESFireISO7816ResultChecker"}
    BY <1>3, CheckerKinds DEF Runs, CreateChips
  <2> QED BY <1>3, <2>1, <2>2, <2>3 DEF Runs
<1>4. ASSUME NEW c \in ChipIds, SendCommand(c) PROVE SessionTypeOK'
  BY <1>4 DEF SendCommand
<1>5. CASE Sends
  BY <1>5 DEF Sends, Transceive, AuthenticationRefused, Resume
<1>6. CASE UNCHANGED sessionVars
  BY <1>6 DEF sessionVars
<1> QED BY <1>1, <1>2, <1>3, <1>4, <1>5, <1>6 DEF SessionNext

\* SessionTypeOK, for careful and careless users.
THEOREM SessionTypeCorrect == SessionSpec => []SessionTypeOK
<1>1. SessionInit => SessionTypeOK
  BY DEF SessionInit, SessionTypeOK
<1> QED BY <1>1, SessionTypeStep, SessionIsUnit, TypeCorrect, PTL DEF SessionSpec

----------------------------------------------------------------------------
(***************************************************************************)
(* What a step of a careful session does to the chips, to the card that    *)
(* listens, and to the chip objects.                                       *)
(***************************************************************************)
Quiet ==
    /\ UNCHANGED <<d_chips, d_insertedChip, objects>>
    /\ d_chip_connected' => d_chip_connected /\ active' \in {active, NoTag}

Refreshes ==
    /\ ~d_chip_connected
    /\ UNCHANGED <<d_insertedChip, d_chip_connected, identifier>>
    /\ AddChips(found \cap Supported) /\ CreateChips

Picks == PickChip /\ ~d_chip_connected /\ UNCHANGED objects

Links ==
    /\ d_chip_connected' /\ Selectable /\ active' = Inserted
    /\ UNCHANGED <<d_chips, d_insertedChip, checker>>
    /\ identifier' = [c \in ChipIds |-> Identified(c)]

Misses ==
    /\ ~d_chip_connected'
    /\ \/ UNCHANGED <<d_chips, d_insertedChip>>
       \/ d_chips' = [c \in ChipIds |-> NoTag] /\ d_insertedChip' = NoChip
    /\ UNCHANGED checker
    /\ identifier' = [c \in ChipIds |-> Identified(c)]

SessionOutcome == Quiet \/ Refreshes \/ Picks \/ Links \/ Misses

LEMMA SessionOutcomes ==
    ASSUME Careful, UnitInv, [SessionNext]_sessionVars
    PROVE  SessionOutcome
<1> USE DEF SessionOutcome, Quiet, objects, chips
<1>0. Control /\ Linked
  BY DEF UnitInv
<1>1. CASE Moves
  BY <1>1 DEF Moves, CardEnters, CardLeaves, MaxwaitElapses
<1>2. CASE Calls
  BY <1>2 DEF Calls, ConnectToReader, DisconnectFromReader, WaitInsertion, WaitRemoval,
             Connect, Disconnect
<1>3. CASE Runs
  <2>1. CASE (\/ ListPassiveTargets("armA", "pollA") \/ ListPassiveTargets("armF", "pollF")
              \/ LimitRetries \/ StartInsertion \/ CheckRemoval \/ Crash)
             /\ UNCHANGED <<active, objects>>
    BY <2>1 DEF ListPassiveTargets, LimitRetries, StartInsertion, CheckRemoval, Crash
  <2>2. CASE PickChip /\ UNCHANGED objects
    BY <1>0, <2>2 DEF PickChip, Picks, Control, Linked
  <2>3. CASE (InitReader \/ FindNoA \/ Deselect \/ Reselect \/ FindF \/ \E t \in Tags : FindA(t))
             /\ UNCHANGED objects
    BY <1>0, <2>3 DEF InitReader, FindNoA, FindF, FindA, Deselect, Reselect, Control, Linked
  <2>4. ASSUME NEW from \in {"restoreA", "restoreF"}, NEW to, RestoreRetries(from, to),
               CreateChips, UNCHANGED active
        PROVE  SessionOutcome
    <3>1. op = "waitInsertion" /\ ~d_chip_connected
      BY <1>0, <2>4 DEF RestoreRetries, Control, Linked
    <3>2. CASE UNCHANGED d_chips
      <4>1. Created = {}
        BY <3>2 DEF Created, Listed
      <4> QED BY <2>4, <3>1, <3>2, <4>1 DEF RestoreRetries, CreateChips
    <3>3. CASE AddChips(found \cap Supported)
      BY <2>4, <3>1, <3>3 DEF RestoreRetries, Refreshes, CreateChips
    <3> QED BY <2>4, <3>2, <3>3 DEF RestoreRetries
  <2>5. CASE /\ d_device /\ SelectByUid
             /\ Listens(IF d_chip_connected' THEN Inserted ELSE NoTag, field \cap {Inserted})
             /\ identifier' = [c \in ChipIds |-> Identified(c)]
             /\ UNCHANGED checker
    <3>1. CASE Connected(TRUE) /\ Works
      BY <1>0, <2>5, <3>1 DEF SelectByUid, Connected, Works, Listens, Control, Links
    <3>2. CASE Connected(FALSE)
      BY <2>5, <3>2 DEF Connected, Misses
    <3> QED BY <2>5, <3>1, <3>2 DEF SelectByUid
  <2>6. CASE /\ Refuse /\ UNCHANGED active
             /\ identifier' = [c \in ChipIds |-> Identified(c)]
             /\ UNCHANGED checker
    BY <2>6 DEF Refuse, Connected, Misses
  <2> QED BY <1>3, <2>1, <2>2, <2>3, <2>4, <2>5, <2>6 DEF Runs
<1>4. ASSUME NEW c \in ChipIds, SendCommand(c) PROVE SessionOutcome
  BY <1>4 DEF SendCommand, vars
<1>5. CASE Sends
  BY <1>5 DEF Sends, Transceive, TargetReleased, AuthenticationRefused, Resume, Connect, vars
<1>6. CASE UNCHANGED sessionVars
  BY <1>6 DEF sessionVars, vars
<1> QED BY <1>1, <1>2, <1>3, <1>4, <1>5, <1>6 DEF SessionNext

----------------------------------------------------------------------------
(***************************************************************************)
(* The invariant of a careful session.                                     *)
(***************************************************************************)
\* Where a command stands.
CommandStands ==
    /\ stage = "transceive" => /\ pc = "idle" /\ op = "none"
                               /\ d_chip_connected
                               /\ sending = d_insertedChip /\ sending \in Listed
    /\ stage = "reselect" => op = "none" \/ (op = "connect" /\ Selectable)

\* Only the inserted card can listen while the unit is connected.
Listening == d_chip_connected => Selectable /\ active \in {Inserted, NoTag}

Names ==
    /\ \A c \in ChipIds : identifier[c] \in {NoTag, d_chips[c]}
    /\ d_chip_connected => identifier[d_insertedChip] = Inserted

\* The checker is that of one of the chips.
Checks == Listed # {} => \E c \in Listed : checker = CheckerOf(TypeOf(d_chips[c]))

SessionInv == CommandStands /\ Listening /\ Names /\ Checks

LEMMA CommandStandsStep ==
    ASSUME Careful, UnitInv, CommandStands, Listening, [SessionNext]_sessionVars
    PROVE  CommandStands'
<1> USE DEF CommandStands, chips, device, call, hist, command
<1>0. TypeOK /\ Control /\ Linked
  BY DEF UnitInv
<1>1. CASE Moves
  BY <1>1 DEF Moves, CardEnters, CardLeaves, MaxwaitElapses, Listed, Selectable, Inserted
<1>2. CASE Calls
  BY <1>2 DEF Calls
<1>3. CASE Runs
  <2>1. stage # "transceive"
    BY <1>3 DEF Runs, ListPassiveTargets, LimitRetries, StartInsertion, PickChip, CheckRemoval,
                Crash, DeviceCalls, InitReader, FindNoA, Deselect, Reselect, FindA, FindF,
                RestoreRetries, SelectByUid, Refuse
  <2>2. op' \in {op, "none"}
    BY <1>3 DEF Runs, ListPassiveTargets, LimitRetries, StartInsertion, PickChip, CheckRemoval,
                Crash, InitReader, FindNoA, Deselect, Reselect, FindA, FindF,
                RestoreRetries, SelectByUid, Refuse, Connected, Goto, Return
  <2>3. op = "connect" /\ op' = "connect" => UNCHANGED <<d_chips, d_insertedChip>>
    BY <1>0, <1>3 DEF Control, Runs, ListPassiveTargets, LimitRetries, StartInsertion, PickChip,
                CheckRemoval, Crash, InitReader, FindNoA, Deselect, Reselect, FindA, FindF,
                RestoreRetries, SelectByUid, Refuse, Connected, Goto, Return
  <2>4. op = "connect" /\ op' = "connect" /\ Selectable => Selectable'
    BY <2>3 DEF Selectable, Inserted, Listed
  <2>5. UNCHANGED <<sending, stage>>
    BY <1>3 DEF Runs
  <2> QED BY <2>1, <2>2, <2>4, <2>5
<1>4. ASSUME NEW c \in ChipIds, SendCommand(c) PROVE CommandStands'
  <2>1. d_chip_connected /\ c \in SingleChip /\ c \in Listed /\ Idle
    BY <1>4 DEF SendCommand
  <2>2. Inserted \in Tags
    BY <1>0, <2>1 DEF Linked
  <2>3. d_insertedChip # NoChip
    BY <2>2, UnitAssumption DEF UnitAssumption, Inserted, Listed
  <2> QED BY <1>4, <2>1, <2>3 DEF SendCommand, SingleChip, Idle, vars, Listed
<1>5. CASE Sends
  BY <1>5 DEF Sends, Transceive, TargetReleased, AuthenticationRefused, Resume, Connect, Begin,
              Listening, Selectable, Inserted, Listed
<1>6. CASE UNCHANGED sessionVars
  BY <1>6 DEF sessionVars, vars, Listed, Selectable, Inserted
<1> QED BY <1>1, <1>2, <1>3, <1>4, <1>5, <1>6 DEF SessionNext

LEMMA ListeningStep ==
    ASSUME Careful, UnitInv, Listening, [SessionNext]_sessionVars
    PROVE  Listening'
<1> USE DEF Listening, Selectable, Inserted, Listed
<1>1. CASE Quiet
  BY <1>1 DEF Quiet
<1>2. CASE Refreshes
  BY <1>2 DEF Refreshes
<1>3. CASE Picks
  BY <1>3 DEF Picks, PickChip
<1>4. CASE Links
  BY <1>4 DEF Links
<1>5. CASE Misses
  BY <1>5 DEF Misses
<1> QED BY <1>1, <1>2, <1>3, <1>4, <1>5, SessionOutcomes DEF SessionOutcome

LEMMA NamesStep ==
    ASSUME Careful, UnitInv, SessionTypeOK, Names, [SessionNext]_sessionVars
    PROVE  Names'
<1>0. TypeOK /\ InsertedIsListed
  BY DEF UnitInv
<1>1. CASE Quiet
  BY <1>1 DEF Quiet, Names, Inserted, Listed, objects
<1>2. CASE Refreshes
  <2>1. ASSUME NEW c \in ChipIds PROVE identifier'[c] \in {NoTag, d_chips'[c]}
    <3>1. CASE c \in Listed
      BY <1>0, <1>2, <2>1, <3>1, AddChipsKeeps DEF Refreshes, Names
    <3>2. CASE c \notin Listed
      BY <1>2, <2>1, <3>2 DEF Refreshes, Names, Listed
    <3> QED BY <3>1, <3>2
  <2> QED BY <1>2, <2>1 DEF Refreshes, Names
<1>3. CASE Picks
  BY <1>3 DEF Picks, PickChip, Names, objects
<1>4. ASSUME identifier' = [c \in ChipIds |-> Identified(c)],
             UNCHANGED <<d_chips, d_insertedChip>>,
             d_chip_connected' => d_insertedChip \in Listed
      PROVE  Names'
  <2>1. ASSUME NEW c \in ChipIds PROVE identifier'[c] \in {NoTag, d_chips'[c]}
    BY <1>4, <2>1 DEF Identified, SerialNumber, Names
  <2>2. ASSUME d_chip_connected' PROVE identifier'[d_insertedChip] = Inserted
    BY <1>4, <2>2 DEF Identified, SerialNumber, Inserted, Listed
  <2> QED BY <1>4, <2>1, <2>2 DEF Names, Inserted, Listed
<1>5. CASE Links
  <2>1. d_insertedChip \in Listed
    BY <1>5, UnitAssumption DEF UnitAssumption, Links, Selectable, Inserted
  <2> QED BY <1>4, <1>5, <2>1 DEF Links
<1>6. CASE Misses
  <2>1. CASE d_chips' = [c \in ChipIds |-> NoTag]
    <3>1. ASSUME NEW c \in ChipIds PROVE identifier'[c] = NoTag
      BY <1>6, <2>1, <3>1 DEF Misses, Identified
    <3> QED BY <1>6, <2>1, <3>1 DEF Misses, Names
  <2> QED BY <1>4, <1>6, <2>1 DEF Misses
<1> QED BY <1>1, <1>2, <1>3, <1>5, <1>6, SessionOutcomes DEF SessionOutcome

LEMMA ChecksStep ==
    ASSUME Careful, UnitInv, Checks, [SessionNext]_sessionVars
    PROVE  Checks'
<1>0. TypeOK
  BY DEF UnitInv
<1>1. CASE Quiet
  BY <1>1 DEF Quiet, Checks, Listed, objects
<1>2. CASE Refreshes
  <2>1. CASE Created = {}
    <3>1. Listed' = Listed /\ checker' = checker
      <4>1. Listed \subseteq Listed'
        BY <1>0, <1>2, AddChipsKeeps DEF Refreshes
      <4>2. Listed' \subseteq Listed
        BY <2>1 DEF Created, Listed
      <4>3. checker' = checker
        BY <1>2, <2>1 DEF Refreshes, CreateChips
      <4> QED BY <4>1, <4>2, <4>3
    <3>2. \A c \in Listed : d_chips'[c] = d_chips[c]
      BY <1>0, <1>2, AddChipsKeeps DEF Refreshes
    <3> QED BY <3>1, <3>2 DEF Checks
  <2>2. CASE Created # {}
    <3>1. PICK c \in Created : checker' = CheckerOf(TypeOf(d_chips'[c]))
      BY <1>2, <2>2 DEF Refreshes, CreateChips
    <3> QED BY <3>1 DEF Checks, Created, Listed
  <2> QED BY <2>1, <2>2
<1>3. CASE Picks
  BY <1>3 DEF Picks, PickChip, Checks, Listed, objects
<1>4. CASE Links
  BY <1>4 DEF Links, Checks, Listed
<1>5. CASE Misses
  BY <1>5 DEF Misses, Checks, Listed
<1> QED BY <1>1, <1>2, <1>3, <1>4, <1>5, SessionOutcomes DEF SessionOutcome

LEMMA SessionInvariant ==
    ASSUME Careful
    PROVE  SessionSpec => [](SessionInv /\ UnitInv /\ SessionTypeOK)
<1>1. SessionInit => SessionInv
  BY DEF SessionInit, Init, SessionInv, CommandStands, Listening, Names, Checks, Listed
<1>2. UnitInv /\ SessionTypeOK /\ SessionInv /\ [SessionNext]_sessionVars => SessionInv'
  BY CommandStandsStep, ListeningStep, NamesStep, ChecksStep DEF SessionInv
<1>3. SessionSpec => []UnitInv
  BY SessionIsUnit, UnitInvariant, PTL
<1> QED BY <1>1, <1>2, <1>3, SessionTypeCorrect, PTL DEF SessionSpec

----------------------------------------------------------------------------
\* A libnfc call is made with a device, and none is closed while a command runs.
LEMMA DeviceOfCommandStep ==
    ASSUME Careful, CommandsHaveDevice, [SessionNext]_sessionVars
    PROVE  CommandsHaveDevice'
<1> USE DEF CommandsHaveDevice, chips, command
<1>1. CASE Moves
  BY <1>1 DEF Moves, CardEnters, CardLeaves, MaxwaitElapses
<1>2. CASE Calls
  BY <1>2 DEF Calls, ConnectToReader, DisconnectFromReader, WaitInsertion, WaitRemoval,
             Connect, Disconnect
<1>3. CASE Runs
  <2>1. UNCHANGED <<d_device, stage>>
    BY <1>3 DEF Runs, ListPassiveTargets, LimitRetries, StartInsertion, PickChip, CheckRemoval,
                Crash, InitReader, FindNoA, Deselect, Reselect, FindA, FindF, RestoreRetries,
                SelectByUid, Refuse
  <2>2. d_chip_connected' => d_chip_connected \/ d_device
    <3>1. CASE Refuse
      BY <3>1, Zenon DEF Refuse, Connected
    <3>2. CASE ~Refuse /\ ~d_device
      BY <1>3, <3>2 DEF Runs, StartInsertion, PickChip, CheckRemoval, Crash
    <3> QED BY <3>1, <3>2
  <2> QED BY <2>1, <2>2
<1>4. ASSUME NEW c \in ChipIds, SendCommand(c) PROVE CommandsHaveDevice'
  BY <1>4 DEF SendCommand, vars
<1>5. CASE Sends
  BY <1>5 DEF Sends, Transceive, TargetReleased, AuthenticationRefused, Resume, Connect, vars
<1>6. CASE UNCHANGED sessionVars
  BY <1>6 DEF sessionVars, vars
<1> QED BY <1>1, <1>2, <1>3, <1>4, <1>5, <1>6 DEF SessionNext

\* CommandsHaveDevice, for a careful user: NFCDataTransport::send() never reads
\* through a null device.
THEOREM CommandsMeetDevice ==
    ASSUME Careful
    PROVE  SessionSpec => []CommandsHaveDevice
<1>1. SessionInit => CommandsHaveDevice
  BY DEF SessionInit, Init, CommandsHaveDevice
<1> QED BY <1>1, DeviceOfCommandStep, PTL DEF SessionSpec

----------------------------------------------------------------------------
\* AnsweredByOwnCard, for a careful user: no command reaches a card it is not
\* meant for.
THEOREM OwnCardAnswers ==
    ASSUME Careful
    PROVE  SessionSpec => []AnsweredByOwnCard
<1>1. SessionInv => AnsweredByOwnCard
  BY DEF SessionInv, CommandStands, Listening, Inserted, AnsweredByOwnCard
<1> QED BY <1>1, SessionInvariant, PTL

\* IdentifierKnown, for a careful user: authenticate() finds the UID it needs.
THEOREM IdentifiersKnown ==
    ASSUME Careful
    PROVE  SessionSpec => []IdentifierKnown
<1>1. SessionInv => IdentifierKnown
  BY DEF SessionInv, CommandStands, Names, Inserted, IdentifierKnown, SerialNumber, Listed
<1> QED BY <1>1, SessionInvariant, PTL

\* OwnChecker, for a careful user: chips of one kind have their own checker.
THEOREM CheckersFit ==
    ASSUME Careful
    PROVE  SessionSpec => []OwnChecker
<1>1. SessionInv => OwnChecker
  BY DEF SessionInv, Checks, OwnChecker
<1> QED BY <1>1, SessionInvariant, PTL

\* ReselectRecovers, for a careful user: the connect() that send() calls after a
\* refused authentication selects the card again, if it is there.
THEOREM ReselectionRecovers ==
    ASSUME Careful
    PROVE  SessionSpec => ReselectRecovers
<1> DEFINE Sound == SessionInv /\ UnitInv /\ History
<1>1. SessionSpec => []Sound
  <2>1. Spec => []History
    BY AnswerInvariant, PTL DEF AnswerInv
  <2> QED BY <2>1, SessionInvariant, SessionIsUnit, PTL
<1>2. ASSUME Sound, SessionNext, stage = "reselect", op = "connect", op' = "none"
      PROVE  IF d_chip_connected' THEN active' = Inserted
             ELSE ~Undisturbed \/ Inserted \in gone
  <2> USE <1>2 DEF Return, Goto, call, hist
  <2>0. /\ Control /\ TypeOK /\ Selectable
        /\ faultsBefore \in Nat /\ faults \in Nat /\ faultsBefore <= faults
        /\ Tags \ field \subseteq gone
    BY UnitAssumption DEF UnitAssumption, SessionInv, CommandStands, UnitInv, TypeOK, Ranges,
                          History
  <2>1. ASSUME Fails PROVE ~Undisturbed
    BY <2>0, <2>1 DEF Fails, Undisturbed
  <2>2. CASE LimitRetries
    BY <2>1, <2>2 DEF LimitRetries
  <2>3. CASE Refuse
    BY <2>0, <2>3 DEF Refuse, Control
  <2>4. CASE /\ SelectByUid
             /\ Listens(IF d_chip_connected' THEN Inserted ELSE NoTag, field \cap {Inserted})
    <3>1. CASE Connected(TRUE) /\ Works
      BY <2>4, <3>1 DEF Connected, Works, Listens
    <3>2. CASE Connected(FALSE) /\ Fails
      BY <2>1, <3>2 DEF Connected
    <3>3. CASE Connected(FALSE) /\ Inserted \notin field
      <4>1. Inserted \in Tags
        BY <2>0, <2>4, UnitAssumption DEF UnitAssumption, SelectByUid, Control, Selectable
      <4> QED BY <2>0, <3>3, <4>1 DEF Connected
    <3> QED BY <2>4, <3>1, <3>2, <3>3 DEF SelectByUid
  <2> QED
    BY <2>0, <2>2, <2>3, <2>4
    DEF Control, SessionNext, Moves, CardEnters, CardLeaves, MaxwaitElapses,
        Calls, ConnectToReader, DisconnectFromReader, WaitInsertion, WaitRemoval, Connect,
        Disconnect, Immediate, Begin, Idle, Runs, ListPassiveTargets, StartInsertion, PickChip,
        CheckRemoval, Crash, InitReader, FindNoA, Deselect, Reselect, FindA, FindF,
        RestoreRetries, SendCommand, Sends, Transceive, TargetReleased, AuthenticationRefused,
        Resume, vars
<1> QED BY <1>1, <1>2, PTL DEF SessionSpec, ReselectRecovers
=============================================================================
