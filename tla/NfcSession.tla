----------------------------- MODULE NfcSession -----------------------------
(***************************************************************************)
(* A session with one reader unit: the unit of NfcReaderUnit, the chip     *)
(* objects its createChip() makes, and the commands sent through them.     *)
(* All chips of a unit share one card adapter, one data transport and one  *)
(* device.  A command says nothing about the card it is meant for: the     *)
(* card that listens, if any, takes it.                                    *)
(*                                                                         *)
(* What the commands do to a Mifare Classic card is MifareNFCCommands'     *)
(* business; here, a command is answered or not, or it is an               *)
(* authentication that is refused, after which NFCDataTransport::send()    *)
(* calls connect() of the unit, step by step.                              *)
(***************************************************************************)
EXTENDS NfcReaderUnit, CardTypes

CONSTANT TargetOf   \* card |-> its nfc_target

TypeOf(t) == CardType(TargetOf[t])

ASSUME SessionAssumption ==
    /\ Commands = TRUE
    /\ TargetOf \in [Tags -> Targets]
    /\ TypeA = {t \in Tags : TargetOf[t].nmt = "ISO14443A"}
    /\ Supported = {t \in Tags : TypeOf(t) # ""}

VARIABLES
    active,       \* the card that listens to the next command, or NoTag
    identifier,   \* chip |-> getChipIdentifier(): NoTag if empty, else a UID
    checker,      \* the result checker of the one card adapter
    sending,      \* the chip through which a command is sent, or NoChip
    stage         \* "none"; "transceive"; "reselect", while connect() runs in
                  \* send(); "crashed"

objects     == <<identifier, checker>>
command     == <<sending, stage>>
sessionVars == <<vars, active, objects, command>>

----------------------------------------------------------------------------
\* getSingleChip(): the inserted chip, or else the first of the list.
SingleChip ==
    IF d_insertedChip # NoChip THEN {d_insertedChip}
    ELSE {c \in Listed : \A b \in Listed : c <= b}

HasCommands(c) == CommandsOf(TypeOf(d_chips[c])) # "none"

\* getCardSerialNumber(), which getNumber() of a listed chip returns.
SerialNumber(c) == d_chips[c]

\* The card that listens after a libnfc call that works is `sure'; one that fails
\* may have had its effect or not.
Listens(sure, unsure) ==
    active' \in IF faults' = faults THEN {sure} ELSE {active, NoTag} \cup unsure

\* Mutant of Identified: connect() leaves the identifier alone.
NotIdentified(c) == IF d_chips'[c] = NoTag THEN NoTag ELSE identifier[c]

\* connect() names the inserted chip once its card is selected; a chip that was
\* forgotten, and one that is new, has no name.
Identified(c) ==
    IF d_chips'[c] = NoTag THEN NoTag
    ELSE IF c = d_insertedChip /\ d_chip_connected' THEN SerialNumber(c)
    ELSE identifier[c]

\* The chips a refresh creates.
Created == {c \in ChipIds \ Listed : d_chips'[c] # NoTag}

\* Mutant of CreateChips: the adapter keeps the checker it has.
CreateChipsKeepingChecker ==
    /\ checker' \in IF checker # "none" \/ Created = {} THEN {checker}
                    ELSE {CheckerOf(TypeOf(d_chips'[c])) : c \in Created}
    /\ UNCHANGED identifier

\* createChip() replaces the checker of the shared adapter: the last one stays,
\* and the order of the candidates is the order in which the cards answered.
CreateChips ==
    /\ checker' \in IF Created = {} THEN {checker}
                    ELSE {CheckerOf(TypeOf(d_chips'[c])) : c \in Created}
    /\ UNCHANGED identifier

----------------------------------------------------------------------------
\* The environment.  A card that leaves stops listening.
Moves ==
    /\ \/ \E t \in Tags : CardEnters(t) /\ UNCHANGED active
       \/ \E t \in Tags : CardLeaves(t) /\ active' = IF active = t THEN NoTag ELSE active
       \/ MaxwaitElapses /\ UNCHANGED active
    /\ UNCHANGED <<objects, command>>

\* A public call of the unit; opening the reader may or may not reset the field.
Calls ==
    /\ stage = "none"
    /\ \/ ConnectToReader /\ active' \in {active, NoTag}
       \/ DisconnectFromReader /\ active' = IF d_device THEN NoTag ELSE active
       \/ /\ \/ \E wait \in {0, 1} : WaitInsertion(wait) \/ WaitRemoval(wait)
             \/ Connect \/ Disconnect
          /\ UNCHANGED active
    /\ UNCHANGED <<objects, command>>

\* The steps of the call that runs: a property call, a local step, or one that
\* changes which card listens.
Runs ==
    /\ \/ /\ \/ d_device /\ (\/ ListPassiveTargets("armA", "pollA")
                             \/ ListPassiveTargets("armF", "pollF")
                             \/ LimitRetries)
             \/ StartInsertion \/ PickChip \/ CheckRemoval \/ Crash
          /\ UNCHANGED <<active, objects>>
       \/ /\ d_device
          /\ \/ (InitReader \/ FindNoA \/ Deselect \/ Reselect) /\ Listens(NoTag, {})
             \/ \E t \in Tags : FindA(t) /\ Listens(IF t \in found THEN t ELSE NoTag, {t})
             \/ FindF /\ Listens(NoTag, field \ TypeA)
          /\ UNCHANGED objects
       \/ /\ d_device
          /\ RestoreRetries("restoreA", "armF") \/ RestoreRetries("restoreF", "pick")
          /\ CreateChips
          /\ UNCHANGED active
       \/ /\ \/ /\ d_device /\ SelectByUid
                /\ Listens(IF d_chip_connected' THEN Inserted ELSE NoTag, field \cap {Inserted})
             \/ Refuse /\ UNCHANGED active
          /\ identifier' = [c \in ChipIds |-> Identified(c)]
          /\ UNCHANGED checker
    /\ UNCHANGED command

----------------------------------------------------------------------------
\* The user sends a command through chip c.  The careful one does so only while
\* isConnected() is true, and through getSingleChip().
SendCommand(c) ==
    /\ Idle /\ stage = "none"
    /\ c \in Listed /\ HasCommands(c)
    /\ Careful => d_chip_connected /\ c \in SingleChip
    /\ sending' = c /\ stage' = "transceive"
    /\ UNCHANGED <<vars, active, objects>>

\* nfc_initiator_transceive_bytes(): the card that listens answers, or no answer
\* comes: there is no such card, it refuses and falls silent, or the command or
\* the answer is lost; or the chip of the reader says that it has released the
\* card, which costs libnfc its target.  The members of a null device are read all
\* the same.
Transceive ==
    /\ stage = "transceive" /\ Idle
    /\ \/ /\ d_device
          /\ UNCHANGED vars \/ TargetReleased
          /\ active' \in {active, NoTag}
          /\ sending' = NoChip /\ stage' = "none"
       \/ /\ ~d_device
          /\ stage' = "crashed"
          /\ UNCHANGED <<vars, active, sending>>
    /\ UNCHANGED objects

\* NFC_EMFCAUTHFAIL: a Mifare Classic card refused the key.  send() calls
\* connect() of the unit.
AuthenticationRefused ==
    /\ stage = "transceive" /\ d_device
    /\ CommandsOf(TypeOf(d_chips[sending])) = "MifareNFCCommands"
    /\ active # NoTag /\ active' = NoTag
    /\ Connect
    /\ stage' = "reselect" /\ UNCHANGED sending
    /\ UNCHANGED objects

\* Mutants of Resume: the command is not over for its chip; it is sent again.
ResumeForUser ==
    /\ stage = "reselect" /\ Idle
    /\ stage' = "none"
    /\ UNCHANGED <<vars, active, objects, sending>>

ResumeAndRetry ==
    /\ stage = "reselect" /\ Idle
    /\ stage' = "transceive"
    /\ UNCHANGED <<vars, active, objects, sending>>

\* connect() has returned or thrown; send() reports the refusal, or passes the
\* exception on.
Resume ==
    /\ stage = "reselect" /\ Idle
    /\ sending' = NoChip /\ stage' = "none"
    /\ UNCHANGED <<vars, active, objects>>

Sends == Transceive \/ AuthenticationRefused \/ Resume

----------------------------------------------------------------------------
SessionInit ==
    /\ Init
    /\ active = NoTag
    /\ identifier = [c \in ChipIds |-> NoTag]
    /\ checker = "none"
    /\ sending = NoChip /\ stage = "none"

SessionNext == Moves \/ Calls \/ Runs \/ (\E c \in ChipIds : SendCommand(c)) \/ Sends

SessionSpec == SessionInit /\ [][SessionNext]_sessionVars

\* The thread that runs a call or a command goes on, and time passes.
SessionFairSpec ==
    /\ SessionSpec
    /\ WF_sessionVars(Runs) /\ WF_sessionVars(Sends)

----------------------------------------------------------------------------
\* Every variable of the session holds a value of its kind, and a chip sends
\* while a command runs.
SessionTypeOK ==
    /\ active \in Tags \cup {NoTag}
    /\ identifier \in [ChipIds -> Tags \cup {NoTag}]
    /\ checker \in {"none", "ISO7816ResultChecker", "DESFireISO7816ResultChecker"}
    /\ sending \in ChipIds \cup {NoChip}
    /\ stage \in {"none", "transceive", "reselect", "crashed"}
    /\ stage = "none" <=> sending = NoChip

\* A command never meets a null device, nor does the connect() inside it: nobody
\* asks isConnected() whether the reader is still open, but a unit that is
\* connected has one.
CommandsHaveDevice ==
    /\ stage # "none" => d_device
    /\ d_chip_connected => d_device

\* A command is taken by the card of the chip it is sent through, or by none:
\* with two cards in the field, one of them found twice by the listing, a
\* selection that failed, a card that comes back.  Nothing in send() tells cards
\* apart.
AnsweredByOwnCard ==
    stage = "transceive" => active \in {d_chips[sending], NoTag}

\* The last four bytes of the identifier go into an authentication
\* (mifarenfccommands.cpp:82): it is there, and it is the UID of the card, while
\* a command is sent; and no listed chip bears the UID of another card.
IdentifierKnown ==
    /\ stage = "transceive" => identifier[sending] = SerialNumber(sending)
    /\ \A c \in Listed : identifier[c] \in {NoTag, SerialNumber(c)}

\* While the chips of the list are of one kind, answers are checked by the
\* checker for that kind, although the chips before them left another one.
OwnChecker ==
    \A c \in Listed :
        (\A b \in Listed : CheckerOf(TypeOf(d_chips[b])) = CheckerOf(TypeOf(d_chips[c])))
            => checker = CheckerOf(TypeOf(d_chips[c]))

\* A refused authentication leaves the card selected and the unit connected, if
\* the card stays and no libnfc call fails: "Calling connect() on the reader unit
\* does the job" (nfcdatatransport.cpp:72), with the unit connected and its card
\* fallen silent.  Otherwise the unit is not connected any more.
ReselectRecovers ==
    [][stage = "reselect" /\ op = "connect" /\ op' = "none"
            => IF d_chip_connected' THEN active' = Inserted
               ELSE ~Undisturbed \/ Inserted \in gone]_sessionVars

\* A command returns or throws, the connect() inside it included.
CommandsReturn == sending # NoChip ~> sending = NoChip \/ stage = "crashed" \/ pc = "crashed"
=============================================================================
