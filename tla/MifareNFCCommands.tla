------------------------- MODULE MifareNFCCommands -------------------------
(***************************************************************************)
(* The way of a Mifare Classic command to the card and back:               *)
(* MifareNFCCommands (mifarenfccommands.cpp) turns a call into raw         *)
(* commands, NFCReaderCardAdapter and NFCDataTransport send them one by    *)
(* one, libnfc reports what the chip says, and a failed authentication     *)
(* makes the transport select the card again by NFCReaderUnit::connect().  *)
(*                                                                         *)
(* The unit's card is an ISO14443A card it has listed; its connect() is    *)
(* taken here as one step with the outcomes that NfcReaderUnit details.    *)
(***************************************************************************)
EXTENDS Integers, Sequences

CONSTANTS
    Blocks, SectorOf,    \* the value blocks, and the sector of each
    Keys, CardKey,       \* keys; key type |-> the key the card expects
    MaxValue,            \* block values are 0 .. MaxValue
    Rejected,            \* the values whose bytes the result checker rejects
    MaxFaults,           \* how many I/O or RF errors a behaviour may meet
    None, Threw

KeyTypes == {"A", "B"}
Values == 0 .. MaxValue

ASSUME MifareAssumption ==
    /\ MaxValue \in Nat /\ MaxFaults \in Nat
    /\ CardKey \in [KeyTypes -> Keys]
    /\ Rejected \subseteq Values
    /\ None \notin Keys \cup Values \cup {SectorOf[b] : b \in Blocks}
    /\ Threw \notin Values \cup {None}

VARIABLES
    \* The card: is it in the field, selected, authenticated to a sector; the
    \* value in its transfer buffer, and those of its blocks.
    inField, active, authenticated, register, memory,
    d_chip_connected,    \* of the unit
    d_key,               \* d_keys[0], the one slot that is used
    ignoreAdapter,       \* ignore_error_ of the card adapter
    ignoreTransport,     \* ignore_error_ of the data transport
    d_response,          \* of the data transport: None is an empty one
    call,                \* the public call that runs, or None
    todo,                \* the raw commands it still has to send
    pc,                  \* "idle", "send" or "reselect"
    result,              \* of the last call: its answer, or Threw
    faults,
    \* History, read by the properties only:
    before,              \* the memory of the card when the call began
    calm                 \* the card was active then, and nothing happened since

card  == <<inField, active, authenticated, register, memory>>
flags == <<ignoreAdapter, ignoreTransport>>
vars  == <<card, d_chip_connected, d_key, flags, d_response, call, todo, pc, result,
           faults, before, calm>>

----------------------------------------------------------------------------
Works == UNCHANGED <<faults, calm>>
Fails == faults < MaxFaults /\ faults' = faults + 1 /\ calm' = FALSE

\* A public call, or a raw command.
Command(name, block, value) == [name |-> name, block |-> block, value |-> value]

\* The public call c starts: it will send the raw commands in turn.
Begin(c, commands) ==
    /\ pc = "idle"
    /\ call' = c /\ todo' = commands /\ pc' = "send"
    /\ result' = None
    /\ before' = memory /\ calm' = active
    /\ UNCHANGED <<card, d_chip_connected, d_key, flags, d_response, faults>>

\* The public call is over.
Return(value) ==
    /\ call' = None /\ todo' = <<>> /\ pc' = "idle"
    /\ result' = value
    /\ before' = memory'

\* A raw command was answered, perhaps by nothing: the next one, or the end.
Proceed(value) ==
    IF Len(todo) = 1 THEN Return(value)
    ELSE todo' = Tail(todo) /\ pc' = "send" /\ UNCHANGED <<call, result, before>>

\* Mutant of Refused: send() leaves the last response in place.
RefusedKeepingResponse ==
    IF ignoreTransport THEN d_response' = None /\ Proceed(d_response)
    ELSE UNCHANGED d_response /\ Return(Threw)

\* A raw command was refused, or its answer was lost (CheckNFCError).
Refused ==
    /\ d_response' = None
    /\ IF ignoreTransport THEN Proceed(None) ELSE Return(Threw)

\* A raw command was answered.  The adapter shows the result checker every answer
\* that is not empty, the content of a block as well.
Answered(value) ==
    IF call.name = "send" THEN d_response' = value /\ Return(None)
    ELSE /\ d_response' = None
         /\ IF value \in Rejected /\ ~ignoreAdapter THEN Return(Threw) ELSE Proceed(value)

----------------------------------------------------------------------------
(***************************************************************************)
(* The card.  A Mifare Classic card that refuses a command, or a key,      *)
(* falls back to its idle state and answers nothing until it is selected   *)
(* again.                                                                  *)
(***************************************************************************)
Accepts(r) ==
    /\ active
    /\ IF r.name = "authenticate" THEN CardKey[r.value.type] = r.value.key
       ELSE authenticated = SectorOf[r.block]
    /\ r.name = "transfer" => register # None
    /\ r.name = "increment" => memory[r.block] + r.value <= MaxValue
    /\ r.name = "decrement" => memory[r.block] >= r.value

\* Increment, decrement and restore only change the transfer buffer.
Executes(r) ==
    /\ Accepts(r)
    /\ authenticated' = IF r.name = "authenticate" THEN SectorOf[r.block] ELSE authenticated
    /\ register' = CASE r.name = "increment" -> memory[r.block] + r.value
                     [] r.name = "decrement" -> memory[r.block] - r.value
                     [] r.name = "restore"   -> memory[r.block]
                     [] OTHER               -> register
    /\ memory' = CASE r.name = "write"    -> [memory EXCEPT ![r.block] = r.value]
                   [] r.name = "transfer" -> [memory EXCEPT ![r.block] = register]
                   [] OTHER              -> memory
    /\ UNCHANGED <<inField, active>>

Deactivated ==
    /\ active' = FALSE /\ authenticated' = None /\ register' = None
    /\ UNCHANGED <<inField, memory>>

CardEnters ==
    /\ ~inField /\ inField' = TRUE
    /\ UNCHANGED <<active, authenticated, register, memory, d_chip_connected, d_key, flags,
                   d_response, call, todo, pc, result, faults, before, calm>>

CardLeaves ==
    /\ inField /\ inField' = FALSE
    /\ active' = FALSE /\ authenticated' = None /\ register' = None
    /\ calm' = FALSE
    /\ UNCHANGED <<memory, d_chip_connected, d_key, flags, d_response, call, todo, pc,
                   result, faults, before>>

----------------------------------------------------------------------------
(***************************************************************************)
(* NFCDataTransport::send() of one raw command, with what sendCommand() of *)
(* the transport and of the adapter make of its outcome.                   *)
(***************************************************************************)
Send ==
    /\ pc = "send"
    /\ LET r == Head(todo)
           badKey == r.name = "authenticate" /\ active /\ ~Accepts(r)
       IN  \/ /\ Works /\ Executes(r)
              /\ Answered(IF r.name = "read" THEN memory[r.block] ELSE None)
           \/ /\ Works /\ ~Accepts(r) /\ ~badKey
              /\ Deactivated /\ Refused
           \/ /\ Works /\ badKey                     \* NFC_EMFCAUTHFAIL
              /\ Deactivated
              /\ d_response' = None /\ pc' = "reselect"
              /\ UNCHANGED <<call, todo, result, before>>
           \/ /\ Fails                               \* command or answer lost
              /\ Executes(r) \/ (~Accepts(r) /\ Deactivated) \/ UNCHANGED card
              /\ Refused
    /\ UNCHANGED <<d_chip_connected, d_key, flags>>

\* The outcomes of NFCReaderUnit::connect(): it selects the card, finds no card,
\* or throws because a property call failed.  The card was deselected before.
Selects ==
    /\ inField /\ active' = TRUE /\ d_chip_connected' = TRUE
    /\ authenticated' = None /\ register' = None /\ UNCHANGED <<inField, memory>>

FindsNone ==
    /\ (~inField /\ Works) \/ Fails
    /\ Deactivated
    /\ d_chip_connected' = FALSE

ConnectThrows ==
    /\ Fails
    /\ Deactivated \/ UNCHANGED card
    /\ d_chip_connected' = FALSE

\* Mutants of Reselect: the card is left alone; the command is sent again.
ReportAtOnce ==
    /\ pc = "reselect"
    /\ UNCHANGED card /\ Works /\ Refused
    /\ UNCHANGED <<d_chip_connected, d_key, flags>>

ReselectAndRetry ==
    /\ pc = "reselect"
    /\ (Works /\ Selects) \/ FindsNone
    /\ pc' = "send"
    /\ UNCHANGED <<call, todo, result, before, d_key, flags, d_response>>

\* "If the authentication command fail against a Mifare Classic, the card is
\* unusable unless we re-select it again" (nfcdatatransport.cpp:72): the error is
\* reported all the same, whatever connect() answers.
Reselect ==
    /\ pc = "reselect"
    /\ \/ ((Works /\ Selects) \/ FindsNone) /\ Refused
       \/ ConnectThrows /\ Return(Threw) /\ UNCHANGED d_response
    /\ UNCHANGED <<d_key, flags>>

----------------------------------------------------------------------------
(***************************************************************************)
(* The calls.                                                              *)
(***************************************************************************)
Immediate(value) ==
    /\ pc = "idle"
    /\ result' = value
    /\ UNCHANGED <<call, todo, pc, before>>

\* loadKey(location, keytype, key) and loadKey(0, ...): one slot for all sectors
\* and both key types, whatever the location.
LoadKey(key) ==
    /\ Immediate(None)
    /\ d_key' = key
    /\ UNCHANGED <<card, d_chip_connected, flags, d_response, faults, calm>>

\* Bound of the model: a key was loaded before.  Without one the command is too
\* short, and what the chip makes of it is not known from the code.
Authenticate(b, type) ==
    LET by == [type |-> type, key |-> d_key]
    IN  /\ d_key # None
        /\ Begin(Command("authenticate", b, by),
                 <<Command("authenticate", b, by)>>)

ReadBinary(b) ==
    Begin(Command("readBinary", b, None), <<Command("read", b, None)>>)

UpdateBinary(b, v) ==
    Begin(Command("updateBinary", b, v), <<Command("write", b, v)>>)

\* A length other than 16, or a key that is not in the computer's memory, is
\* refused before anything is sent.
InvalidArgument ==
    /\ Immediate(Threw)
    /\ UNCHANGED <<card, d_chip_connected, d_key, flags, d_response, faults, calm>>

\* Mutants of Increment: the transfer gets the wrong argument; it goes first.
IncrementElsewhere(b, v) ==
    Begin(Command("increment", b, v),
          <<Command("increment", b, v), Command("transfer", v, None)>>)

IncrementAfterTransfer(b, v) ==
    Begin(Command("increment", b, v),
          <<Command("transfer", b, None), Command("increment", b, v)>>)

\* increment(), decrement(): two raw commands.
Increment(b, v) ==
    Begin(Command("increment", b, v),
          <<Command("increment", b, v), Command("transfer", b, None)>>)

Decrement(b, v) ==
    Begin(Command("decrement", b, v),
          <<Command("decrement", b, v), Command("transfer", b, None)>>)

\* increment_raw(), decrement_raw(), restore() and transfer() on their own.
RawCall(name, cmd, b, v) ==
    Begin(Command(name, b, v), <<Command(cmd, b, v)>>)

\* send() and receive() of the transport called on their own.
SendOnly(b) == Begin(Command("send", b, None), <<Command("read", b, None)>>)

Receive ==
    /\ Immediate(d_response)
    /\ d_response' = None
    /\ UNCHANGED <<card, d_chip_connected, d_key, flags, faults, calm>>

IgnoreAllError(adapter, transport) ==
    /\ Immediate(None)
    /\ ignoreAdapter' = adapter /\ ignoreTransport' = transport
    /\ UNCHANGED <<card, d_chip_connected, d_key, d_response, faults, calm>>

\* connect() and disconnect() of the unit, called by the user.
Connect ==
    /\ \/ Works /\ Selects /\ Immediate(None)
       \/ FindsNone /\ Immediate(None)
       \/ ConnectThrows /\ Immediate(Threw)
    /\ UNCHANGED <<d_key, flags, d_response>>

Disconnect ==
    /\ Immediate(None)
    /\ \/ Works /\ Deactivated
       \/ Fails /\ UNCHANGED card
    /\ d_chip_connected' = FALSE
    /\ UNCHANGED <<d_key, flags, d_response>>

----------------------------------------------------------------------------
Init ==
    /\ inField \in BOOLEAN
    /\ active = FALSE /\ authenticated = None /\ register = None
    /\ memory \in [Blocks -> Values]
    /\ d_chip_connected = FALSE
    /\ d_key = None
    /\ ignoreAdapter = FALSE /\ ignoreTransport = FALSE
    /\ d_response = None
    /\ call = None /\ todo = <<>> /\ pc = "idle" /\ result = None
    /\ faults = 0
    /\ before = memory /\ calm = FALSE

Caller ==
    \/ \E key \in Keys : LoadKey(key)
    \/ \E b \in Blocks, type \in KeyTypes : Authenticate(b, type)
    \/ \E b \in Blocks : \/ ReadBinary(b)
                         \/ SendOnly(b)
                         \/ RawCall("restore", "restore", b, None)
                         \/ RawCall("transfer", "transfer", b, None)
    \/ \E b \in Blocks, v \in Values :
            \/ UpdateBinary(b, v)
            \/ Increment(b, v)
            \/ Decrement(b, v)
            \/ RawCall("increment_raw", "increment", b, v)
            \/ RawCall("decrement_raw", "decrement", b, v)
    \/ InvalidArgument
    \/ Receive
    \/ \E adapter, transport \in BOOLEAN : IgnoreAllError(adapter, transport)
    \/ Connect \/ Disconnect

Next == CardEnters \/ CardLeaves \/ Caller \/ Send \/ Reselect

Spec == Init /\ [][Next]_vars

\* libnfc answers every call, with an error at worst.
FairSpec == Spec /\ WF_vars(Send \/ Reselect)

----------------------------------------------------------------------------
Commands == {"authenticate", "read", "write", "increment", "decrement", "transfer", "restore"}

Calls == {"authenticate", "readBinary", "updateBinary", "increment", "decrement",
          "increment_raw", "decrement_raw", "transfer", "restore", "send"}

\* Every variable holds a value of its kind; the members of the code are typed
\* by the compiler, the others by this model.
TypeOK ==
    /\ {inField, active, d_chip_connected, ignoreAdapter, ignoreTransport, calm} \subseteq BOOLEAN
    /\ authenticated \in {SectorOf[b] : b \in Blocks} \cup {None}
    /\ register \in Values \cup {None}
    /\ memory \in [Blocks -> Values] /\ before \in [Blocks -> Values]
    /\ d_key \in Keys \cup {None}
    /\ d_response \in Values \cup {None}
    /\ pc \in {"idle", "send", "reselect"}
    /\ result \in Values \cup {None, Threw}
    /\ faults \in 0 .. MaxFaults
    /\ IF pc = "idle" THEN call = None /\ todo = <<>>
       ELSE /\ call.name \in Calls /\ call.block \in Blocks
            /\ Len(todo) \in 1 .. 2
            /\ \A i \in 1 .. Len(todo) : todo[i].name \in Commands /\ todo[i].block = call.block

----------------------------------------------------------------------------
\* What the call means to do to the card's blocks; a transfer writes what the
\* card's transfer buffer holds.
Intended ==
    LET b == call.block
    IN  CASE call.name = "updateBinary" -> [before EXCEPT ![b] = call.value]
          [] call.name = "increment"    -> [before EXCEPT ![b] = before[b] + call.value]
          [] call.name = "decrement"    -> [before EXCEPT ![b] = before[b] - call.value]
          [] call.name = "transfer"     -> [before EXCEPT ![b] = register]
          [] OTHER                      -> before

\* The call that runs ends.
Ends == call # None /\ call' = None

\* A call that reports success has done to the card's blocks what it says, all
\* of it and nothing else; one that throws has done all of it or nothing, and
\* left the other blocks alone.  (Unless the transport is told to ignore errors.)
EffectIsExact ==
    [][Ends /\ ~ignoreTransport
            => memory' \in {Intended} \cup (IF result' = Threw THEN {before} ELSE {})]_vars

\* What readBinary() returns, if it returns data, is what the block holds: never
\* the answer to an earlier command, whatever was ignored or lost before.
ReadIsCurrent ==
    [][Ends /\ call.name = "readBinary"
            => result' \in {None, Threw, memory'[call.block]}]_vars

\* A wrong key costs nothing but the exception: an authentication of an active
\* card that is refused leaves the card selected, ready for another try
\* (the comment of send(), nfcdatatransport.cpp:71-73).
AuthFailureRecovers ==
    [][Ends /\ call.name = "authenticate" /\ calm'
            => active' /\ (result' = Threw => d_chip_connected')]_vars

\* Every call returns, whatever the card does.
CallsReturn == call # None ~> call = None
----------------------------------------------------------------------------
(***************************************************************************)
(* What the caller is promised (ValueStore): the card's blocks are the     *)
(* store, its transfer buffer is the buffer.                               *)
(***************************************************************************)
Store == INSTANCE ValueStore WITH
            store <- memory, buffer <- register, running <- (pc # "idle"),
            reply <- result, lenient <- ignoreTransport

\* The raw commands of a call are one operation on the blocks of the card: done at
\* once when the call is answered, whole after a success, whole or not at all after
\* an exception, and never before; what readBinary() returns is what the block
\* holds, and a transfer writes what the commands before it have computed.
ImplementsStore == Store!Spec
=============================================================================
