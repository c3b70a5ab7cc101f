------------------------------ MODULE CardSlot ------------------------------
(***************************************************************************)
(* What NFCReaderUnit promises a caller who disconnects from a card before *)
(* it waits for another one: a slot that holds one card at a time, and a   *)
(* link to the card in the slot.  How a card is found, selected and missed *)
(* is NfcReaderUnit's business, which implements this specification.       *)
(***************************************************************************)
CONSTANTS
    Tags, NoTag,
    Commands   \* are commands sent over the link

VARIABLES
    field,   \* the cards in the RF field
    known,   \* the cards the unit has met and not forgotten yet
    slot,    \* the card the caller works with, or NoTag
    link,    \* the card that is selected while isConnected() is true, or NoTag
    call,    \* the public call that runs, or "none"
    reply    \* what the last call returned

vars == <<field, known, slot, link, call, reply>>

Calls == {"connect", "disconnect", "waitInsertion", "waitRemoval"}

Init ==
    /\ field \in SUBSET Tags
    /\ known = {} /\ slot = NoTag /\ link = NoTag
    /\ call = "none" /\ reply = "none"

\* A card enters or leaves the field.
Move ==
    /\ field' \in SUBSET Tags
    /\ UNCHANGED <<known, slot, link, call, reply>>

\* The reader is opened or closed.
Manage ==
    /\ call = "none" /\ link = NoTag
    /\ reply' \in {"true", "false", "void"}
    /\ UNCHANGED <<field, known, slot, link, call>>

Ask(name) ==
    /\ call = "none" /\ call' = name /\ reply' = "none"
    /\ name = "waitInsertion" => link = NoTag
    /\ UNCHANGED <<field, known, slot, link>>

\* The call is answered.
Reply(value) == call' = "none" /\ reply' = value /\ UNCHANGED field

----------------------------------------------------------------------------
\* waitInsertion() gets to know cards that are in the field, and may lose sight
\* of others, though not of the one in the slot.
Look ==
    /\ call = "waitInsertion"
    /\ known' \subseteq known \cup field
    /\ slot \in known' \cup {NoTag}
    /\ UNCHANGED <<field, slot, link, call, reply>>

ReplyInsertion ==
    /\ call = "waitInsertion"
    /\ known' \subseteq known /\ slot' \in known' \cup {NoTag}
    /\ UNCHANGED link
    /\ \/ Reply("true") /\ slot' # NoTag
       \/ (Reply("false") \/ Reply("threw")) /\ UNCHANGED slot

\* The link goes down: to be set up again, or for good.
Drop ==
    /\ call \in {"connect", "waitRemoval"}
    /\ link' = NoTag
    /\ UNCHANGED <<field, known, slot, call, reply>>

\* A command finds the card gone: the link is down, whatever isConnected() says.
Break ==
    /\ Commands /\ call = "none"
    /\ link' = NoTag
    /\ UNCHANGED <<field, known, slot, call, reply>>

\* A link is a link to the card in the slot, which is in the field by then.
LinkUp == slot \in field /\ link' = slot

ReplyConnect ==
    /\ call = "connect"
    /\ \/ Reply("true") /\ LinkUp
       \/ (Reply("false") \/ Reply("threw")) /\ link' = NoTag
    /\ UNCHANGED <<known, slot>>

\* disconnect() may have nothing to ask the reader, and be over at once.
ReplyDisconnect ==
    /\ call \in {"none", "disconnect"}
    /\ Reply("void") /\ link' = NoTag
    /\ UNCHANGED <<known, slot>>

\* waitRemoval() sets up the link again and again, to see if it can.
Relink ==
    /\ call = "waitRemoval"
    /\ LinkUp
    /\ UNCHANGED <<field, known, slot, call, reply>>

\* A removal empties the slot and takes the link down.
ReplyRemoval ==
    /\ call = "waitRemoval"
    /\ \/ Reply("true") /\ slot' = NoTag /\ link' = NoTag /\ known' \subseteq known
       \/ Reply("false") /\ UNCHANGED <<known, slot, link>>
       \/ Reply("threw") /\ link' = NoTag /\ UNCHANGED <<known, slot>>

Next ==
    \/ Move \/ Manage \/ (\E name \in Calls : Ask(name))
    \/ Look \/ Drop \/ Break \/ Relink
    \/ ReplyInsertion \/ ReplyConnect \/ ReplyDisconnect \/ ReplyRemoval

Spec == Init /\ [][Next]_vars
=============================================================================
