----------------------------- MODULE ValueStore -----------------------------
(***************************************************************************)
(* What the value commands of MifareNFCCommands promise: a store of values *)
(* and a transfer buffer, on which a call acts at once or not at all, at   *)
(* the moment it is answered.  How a call is cut into raw commands, what   *)
(* becomes of each of them and how the card is selected again after a      *)
(* refused key is MifareNFCCommands' business, which implements this.      *)
(***************************************************************************)
EXTENDS Integers

CONSTANTS Blocks, Values, None, Threw

VARIABLES
    store,     \* block |-> its value
    buffer,    \* the value in the transfer buffer, or None
    running,   \* does a call run
    call,      \* the call that runs, or ran last
    reply,     \* what the last call returned, or Threw
    lenient    \* has the caller chosen to ignore the errors of the transport

vars == <<store, buffer, running, call, reply, lenient>>

Init ==
    /\ store \in [Blocks -> Values]
    /\ buffer = None /\ ~running /\ reply = None /\ ~lenient

Ask ==
    /\ ~running /\ running' /\ call'.block \in Blocks
    /\ reply' = None
    /\ UNCHANGED <<store, buffer, lenient>>

\* A call that has no business with the blocks: keys, settings, connections.
Manage ==
    /\ ~running
    /\ reply' \in Values \cup {None, Threw} /\ lenient' \in BOOLEAN
    /\ buffer' \in {buffer, None}
    /\ UNCHANGED <<store, running, call>>

\* A card that is deselected, or leaves, forgets its transfer buffer.
Fade == buffer' = None /\ UNCHANGED <<store, running, call, reply, lenient>>

----------------------------------------------------------------------------
\* What the call makes of its block, and of the buffer.
Written ==
    LET old == store[call.block]
    IN  CASE call.name = "updateBinary" -> call.value
          [] call.name = "increment"    -> old + call.value
          [] call.name = "decrement"    -> old - call.value
          [] call.name = "transfer"     -> buffer
          [] OTHER                      -> old

Computed ==
    LET old == store[call.block]
    IN  CASE call.name \in {"increment", "increment_raw"} -> old + call.value
          [] call.name \in {"decrement", "decrement_raw"} -> old - call.value
          [] call.name = "restore"                        -> old
          [] OTHER                                        -> buffer

Stored(value) == value \in Values /\ store' = [store EXCEPT ![call.block] = value]

\* increment() and decrement() compute before they write.
Compute ==
    /\ running /\ call.name \in {"increment", "decrement"}
    /\ buffer' = Computed
    /\ UNCHANGED <<store, running, call, reply, lenient>>

\* The call is answered.
Answer(value) == running /\ ~running' /\ reply' = value /\ UNCHANGED lenient

\* Success: all of it is done, and what is read is what the block holds.
Succeed ==
    /\ Answer(IF call.name = "readBinary" THEN store[call.block] ELSE None)
    /\ Stored(Written) /\ buffer' = Computed

\* An exception: all of it is done, or the blocks are as they were.
Fail ==
    /\ Answer(Threw)
    /\ UNCHANGED store \/ Stored(Written)
    /\ buffer' \in {buffer, Computed, None}

\* An ignored error looks like a success without data.  The first half of an
\* increment may be missing: the second one then writes what the buffer holds.
Pretend ==
    /\ lenient /\ Answer(None)
    /\ \/ UNCHANGED store \/ Stored(Written)
       \/ call.name \in {"increment", "decrement"} /\ Stored(buffer)
    /\ buffer' \in {buffer, Computed, None}

Next == Ask \/ Manage \/ Fade \/ Compute \/ Succeed \/ Fail \/ Pretend

Spec == Init /\ [][Next]_vars
=============================================================================
