---------------------- MODULE NfcReaderUnitRefinement ----------------------
(***************************************************************************)
(* NFCReaderUnit, used by a careful caller, implements CardSlot.           *)
(***************************************************************************)
EXTENDS NfcReaderUnitProofs

Cards == {d_chips[c] : c \in Listed}

\* What a step that leaves the chips alone leaves alone as well.
LEMMA SameChips ==
    ASSUME UNCHANGED <<d_chips, d_insertedChip>>
    PROVE  Inserted' = Inserted /\ Cards' = Cards
BY DEF Inserted, Cards, Listed

LEMMA InsertedKnown == Inserted \in Cards \cup {NoTag}
BY DEF Inserted, Cards

LEMMA KnownCards ==
    /\ Known = Cards \cup (IF op = "waitInsertion" THEN found ELSE {})
    /\ Known' = Cards' \cup (IF op' = "waitInsertion" THEN found' ELSE {})
BY DEF Known, Cards

\* A refresh adds cards of its candidates, and keeps the inserted one.
LEMMA AddedCards ==
    ASSUME TypeOK, InsertedIsListed, NEW tags, AddChips(tags), UNCHANGED d_insertedChip
    PROVE  Inserted' = Inserted /\ Cards' \subseteq Cards \cup tags
<1>1. Cards' \subseteq Cards \cup tags
  <2> SUFFICES ASSUME NEW c \in Listed' PROVE d_chips'[c] \in Cards \cup tags
    BY DEF Cards
  <2> QED BY AddChipsAdds DEF Cards
<1>2. CASE d_insertedChip = NoChip
  BY <1>1, <1>2, UnitAssumption DEF UnitAssumption, Inserted, Listed
<1>3. CASE d_insertedChip \in Listed
  BY <1>1, <1>3, AddChipsKeeps DEF Inserted
<1> QED BY <1>1, <1>2, <1>3 DEF InsertedIsListed

\* A link is a link to the inserted card.
LEMMA LinkOfUnit ==
    ASSUME UnitInv, Careful
    PROVE  /\ Link \in {Inserted, NoTag}
           /\ op = "waitInsertion" \/ Inserted = NoTag => Link = NoTag
BY UnitAssumption DEF UnitAssumption, UnitInv, Linked, Link

----------------------------------------------------------------------------
LEMMA InitMaps == Init => Slot!Init
<1> SUFFICES ASSUME Init PROVE Slot!Init
  OBVIOUS
<1>1. Listed = {}
  BY DEF Init, Listed
<1> QED BY <1>1 DEF Init, Slot!Init, Known, Inserted, Link

SlotStep == Slot!Next \/ UNCHANGED Slot!vars

\* Cards that move, and calls that begin or are over at once.
LEMMA CallerMaps ==
    ASSUME UnitInv, Careful, Environment \/ Caller
    PROVE  SlotStep
<1> USE SameChips, KnownCards DEF SlotStep, chips, device, call, hist
<1>0. TypeOK
  BY DEF UnitInv
<1>1. ASSUME NEW t \in Tags, CardEnters(t) \/ CardLeaves(t) PROVE SlotStep
  <2>1. field' \in SUBSET Tags
    BY <1>0, <1>1 DEF CardEnters, CardLeaves, TypeOK, Ranges
  <2>2. UNCHANGED <<Known, Inserted, Link, op, result>>
    BY <1>1 DEF CardEnters, CardLeaves, Link
  <2> QED BY <2>1, <2>2 DEF Slot!Next, Slot!Move
<1>2. CASE MaxwaitElapses
  BY <1>2 DEF MaxwaitElapses, Link, Slot!vars
<1>3. CASE ConnectToReader
  <2>1. op = "none" /\ op' = "none" /\ result' \in {"true", "false"}
    BY <1>3 DEF ConnectToReader, Immediate, Idle, Return
  <2>2. Link = NoTag /\ UNCHANGED <<field, Known, Inserted, Link>>
    BY <1>3, <2>1 DEF ConnectToReader, Link
  <2> QED BY <2>1, <2>2 DEF Slot!Next, Slot!Manage
<1>4. CASE DisconnectFromReader
  <2>1. op = "none" /\ op' = "none" /\ result' = "void"
    BY <1>4 DEF DisconnectFromReader, Immediate, Idle, Return
  <2>2. Link = NoTag /\ UNCHANGED <<field, Known, Inserted, Link>>
    BY <1>4, <2>1 DEF DisconnectFromReader, Link
  <2> QED BY <2>1, <2>2 DEF Slot!Next, Slot!Manage
<1>5. ASSUME NEW wait \in {0, 1}, WaitInsertion(wait) PROVE SlotStep
  <2>1. Slot!Ask("waitInsertion")
    BY <1>5 DEF WaitInsertion, Begin, Idle, Link, Slot!Ask
  <2> QED BY <2>1 DEF Slot!Next, Slot!Calls
<1>6. ASSUME NEW wait \in {0, 1}, WaitRemoval(wait) PROVE SlotStep
  <2>1. Slot!Ask("waitRemoval")
    BY <1>6 DEF WaitRemoval, Begin, Idle, Link, Slot!Ask
  <2> QED BY <2>1 DEF Slot!Next, Slot!Calls
<1>7. CASE Connect
  <2>1. Slot!Ask("connect")
    BY <1>7 DEF Connect, Begin, Idle, Link, Slot!Ask
  <2> QED BY <2>1 DEF Slot!Next, Slot!Calls
<1>8. CASE Disconnect
  <2>1. CASE Selectable
    <3>1. Slot!Ask("disconnect")
      BY <1>8, <2>1 DEF Disconnect, Begin, Idle, Link, Slot!Ask
    <3> QED BY <3>1 DEF Slot!Next, Slot!Calls
  <2>2. CASE ~Selectable
    <3>1. Slot!ReplyDisconnect
      BY <1>8, <2>2 DEF Disconnect, Immediate, Return, Idle, Link, Slot!ReplyDisconnect, Slot!Reply
    <3> QED BY <3>1 DEF Slot!Next
  <2> QED BY <2>1, <2>2
<1>9. CASE TargetReleased
  <2>1. op = "none" /\ Link' = NoTag /\ UNCHANGED <<field, Known, Inserted, op, result>>
    BY <1>9 DEF TargetReleased, Idle, Link
  <2>2. Commands
    BY <1>9 DEF TargetReleased
  <2> QED BY <2>1, <2>2 DEF Slot!Next, Slot!Break
<1> QED BY <1>1, <1>2, <1>3, <1>4, <1>5, <1>6, <1>7, <1>8, <1>9 DEF Environment, Caller

----------------------------------------------------------------------------
\* waitInsertion(): the listing looks at the field, and PickChip fills the slot.
LEMMA InsertionMaps ==
    ASSUME UnitInv, Careful,
           \/ StartInsertion \/ InitReader
           \/ ListPassiveTargets("armA", "pollA") \/ (\E t \in Tags : FindA(t)) \/ FindNoA
           \/ RestoreRetries("restoreA", "armF")
           \/ ListPassiveTargets("armF", "pollF") \/ FindF
           \/ RestoreRetries("restoreF", "pick")
           \/ PickChip
    PROVE  SlotStep
<1> USE SameChips, KnownCards, InsertedKnown, LinkOfUnit DEF SlotStep, chips, device, call, hist
<1>0. op = "waitInsertion" /\ Link = NoTag
  BY DEF UnitInv, Control, StartInsertion, InitReader, ListPassiveTargets, FindA, FindNoA,
         RestoreRetries, FindF, PickChip
<1>1. Link' = NoTag /\ UNCHANGED field
  <2>1. ~d_chip_connected
    BY <1>0 DEF UnitInv, Linked
  <2> QED
    BY <2>1 DEF StartInsertion, InitReader, ListPassiveTargets, FindA, FindNoA,
               RestoreRetries, FindF, PickChip, Link
<1> HIDE LinkOfUnit
\* The steps that leave the chips alone: a look, or an exception or a `false'.
<1>2. ASSUME UNCHANGED <<d_chips, d_insertedChip>>, op' = "waitInsertion",
             found' \subseteq found \cup field, UNCHANGED result
      PROVE  SlotStep
  BY <1>0, <1>1, <1>2 DEF Slot!Next, Slot!Look
<1>3. ASSUME UNCHANGED <<d_chips, d_insertedChip>>,
             Return("threw") \/ Return("false")
      PROVE  SlotStep
  BY <1>0, <1>1, <1>3 DEF Return, Slot!Next, Slot!ReplyInsertion, Slot!Reply
<1>4. CASE StartInsertion
  BY <1>0, <1>2, <1>3, <1>4 DEF StartInsertion, Goto
<1>5. CASE InitReader
  BY <1>0, <1>2, <1>3, <1>5 DEF InitReader, Goto
<1>6. ASSUME NEW from, NEW to, ListPassiveTargets(from, to) PROVE SlotStep
  BY <1>0, <1>2, <1>3, <1>6 DEF ListPassiveTargets, Goto
<1>7. ASSUME NEW t \in Tags, FindA(t) PROVE SlotStep
  BY <1>0, <1>2, <1>7 DEF FindA, Goto
<1>8. CASE FindNoA
  BY <1>0, <1>2, <1>8 DEF FindNoA, Goto
<1>9. CASE FindF
  BY <1>0, <1>2, <1>9 DEF FindF, Goto
<1>10. ASSUME NEW from, NEW to, RestoreRetries(from, to) PROVE SlotStep
  <2>1. CASE Return("threw") /\ UNCHANGED d_chips
    BY <1>3, <1>10, <2>1 DEF RestoreRetries
  <2>2. CASE AddChips(found \cap Supported) /\ Goto(to)
    <3>1. Inserted' = Inserted /\ Cards' \subseteq Cards \cup found
      BY <1>10, <2>2, AddedCards DEF RestoreRetries, UnitInv
    <3>2. op' = op /\ result' = result /\ found' = {}
      BY <1>10, <2>2 DEF RestoreRetries, Goto
    <3>3. Known' \subseteq Known
      BY <1>0, <3>1, <3>2
    <3>4. Inserted \in Known' \cup {NoTag}
      <4>1. Inserted' \in Cards' \cup {NoTag}
        BY DEF Inserted, Cards
      <4> QED BY <3>1, <4>1
    <3> HIDE KnownCards, InsertedKnown, SameChips
    <3> QED BY <1>0, <1>1, <3>1, <3>2, <3>3, <3>4 DEF Slot!Next, Slot!Look
  <2> QED BY <1>10, <2>1, <2>2 DEF RestoreRetries
<1>11. CASE PickChip
  <2>1. ASSUME NEW c \in Listed, d_insertedChip' = c, UNCHANGED d_chips, Return("true")
        PROVE  SlotStep
    <3>1. Inserted' = d_chips[c] /\ Cards' = Cards /\ d_chips[c] \in Cards
      BY <2>1 DEF Inserted, Cards, Listed
    <3>2. d_chips[c] # NoTag
      BY DEF Listed
    <3> QED BY <1>0, <1>1, <2>1, <3>1, <3>2
            DEF Return, Slot!Next, Slot!ReplyInsertion, Slot!Reply
  <2> QED BY <1>0, <1>2, <1>3, <1>11, <2>1 DEF PickChip, Goto
<1> QED BY <1>4, <1>5, <1>6, <1>7, <1>8, <1>9, <1>10, <1>11

----------------------------------------------------------------------------
\* connect(), disconnect() and waitRemoval(): the link.
LEMMA ConnectedMaps ==
    ASSUME UnitInv, Careful, NEW ok \in BOOLEAN, Connected(ok), UNCHANGED field,
           pc \in {"select", "refuse"},
           ok => Inserted \in field /\ target' = Inserted
    PROVE  SlotStep
<1> USE SameChips, KnownCards DEF SlotStep, call, hist
<1>0. op \in {"connect", "waitRemoval"}
  BY DEF UnitInv, Control
<1>1. CASE op = "connect"
  <2>1. UNCHANGED <<Known, Inserted>>
    BY <1>1 DEF Connected, Return
  <2>2. Slot!ReplyConnect
    BY <1>1, <2>1 DEF Connected, Return, Link, Slot!ReplyConnect, Slot!Reply, Slot!LinkUp
  <2> QED BY <2>2 DEF Slot!Next
<1>2. CASE op = "waitRemoval" /\ ok
  <2>1. UNCHANGED <<Known, Inserted, op, result>>
    BY <1>2 DEF Connected, Goto
  <2>2. Slot!Relink
    BY <1>2, <2>1 DEF Connected, Link, Slot!Relink, Slot!LinkUp
  <2> QED BY <2>2 DEF Slot!Next
<1>3. CASE op = "waitRemoval" /\ ~ok
  <2>1. Listed' = {} /\ Inserted' = NoTag
    BY <1>3, UnitAssumption DEF UnitAssumption, Connected, Listed, Inserted
  <2>2. Known' = {}
    BY <1>3, <2>1 DEF Connected, Return, Known
  <2>3. Slot!ReplyRemoval
    BY <1>3, <2>1, <2>2 DEF Connected, Return, Link, Slot!ReplyRemoval, Slot!Reply
  <2> QED BY <2>3 DEF Slot!Next
<1> QED BY <1>0, <1>1, <1>2, <1>3

LEMMA LinkMaps ==
    ASSUME UnitInv, Careful,
           \/ Deselect \/ Reselect \/ LimitRetries \/ SelectByUid
           \/ Refuse \/ CheckRemoval \/ Crash
    PROVE  SlotStep
<1> USE SameChips, KnownCards DEF SlotStep, chips, device, call, hist
<1>0. Control
  BY DEF UnitInv
<1>1. CASE Deselect
  <2>1. Slot!ReplyDisconnect
    BY <1>0, <1>1 DEF Control, Deselect, Return, Link, Slot!ReplyDisconnect, Slot!Reply
  <2> QED BY <2>1 DEF Slot!Next
<1>2. CASE Reselect
  <2>1. Slot!Drop
    BY <1>0, <1>2 DEF Control, Reselect, Goto, Link, Slot!Drop
  <2> QED BY <2>1 DEF Slot!Next
<1>3. CASE LimitRetries
  <2>1. op \in {"connect", "waitRemoval"} /\ Link' = NoTag /\ UNCHANGED <<field, Inserted, Cards>>
    BY <1>0, <1>3 DEF Control, LimitRetries, Link
  <2>2. CASE Goto("select") /\ UNCHANGED found
    <3>1. Slot!Drop
      BY <2>1, <2>2 DEF Goto, Slot!Drop
    <3> QED BY <3>1 DEF Slot!Next
  <2>3. CASE Return("threw")
    <3>1. Slot!ReplyConnect \/ Slot!ReplyRemoval
      BY <2>1, <2>3 DEF Return, Slot!ReplyConnect, Slot!ReplyRemoval, Slot!Reply
    <3> QED BY <3>1 DEF Slot!Next
  <2> QED BY <1>3, <2>2, <2>3 DEF LimitRetries
<1>4. CASE SelectByUid
  <2>1. CASE Inserted \in field /\ target' = Inserted /\ Connected(TRUE)
    BY <1>4, <2>1, ConnectedMaps DEF SelectByUid
  <2>2. CASE Connected(FALSE)
    BY <1>4, <2>2, ConnectedMaps DEF SelectByUid
  <2> QED BY <1>4, <2>1, <2>2 DEF SelectByUid
<1>5. CASE Refuse
  BY <1>5, ConnectedMaps DEF Refuse
<1>6. CASE CheckRemoval
  <2>1. op = "waitRemoval" /\ UNCHANGED <<field, Link, Inserted, Cards>>
    BY <1>0, <1>6 DEF Control, CheckRemoval, Link
  <2>2. CASE Inserted = NoTag
    <3>1. Link = NoTag
      BY <2>2, LinkOfUnit
    <3>2. Slot!ReplyRemoval
      BY <1>6, <2>1, <2>2, <3>1 DEF CheckRemoval, Return, Slot!ReplyRemoval, Slot!Reply
    <3> QED BY <3>2 DEF Slot!Next
  <2>3. CASE Return("false")
    <3>1. Slot!ReplyRemoval
      BY <2>1, <2>3 DEF Return, Slot!ReplyRemoval, Slot!Reply
    <3> QED BY <3>1 DEF Slot!Next
  <2>4. CASE Goto(ConnectLabel) /\ UNCHANGED found
    BY <2>1, <2>4 DEF Goto, Slot!vars
  <2> QED BY <1>6, <2>2, <2>3, <2>4 DEF CheckRemoval
<1>7. CASE Crash
  BY <1>7 DEF Crash, Link, Slot!vars
<1> QED BY <1>1, <1>2, <1>3, <1>4, <1>5, <1>6, <1>7

----------------------------------------------------------------------------
\* ImplementsSlot, for any cards, addresses and number of errors, with commands and
\* without: every step of the unit is a step of the slot, or none that its caller
\* can tell.
THEOREM UnitImplementsSlot ==
    ASSUME Careful
    PROVE  Spec => ImplementsSlot
<1>1. Init => Slot!Init
  BY InitMaps
<1>2. UnitInv /\ [Next]_vars => [Slot!Next]_(Slot!vars)
  <2> SUFFICES ASSUME UnitInv, [Next]_vars PROVE SlotStep
    BY DEF SlotStep
  <2>1. CASE Environment \/ Caller
    BY <2>1, CallerMaps
  <2>2. CASE Step
    BY <2>2, InsertionMaps, LinkMaps DEF Step, LibnfcCall
  <2>3. CASE UNCHANGED vars
    BY <2>3, SameChips, KnownCards
    DEF vars, chips, device, call, Link, SlotStep, Slot!vars
  <2> QED BY <2>1, <2>2, <2>3 DEF Next
<1> QED BY <1>1, <1>2, UnitInvariant, PTL DEF Spec, ImplementsSlot, Slot!Spec
=============================================================================
