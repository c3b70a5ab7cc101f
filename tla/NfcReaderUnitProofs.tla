------------------------ MODULE NfcReaderUnitProofs ------------------------
(***************************************************************************)
(* Theorems about NfcReaderUnit, for any cards, addresses and number of    *)
(* errors, and for careful and careless callers.                           *)
(***************************************************************************)
EXTENDS NfcReaderUnit, TLAPS

LEMMA TypeInit == Init => TypeOK
<1>1. Init => Flags
  BY DEF Init, Flags
<1>2. Init => Ranges
  BY UnitAssumption DEF UnitAssumption, Init, Ranges, DeviceCalls
<1> QED BY <1>1, <1>2 DEF TypeOK

LEMMA RangesStep == Ranges /\ [Next]_vars => Ranges'
<1> SUFFICES ASSUME Ranges, [Next]_vars PROVE Ranges'
  OBVIOUS
<1> USE UnitAssumption DEF UnitAssumption, Ranges, DeviceCalls, chips, device, call, hist
<1>1. ASSUME NEW t \in Tags, CardEnters(t) PROVE Ranges'
  BY <1>1 DEF CardEnters
<1>2. ASSUME NEW t \in Tags, CardLeaves(t) PROVE Ranges'
  BY <1>2 DEF CardLeaves
<1>3. CASE MaxwaitElapses
  BY <1>3 DEF MaxwaitElapses
<1>4. CASE ConnectToReader
  BY <1>4 DEF ConnectToReader, Immediate, Return
<1>5. CASE DisconnectFromReader
  BY <1>5 DEF DisconnectFromReader, Immediate, Return
<1>6. ASSUME NEW wait \in {0, 1}, WaitInsertion(wait) PROVE Ranges'
  BY <1>6 DEF WaitInsertion, Begin
<1>7. ASSUME NEW wait \in {0, 1}, WaitRemoval(wait) PROVE Ranges'
  BY <1>7 DEF WaitRemoval, Begin
<1>8. CASE Connect
  BY <1>8 DEF Connect, Begin, ConnectLabel
<1>9. CASE Disconnect
  BY <1>9 DEF Disconnect, Begin, Immediate, Return
<1>10. CASE InitReader
  BY <1>10 DEF InitReader, Works, Fails, Goto, Return
<1>11. ASSUME NEW from \in {"armA", "armF"}, NEW to \in {"pollA", "pollF"},
              ListPassiveTargets(from, to) PROVE Ranges'
  BY <1>11 DEF ListPassiveTargets, Works, Fails, Goto, Return
<1>12. ASSUME NEW t \in Tags, FindA(t) PROVE Ranges'
  BY <1>12 DEF FindA, Works, Fails, Goto
<1>13. CASE FindNoA
  BY <1>13 DEF FindNoA, Works, Fails, Goto
<1>14. CASE FindF
  BY <1>14 DEF FindF, Works, Fails, Goto
<1>15. ASSUME NEW from \in {"restoreA", "restoreF"}, NEW to \in {"armF", "pick"},
              RestoreRetries(from, to) PROVE Ranges'
  <2>1. ASSUME NEW tags \in SUBSET Tags, AddChips(tags)
        PROVE d_chips' \in [ChipIds -> Tags \cup {NoTag}]
    BY <2>1 DEF AddChips, Listed
  <2>2. found \cap Supported \in SUBSET Tags
    OBVIOUS
  <2>3. d_chips' \in [ChipIds -> Tags \cup {NoTag}]
    BY <1>15, <2>1, <2>2 DEF RestoreRetries
  <2> QED BY <1>15, <2>3 DEF RestoreRetries, Works, Fails, Goto, Return
<1>16. CASE Deselect
  BY <1>16 DEF Deselect, DeselectTarget, Works, Fails, Return
<1>17. CASE Reselect
  BY <1>17 DEF Reselect, DeselectTarget, Works, Fails, Goto
<1>18. CASE LimitRetries
  BY <1>18 DEF LimitRetries, Works, Fails, Goto, Return
<1>19. Inserted \in Tags \cup {NoTag}
  BY DEF Inserted, Listed
<1>20. ASSUME NEW ok \in BOOLEAN, Connected(ok), faults' \in 0 .. MaxFaults,
              target' \in Tags \cup {NoTag}, halted' \in SUBSET Tags,
              UNCHANGED <<field, d_device, retryForever>>
       PROVE Ranges'
  BY <1>20 DEF Connected, ConnectLabel, Return, Goto
<1>21. CASE SelectByUid
  <2>0. Works \/ Fails
    BY <1>21 DEF SelectByUid
  <2>1. faults' \in 0 .. MaxFaults
    BY <2>0 DEF Works, Fails
  <2>3. /\ target' \in Tags \cup {NoTag}
        /\ halted' \in SUBSET Tags
        /\ UNCHANGED <<field, d_device, retryForever>>
    BY <1>19, <1>21 DEF SelectByUid
  <2>2. Connected(TRUE) \/ Connected(FALSE)
    BY <1>21 DEF SelectByUid
  <2> QED BY <1>20, <2>1, <2>2, <2>3
<1>22. CASE Refuse
  BY <1>20, <1>22 DEF Refuse
<1>23. CASE StartInsertion
  BY <1>23 DEF StartInsertion, Return, Goto
<1>24. CASE PickChip
  BY <1>24 DEF PickChip, Return, Goto, Listed
<1>25. CASE CheckRemoval
  BY <1>25 DEF CheckRemoval, Return, Goto, ConnectLabel
<1>26. CASE Crash
  BY <1>26 DEF Crash
<1>27. CASE UNCHANGED vars
  BY <1>27 DEF vars
<1>28. CASE TargetReleased
  BY <1>28 DEF TargetReleased, Idle
<1> HIDE DEF Ranges
<1> QED
  BY <1>1, <1>2, <1>3, <1>4, <1>5, <1>6, <1>7, <1>8, <1>9, <1>10, <1>11, <1>12,
     <1>13, <1>14, <1>15, <1>16, <1>17, <1>18, <1>21, <1>22, <1>23, <1>24, <1>25,
     <1>26, <1>27, <1>28
  DEF Next, Environment, Caller, Step, LibnfcCall

LEMMA FlagsStep == Flags /\ [Next]_vars => Flags'
<1> SUFFICES ASSUME Flags, [Next]_vars PROVE Flags'
  OBVIOUS
<1> USE DEF Flags, chips, device, call, hist
<1>1. ASSUME NEW t \in Tags, CardEnters(t) PROVE Flags'
  BY <1>1 DEF CardEnters
<1>2. ASSUME NEW t \in Tags, CardLeaves(t) PROVE Flags'
  BY <1>2 DEF CardLeaves
<1>3. CASE MaxwaitElapses
  BY <1>3 DEF MaxwaitElapses
<1>4. CASE ConnectToReader
  BY <1>4 DEF ConnectToReader, Immediate, Return
<1>5. CASE DisconnectFromReader
  BY <1>5 DEF DisconnectFromReader, Immediate, Return
<1>6. ASSUME NEW wait \in {0, 1}, WaitInsertion(wait) PROVE Flags'
  BY <1>6 DEF WaitInsertion, Begin
<1>7. ASSUME NEW wait \in {0, 1}, WaitRemoval(wait) PROVE Flags'
  BY <1>7 DEF WaitRemoval, Begin
<1>8. CASE Connect
  BY <1>8 DEF Connect, Begin, ConnectLabel
<1>9. CASE Disconnect
  BY <1>9 DEF Disconnect, Begin, Immediate, Return
<1>10. CASE InitReader
  BY <1>10 DEF InitReader, Works, Fails, Goto, Return
<1>11. ASSUME NEW from \in {"armA", "armF"}, NEW to \in {"pollA", "pollF"},
              ListPassiveTargets(from, to) PROVE Flags'
  BY <1>11 DEF ListPassiveTargets, Works, Fails, Goto, Return
<1>12. ASSUME NEW t \in Tags, FindA(t) PROVE Flags'
  BY <1>12 DEF FindA, Works, Fails, Goto
<1>13. CASE FindNoA
  BY <1>13 DEF FindNoA, Works, Fails, Goto
<1>14. CASE FindF
  BY <1>14 DEF FindF, Works, Fails, Goto
<1>15. ASSUME NEW from \in {"restoreA", "restoreF"}, NEW to \in {"armF", "pick"},
              RestoreRetries(from, to) PROVE Flags'
  BY <1>15 DEF RestoreRetries, Works, Fails, Goto, Return
<1>16. CASE Deselect
  BY <1>16 DEF Deselect, DeselectTarget, Works, Fails, Return
<1>17. CASE Reselect
  BY <1>17 DEF Reselect, DeselectTarget, Works, Fails, Goto
<1>18. CASE LimitRetries
  BY <1>18 DEF LimitRetries, Works, Fails, Goto, Return
<1>20. ASSUME NEW ok \in BOOLEAN, Connected(ok), UNCHANGED <<d_device, retryForever>>
       PROVE Flags'
  BY <1>20 DEF Connected, ConnectLabel, Return, Goto
<1>21. CASE SelectByUid
  BY <1>20, <1>21 DEF SelectByUid, Works, Fails
<1>22. CASE Refuse
  BY <1>20, <1>22 DEF Refuse
<1>23. CASE StartInsertion
  BY <1>23 DEF StartInsertion, Return, Goto
<1>24. CASE PickChip
  BY <1>24 DEF PickChip, Return, Goto, Listed
<1>25. CASE CheckRemoval
  BY <1>25 DEF CheckRemoval, Return, Goto, ConnectLabel
<1>26. CASE Crash
  BY <1>26 DEF Crash
<1>27. CASE UNCHANGED vars
  BY <1>27 DEF vars
<1>28. CASE TargetReleased
  BY <1>28 DEF TargetReleased, Idle
<1> HIDE DEF Flags
<1> QED
  BY <1>1, <1>2, <1>3, <1>4, <1>5, <1>6, <1>7, <1>8, <1>9, <1>10, <1>11, <1>12,
     <1>13, <1>14, <1>15, <1>16, <1>17, <1>18, <1>21, <1>22, <1>23, <1>24, <1>25,
     <1>26, <1>27, <1>28
  DEF Next, Environment, Caller, Step, LibnfcCall

LEMMA TypeStep == TypeOK /\ [Next]_vars => TypeOK'
BY RangesStep, FlagsStep DEF TypeOK

\* TypeOK holds in every reachable state.
THEOREM TypeCorrect == Spec => []TypeOK
BY TypeInit, TypeStep, PTL DEF Spec

----------------------------------------------------------------------------
(***************************************************************************)
(* The safety invariants need to know where the call stands: which call    *)
(* each label belongs to, and that connect() refuses what it cannot select *)
(* and nothing else.                                                       *)
(***************************************************************************)
Control ==
    /\ pc = "idle" <=> op = "none"
    /\ pc \in {"start", "init", "armA", "pollA", "restoreA", "armF", "pollF",
               "restoreF", "pick"} => op = "waitInsertion"
    /\ pc \in {"reselect", "limit", "select", "refuse"} => op \in {"connect", "waitRemoval"}
    /\ pc = "check" => op = "waitRemoval"
    /\ pc = "deselect" => op = "disconnect"
    /\ pc = "refuse" => ~Selectable
    /\ pc \in {"reselect", "limit", "select"} => Selectable

LEMMA ControlStep == Control /\ [Next]_vars => Control'
<1> SUFFICES ASSUME Control, [Next]_vars PROVE Control'
  OBVIOUS
<1> USE DEF Control, Selectable, Inserted, Listed, chips, device, call, hist
<1>1. ASSUME NEW t \in Tags, CardEnters(t) PROVE Control'
  BY <1>1 DEF CardEnters
<1>2. ASSUME NEW t \in Tags, CardLeaves(t) PROVE Control'
  BY <1>2 DEF CardLeaves
<1>3. CASE MaxwaitElapses
  BY <1>3 DEF MaxwaitElapses
<1>4. CASE ConnectToReader
  BY <1>4 DEF ConnectToReader, Immediate, Return, Idle
<1>5. CASE DisconnectFromReader
  BY <1>5 DEF DisconnectFromReader, Immediate, Return, Idle
<1>6. ASSUME NEW wait \in {0, 1}, WaitInsertion(wait) PROVE Control'
  BY <1>6 DEF WaitInsertion, Begin, Idle
<1>7. ASSUME NEW wait \in {0, 1}, WaitRemoval(wait) PROVE Control'
  BY <1>7 DEF WaitRemoval, Begin, Idle
<1>8. CASE Connect
  BY <1>8 DEF Connect, Begin, ConnectLabel, Idle
<1>9. CASE Disconnect
  BY <1>9 DEF Disconnect, Begin, Immediate, Return, Idle
<1>10. CASE InitReader
  BY <1>10 DEF InitReader, Goto, Return
<1>11. CASE ListPassiveTargets("armA", "pollA")
  BY <1>11 DEF ListPassiveTargets, Goto, Return
<1>12. CASE ListPassiveTargets("armF", "pollF")
  BY <1>12 DEF ListPassiveTargets, Goto, Return
<1>13. ASSUME NEW t \in Tags, FindA(t) PROVE Control'
  BY <1>13 DEF FindA, Goto
<1>14. CASE FindNoA
  BY <1>14 DEF FindNoA, Goto
<1>15. CASE FindF
  BY <1>15 DEF FindF, Goto
<1>16. CASE RestoreRetries("restoreA", "armF")
  BY <1>16 DEF RestoreRetries, Goto, Return
<1>17. CASE RestoreRetries("restoreF", "pick")
  BY <1>17 DEF RestoreRetries, Goto, Return
<1>18. CASE Deselect
  BY <1>18 DEF Deselect, DeselectTarget, Return
<1>19. CASE Reselect
  BY <1>19 DEF Reselect, DeselectTarget, Goto
<1>20. CASE LimitRetries
  BY <1>20 DEF LimitRetries, Goto, Return
<1>21. CASE SelectByUid
  BY <1>21 DEF SelectByUid, Connected, Goto, Return
<1>22. CASE Refuse
  BY <1>22 DEF Refuse, Connected, Goto, Return
<1>23. CASE StartInsertion
  BY <1>23 DEF StartInsertion, Return, Goto
<1>24. CASE PickChip
  BY <1>24 DEF PickChip, Return, Goto
<1>25. CASE CheckRemoval
  BY <1>25 DEF CheckRemoval, Return, Goto, ConnectLabel
<1>26. CASE Crash
  BY <1>26 DEF Crash, DeviceCalls
<1>27. CASE UNCHANGED vars
  BY <1>27 DEF vars
<1>28. CASE TargetReleased
  BY <1>28 DEF TargetReleased, Idle
<1> QED
  BY <1>1, <1>2, <1>3, <1>4, <1>5, <1>6, <1>7, <1>8, <1>9, <1>10, <1>11, <1>12,
     <1>13, <1>14, <1>15, <1>16, <1>17, <1>18, <1>19, <1>20, <1>21, <1>22, <1>23,
     <1>24, <1>25, <1>26, <1>27, <1>28
  DEF Next, Environment, Caller, Step, LibnfcCall

LEMMA BoundedStep == Control /\ SelectIsBounded /\ [Next]_vars => SelectIsBounded'
<1> SUFFICES ASSUME Control, SelectIsBounded, [Next]_vars PROVE SelectIsBounded'
  OBVIOUS
<1> USE DEF SelectIsBounded, chips, device, call, hist
<1>1. ASSUME NEW t \in Tags, CardEnters(t) PROVE SelectIsBounded'
  BY <1>1 DEF CardEnters
<1>2. ASSUME NEW t \in Tags, CardLeaves(t) PROVE SelectIsBounded'
  BY <1>2 DEF CardLeaves
<1>3. CASE MaxwaitElapses
  BY <1>3 DEF MaxwaitElapses
<1>4. CASE ConnectToReader
  BY <1>4 DEF ConnectToReader, Immediate, Return, Idle
<1>5. CASE DisconnectFromReader
  BY <1>5 DEF DisconnectFromReader, Immediate, Return, Idle
<1>6. ASSUME NEW wait \in {0, 1}, WaitInsertion(wait) PROVE SelectIsBounded'
  BY <1>6 DEF WaitInsertion, Begin, Idle
<1>7. ASSUME NEW wait \in {0, 1}, WaitRemoval(wait) PROVE SelectIsBounded'
  BY <1>7 DEF WaitRemoval, Begin, Idle
<1>8. CASE Connect
  BY <1>8 DEF Connect, Begin, ConnectLabel, Idle
<1>9. CASE Disconnect
  BY <1>9 DEF Disconnect, Begin, Immediate, Return, Idle
<1>10. CASE InitReader
  BY <1>10 DEF InitReader, Goto, Return
<1>11. CASE ListPassiveTargets("armA", "pollA")
  BY <1>11 DEF ListPassiveTargets, Goto, Return
<1>12. CASE ListPassiveTargets("armF", "pollF")
  BY <1>12 DEF ListPassiveTargets, Goto, Return
<1>13. ASSUME NEW t \in Tags, FindA(t) PROVE SelectIsBounded'
  BY <1>13 DEF FindA, Goto
<1>14. CASE FindNoA
  BY <1>14 DEF FindNoA, Goto
<1>15. CASE FindF
  BY <1>15 DEF FindF, Goto
<1>16. CASE RestoreRetries("restoreA", "armF")
  BY <1>16 DEF RestoreRetries, Goto, Return
<1>17. CASE RestoreRetries("restoreF", "pick")
  BY <1>17 DEF RestoreRetries, Goto, Return
<1>18. CASE Deselect
  BY <1>18 DEF Deselect, DeselectTarget, Return
<1>19. CASE Reselect
  BY <1>19 DEF Reselect, DeselectTarget, Goto
<1>20. CASE LimitRetries
  BY <1>20 DEF LimitRetries, Goto, Return
<1>21. CASE SelectByUid
  BY <1>21 DEF SelectByUid, Connected, Goto, Return
<1>22. CASE Refuse
  BY <1>22 DEF Refuse, Connected, Goto, Return
<1>23. CASE StartInsertion
  BY <1>23 DEF StartInsertion, Return, Goto
<1>24. CASE PickChip
  BY <1>24 DEF PickChip, Return, Goto
<1>25. CASE CheckRemoval
  BY <1>25 DEF CheckRemoval, Return, Goto, ConnectLabel
<1>26. CASE Crash
  BY <1>26 DEF Crash, DeviceCalls
<1>27. CASE UNCHANGED vars
  BY <1>27 DEF vars
<1>28. CASE TargetReleased
  BY <1>28 DEF TargetReleased, Idle
<1> QED
  BY <1>1, <1>2, <1>3, <1>4, <1>5, <1>6, <1>7, <1>8, <1>9, <1>10, <1>11, <1>12,
     <1>13, <1>14, <1>15, <1>16, <1>17, <1>18, <1>19, <1>20, <1>21, <1>22, <1>23,
     <1>24, <1>25, <1>26, <1>27, <1>28
  DEF Next, Environment, Caller, Step, LibnfcCall


(***************************************************************************)
(* d_chips and d_insertedChip.  Only RestoreRetries, PickChip and the end  *)
(* of waitRemoval() change them.                                           *)
(***************************************************************************)
LEMMA AddChipsKeeps ==
    ASSUME TypeOK, NEW tags, AddChips(tags), NEW c \in Listed
    PROVE  c \in Listed' /\ d_chips'[c] = d_chips[c]
BY DEF AddChips, Listed

\* What a step may do to the chips.
ChipsOutcome ==
    \/ UNCHANGED <<d_chips, d_insertedChip>>
    \/ /\ pc \in {"restoreA", "restoreF"}
       /\ AddChips(found \cap Supported)
       /\ UNCHANGED <<d_insertedChip, d_chip_connected>>
    \/ PickChip
    \/ /\ d_chips' = [c \in ChipIds |-> NoTag]
       /\ d_insertedChip' = NoChip
       /\ d_chip_connected' = FALSE

LEMMA ChipsStep == [Next]_vars => ChipsOutcome
<1> SUFFICES ASSUME [Next]_vars PROVE ChipsOutcome
  OBVIOUS
<1> USE DEF ChipsOutcome, chips
<1>1. ASSUME NEW t \in Tags, CardEnters(t) PROVE ChipsOutcome
  BY <1>1 DEF CardEnters
<1>2. ASSUME NEW t \in Tags, CardLeaves(t) PROVE ChipsOutcome
  BY <1>2 DEF CardLeaves
<1>3. CASE MaxwaitElapses
  BY <1>3 DEF MaxwaitElapses
<1>4. CASE ConnectToReader
  BY <1>4 DEF ConnectToReader, Immediate, Return, Idle
<1>5. CASE DisconnectFromReader
  BY <1>5 DEF DisconnectFromReader, Immediate, Return, Idle
<1>6. ASSUME NEW wait \in {0, 1}, WaitInsertion(wait) PROVE ChipsOutcome
  BY <1>6 DEF WaitInsertion, Begin, Idle
<1>7. ASSUME NEW wait \in {0, 1}, WaitRemoval(wait) PROVE ChipsOutcome
  BY <1>7 DEF WaitRemoval, Begin, Idle
<1>8. CASE Connect
  BY <1>8 DEF Connect, Begin, ConnectLabel, Idle
<1>9. CASE Disconnect
  BY <1>9 DEF Disconnect, Begin, Immediate, Return, Idle
<1>10. CASE InitReader
  BY <1>10 DEF InitReader, Goto, Return
<1>11. CASE ListPassiveTargets("armA", "pollA")
  BY <1>11 DEF ListPassiveTargets, Goto, Return
<1>12. CASE ListPassiveTargets("armF", "pollF")
  BY <1>12 DEF ListPassiveTargets, Goto, Return
<1>13. ASSUME NEW t \in Tags, FindA(t) PROVE ChipsOutcome
  BY <1>13 DEF FindA, Goto
<1>14. CASE FindNoA
  BY <1>14 DEF FindNoA, Goto
<1>15. CASE FindF
  BY <1>15 DEF FindF, Goto
<1>16. CASE RestoreRetries("restoreA", "armF")
  BY <1>16 DEF RestoreRetries, Goto, Return
<1>17. CASE RestoreRetries("restoreF", "pick")
  BY <1>17 DEF RestoreRetries, Goto, Return
<1>18. CASE Deselect
  BY <1>18 DEF Deselect, DeselectTarget, Return
<1>19. CASE Reselect
  BY <1>19 DEF Reselect, DeselectTarget, Goto
<1>20. CASE LimitRetries
  BY <1>20 DEF LimitRetries, Goto, Return
<1>21. CASE SelectByUid
  BY <1>21 DEF SelectByUid, Connected, Goto, Return
<1>22. CASE Refuse
  BY <1>22 DEF Refuse, Connected, Goto, Return
<1>23. CASE StartInsertion
  BY <1>23 DEF StartInsertion, Return, Goto
<1>24. CASE PickChip
  BY <1>24 DEF PickChip, Return, Goto
<1>25. CASE CheckRemoval
  BY <1>25 DEF CheckRemoval, Return, Goto, ConnectLabel
<1>26. CASE Crash
  BY <1>26 DEF Crash, DeviceCalls
<1>27. CASE UNCHANGED vars
  BY <1>27 DEF vars
<1>28. CASE TargetReleased
  BY <1>28 DEF TargetReleased, Idle
<1> QED
  BY <1>1, <1>2, <1>3, <1>4, <1>5, <1>6, <1>7, <1>8, <1>9, <1>10, <1>11, <1>12,
     <1>13, <1>14, <1>15, <1>16, <1>17, <1>18, <1>19, <1>20, <1>21, <1>22, <1>23,
     <1>24, <1>25, <1>26, <1>27, <1>28
  DEF Next, Environment, Caller, Step, LibnfcCall

LEMMA InsertedStep == TypeOK /\ InsertedIsListed /\ [Next]_vars => InsertedIsListed'
<1> SUFFICES ASSUME TypeOK, InsertedIsListed, [Next]_vars PROVE InsertedIsListed'
  OBVIOUS
<1>1. CASE UNCHANGED <<d_chips, d_insertedChip>>
  BY <1>1 DEF InsertedIsListed, Listed
<1>2. CASE AddChips(found \cap Supported) /\ UNCHANGED d_insertedChip
  BY <1>2, AddChipsKeeps DEF InsertedIsListed
<1>3. CASE PickChip
  BY <1>3 DEF PickChip, InsertedIsListed, Listed
<1>4. CASE d_insertedChip' = NoChip
  BY <1>4 DEF InsertedIsListed
<1> QED BY <1>1, <1>2, <1>3, <1>4, ChipsStep DEF ChipsOutcome


(***************************************************************************)
(* What a careful caller gets: while the unit is connected, libnfc's       *)
(* target is the inserted card unless a command lost it, and no listing    *)
(* runs that could change it.                                              *)
(***************************************************************************)
Linked ==
    Careful /\ d_chip_connected
        => /\ Inserted \in Tags /\ op # "waitInsertion"
           /\ target = Inserted \/ (Commands /\ target = NoTag)

LEMMA LinkedStep == TypeOK /\ Control /\ Linked /\ [Next]_vars => Linked'
<1> SUFFICES ASSUME TypeOK, Control, Linked, [Next]_vars PROVE Linked'
  OBVIOUS
<1> USE UnitAssumption DEF UnitAssumption, TypeOK, Flags, Ranges, Control, Linked, Inserted, Listed, chips, device, call, hist
<1>1. ASSUME NEW t \in Tags, CardEnters(t) PROVE Linked'
  BY <1>1 DEF CardEnters
<1>2. ASSUME NEW t \in Tags, CardLeaves(t) PROVE Linked'
  BY <1>2 DEF CardLeaves
<1>3. CASE MaxwaitElapses
  BY <1>3 DEF MaxwaitElapses
<1>4. CASE ConnectToReader
  BY <1>4 DEF ConnectToReader, Immediate, Return, Idle
<1>5. CASE DisconnectFromReader
  BY <1>5 DEF DisconnectFromReader, Immediate, Return, Idle
<1>6. ASSUME NEW wait \in {0, 1}, WaitInsertion(wait) PROVE Linked'
  BY <1>6 DEF WaitInsertion, Begin, Idle
<1>7. ASSUME NEW wait \in {0, 1}, WaitRemoval(wait) PROVE Linked'
  BY <1>7 DEF WaitRemoval, Begin, Idle
<1>8. CASE Connect
  BY <1>8 DEF Connect, Begin, ConnectLabel, Idle
<1>9. CASE Disconnect
  BY <1>9 DEF Disconnect, Begin, Immediate, Return, Idle
<1>10. CASE InitReader
  BY <1>10 DEF InitReader, Goto, Return
<1>11. CASE ListPassiveTargets("armA", "pollA")
  BY <1>11 DEF ListPassiveTargets, Goto, Return
<1>12. CASE ListPassiveTargets("armF", "pollF")
  BY <1>12 DEF ListPassiveTargets, Goto, Return
<1>13. ASSUME NEW t \in Tags, FindA(t) PROVE Linked'
  BY <1>13 DEF FindA, Goto
<1>14. CASE FindNoA
  BY <1>14 DEF FindNoA, Goto
<1>15. CASE FindF
  BY <1>15 DEF FindF, Goto
<1>16. CASE RestoreRetries("restoreA", "armF")
  BY <1>16 DEF RestoreRetries, Goto, Return
<1>17. CASE RestoreRetries("restoreF", "pick")
  BY <1>17 DEF RestoreRetries, Goto, Return
<1>18. CASE Deselect
  BY <1>18 DEF Deselect, DeselectTarget, Return
<1>19. CASE Reselect
  BY <1>19 DEF Reselect, DeselectTarget, Goto
<1>20. CASE LimitRetries
  BY <1>20 DEF LimitRetries, Goto, Return
<1>21. CASE SelectByUid
  BY <1>21 DEF SelectByUid, Connected, Goto, Return
<1>22. CASE Refuse
  BY <1>22 DEF Refuse, Connected, Goto, Return
<1>23. CASE StartInsertion
  BY <1>23 DEF StartInsertion, Return, Goto
<1>24. CASE PickChip
  BY <1>24 DEF PickChip, Return, Goto
<1>25. CASE CheckRemoval
  BY <1>25 DEF CheckRemoval, Return, Goto, ConnectLabel
<1>26. CASE Crash
  BY <1>26 DEF Crash, DeviceCalls
<1>27. CASE UNCHANGED vars
  BY <1>27 DEF vars
<1>28. CASE TargetReleased
  BY <1>28 DEF TargetReleased, Idle
<1> QED
  BY <1>1, <1>2, <1>3, <1>4, <1>5, <1>6, <1>7, <1>8, <1>9, <1>10, <1>11, <1>12,
     <1>13, <1>14, <1>15, <1>16, <1>17, <1>18, <1>19, <1>20, <1>21, <1>22, <1>23,
     <1>24, <1>25, <1>26, <1>27, <1>28
  DEF Next, Environment, Caller, Step, LibnfcCall


(***************************************************************************)
(* The inductive invariant of the unit.                                    *)
(***************************************************************************)
UnitInv == TypeOK /\ Control /\ InsertedIsListed /\ SelectIsBounded /\ Linked

THEOREM UnitInvariant == Spec => []UnitInv
<1>1. Init => UnitInv
  <2> SUFFICES ASSUME Init PROVE UnitInv
    OBVIOUS
  <2>1. TypeOK
    BY TypeInit
  <2>2. Control /\ InsertedIsListed /\ SelectIsBounded /\ Linked
    BY DEF Init, Control, InsertedIsListed, SelectIsBounded, Linked
  <2> QED BY <2>1, <2>2 DEF UnitInv
<1>2. UnitInv /\ [Next]_vars => UnitInv'
  BY TypeStep, ControlStep, InsertedStep, BoundedStep, LinkedStep DEF UnitInv
<1> QED BY <1>1, <1>2, PTL DEF Spec

\* InsertedIsListed: connect() and waitRemoval() never miss the inserted chip.
THEOREM InsertedAlwaysListed == Spec => []InsertedIsListed
<1>1. UnitInv => InsertedIsListed
  BY DEF UnitInv
<1> QED BY <1>1, UnitInvariant, PTL

\* SelectIsBounded: connect() and refreshChipList() never wait for ever for a
\* card, whatever property call failed before.
THEOREM SelectsBounded == Spec => []SelectIsBounded
<1>1. UnitInv => SelectIsBounded
  BY DEF UnitInv
<1> QED BY <1>1, UnitInvariant, PTL

\* The listing runs with a device, disconnect() deselects what connect() could
\* select, and a crash finds no device.
DeviceInv ==
    /\ op = "waitInsertion" /\ pc # "start" => d_device
    /\ pc = "deselect" => Selectable
    /\ pc = "crashed" => ~d_device /\ Selectable

LEMMA DeviceStep == Control /\ DeviceInv /\ [Next]_vars => DeviceInv'
<1> SUFFICES ASSUME Control, DeviceInv, [Next]_vars PROVE DeviceInv'
  OBVIOUS
<1> USE DEF Control, DeviceInv, Selectable, Inserted, Listed, chips, device, call, hist
<1>1. CASE Environment
  BY <1>1 DEF Environment, CardEnters, CardLeaves, MaxwaitElapses
<1>2. CASE Caller
  BY <1>2 DEF Caller, ConnectToReader, DisconnectFromReader, WaitInsertion, WaitRemoval, Connect,
             ConnectLabel, Disconnect, TargetReleased, Begin, Immediate, Return, Idle
<1>3. CASE d_device /\ LibnfcCall
  <2>1. d_device' /\ pc' \notin {"deselect", "crashed"}
    BY <1>3 DEF LibnfcCall, InitReader, ListPassiveTargets, FindA, FindNoA, FindF, RestoreRetries,
               Deselect, Reselect, LimitRetries, SelectByUid, Connected, Goto, Return
  <2> QED BY <2>1
<1>4. CASE StartInsertion \/ PickChip \/ Refuse \/ CheckRemoval
  BY <1>4 DEF StartInsertion, PickChip, Refuse, CheckRemoval, Connected, ConnectLabel, Goto, Return
<1>5. CASE Crash
  BY <1>5 DEF Crash, DeviceCalls
<1>6. CASE UNCHANGED vars
  BY <1>6 DEF vars
<1> QED BY <1>1, <1>2, <1>3, <1>4, <1>5, <1>6 DEF Next, Step

\* CrashNeedsChip: the only null dereference the unit can meet is that of a
\* listed ISO14443A chip whose reader was closed, or could not be opened.
THEOREM CrashesNeedChip == Spec => []CrashNeedsChip
<1>1. Init => DeviceInv
  BY DEF Init, DeviceInv
<1>2. UnitInv /\ DeviceInv /\ [Next]_vars => DeviceInv'
  BY DeviceStep DEF UnitInv
<1>3. DeviceInv => CrashNeedsChip
  BY DEF DeviceInv, CrashNeedsChip
<1> QED BY <1>1, <1>2, <1>3, UnitInvariant, PTL DEF Spec

\* ConnectedIsSelected, for a caller who disconnects from a card before waiting
\* for the next one, as long as no command is sent (TargetReleased).
THEOREM ConnectedSelected ==
    ASSUME Careful, ~Commands
    PROVE  Spec => []ConnectedIsSelected
<1>1. UnitInv => ConnectedIsSelected
  BY UnitAssumption DEF UnitAssumption, UnitInv, Linked, ConnectedIsSelected
<1> QED BY <1>1, UnitInvariant, PTL

----------------------------------------------------------------------------
(***************************************************************************)
(* The answers.  The history of a call covers the field since its start.   *)
(***************************************************************************)
History ==
    /\ op = "waitInsertion" => field \subseteq seen
    /\ op # "none" => Tags \ field \subseteq gone /\ faultsBefore <= faults

LEMMA HistoryStep == TypeOK /\ Control /\ History /\ [Next]_vars => History'
<1> SUFFICES ASSUME TypeOK, Control, History, [Next]_vars PROVE History'
  OBVIOUS
<1> USE UnitAssumption DEF UnitAssumption, TypeOK, Ranges, Control, History, Works, Fails, chips, device, call, hist
<1>1. ASSUME NEW t \in Tags, CardEnters(t) PROVE History'
  BY <1>1 DEF CardEnters
<1>2. ASSUME NEW t \in Tags, CardLeaves(t) PROVE History'
  BY <1>2 DEF CardLeaves
<1>3. CASE MaxwaitElapses
  BY <1>3 DEF MaxwaitElapses
<1>4. CASE ConnectToReader
  BY <1>4 DEF ConnectToReader, Immediate, Return, Idle
<1>5. CASE DisconnectFromReader
  BY <1>5 DEF DisconnectFromReader, Immediate, Return, Idle
<1>6. ASSUME NEW wait \in {0, 1}, WaitInsertion(wait) PROVE History'
  BY <1>6 DEF WaitInsertion, Begin, Idle
<1>7. ASSUME NEW wait \in {0, 1}, WaitRemoval(wait) PROVE History'
  BY <1>7 DEF WaitRemoval, Begin, Idle
<1>8. CASE Connect
  BY <1>8 DEF Connect, Begin, ConnectLabel, Idle
<1>9. CASE Disconnect
  BY <1>9 DEF Disconnect, Begin, Immediate, Return, Idle
<1>10. CASE InitReader
  BY <1>10 DEF InitReader, Goto, Return
<1>11. CASE ListPassiveTargets("armA", "pollA")
  BY <1>11 DEF ListPassiveTargets, Goto, Return
<1>12. CASE ListPassiveTargets("armF", "pollF")
  BY <1>12 DEF ListPassiveTargets, Goto, Return
<1>13. ASSUME NEW t \in Tags, FindA(t) PROVE History'
  BY <1>13 DEF FindA, Goto
<1>14. CASE FindNoA
  BY <1>14 DEF FindNoA, Goto
<1>15. CASE FindF
  BY <1>15 DEF FindF, Goto
<1>16. CASE RestoreRetries("restoreA", "armF")
  BY <1>16 DEF RestoreRetries, Goto, Return
<1>17. CASE RestoreRetries("restoreF", "pick")
  BY <1>17 DEF RestoreRetries, Goto, Return
<1>18. CASE Deselect
  BY <1>18 DEF Deselect, DeselectTarget, Return
<1>19. CASE Reselect
  BY <1>19 DEF Reselect, DeselectTarget, Goto
<1>20. CASE LimitRetries
  BY <1>20 DEF LimitRetries, Goto, Return
<1>21. CASE SelectByUid
  BY <1>21 DEF SelectByUid, Connected, Goto, Return
<1>22. CASE Refuse
  BY <1>22 DEF Refuse, Connected, Goto, Return
<1>23. CASE StartInsertion
  BY <1>23 DEF StartInsertion, Return, Goto
<1>24. CASE PickChip
  BY <1>24 DEF PickChip, Return, Goto
<1>25. CASE CheckRemoval
  BY <1>25 DEF CheckRemoval, Return, Goto, ConnectLabel
<1>26. CASE Crash
  BY <1>26 DEF Crash, DeviceCalls
<1>27. CASE UNCHANGED vars
  BY <1>27 DEF vars
<1>28. CASE TargetReleased
  BY <1>28 DEF TargetReleased, Idle
<1> QED
  BY <1>1, <1>2, <1>3, <1>4, <1>5, <1>6, <1>7, <1>8, <1>9, <1>10, <1>11, <1>12,
     <1>13, <1>14, <1>15, <1>16, <1>17, <1>18, <1>19, <1>20, <1>21, <1>22, <1>23,
     <1>24, <1>25, <1>26, <1>27, <1>28
  DEF Next, Environment, Caller, Step, LibnfcCall


\* Which step gives which answer, and how connect() leaves the unit.
AnswerStep ==
    /\ Returns("waitRemoval", "true") => Inserted = NoTag \/ SelectByUid \/ Refuse
    /\ Returns("waitInsertion", "true") => PickChip
    /\ op = "connect" /\ op' = "none"
        => \/ d_chip_connected' = FALSE /\ result' # "true"
           \/ d_chip_connected' = TRUE /\ result' = "true" /\ target' = Inserted

LEMMA AnswerSteps == Control /\ [Next]_vars => AnswerStep
<1> SUFFICES ASSUME Control, [Next]_vars PROVE AnswerStep
  OBVIOUS
<1> USE DEF Control, AnswerStep, Returns, chips, device, call, hist
<1>1. ASSUME NEW t \in Tags, CardEnters(t) PROVE AnswerStep
  BY <1>1 DEF CardEnters
<1>2. ASSUME NEW t \in Tags, CardLeaves(t) PROVE AnswerStep
  BY <1>2 DEF CardLeaves
<1>3. CASE MaxwaitElapses
  BY <1>3 DEF MaxwaitElapses
<1>4. CASE ConnectToReader
  BY <1>4 DEF ConnectToReader, Immediate, Return, Idle
<1>5. CASE DisconnectFromReader
  BY <1>5 DEF DisconnectFromReader, Immediate, Return, Idle
<1>6. ASSUME NEW wait \in {0, 1}, WaitInsertion(wait) PROVE AnswerStep
  BY <1>6 DEF WaitInsertion, Begin, Idle
<1>7. ASSUME NEW wait \in {0, 1}, WaitRemoval(wait) PROVE AnswerStep
  BY <1>7 DEF WaitRemoval, Begin, Idle
<1>8. CASE Connect
  BY <1>8 DEF Connect, Begin, ConnectLabel, Idle
<1>9. CASE Disconnect
  BY <1>9 DEF Disconnect, Begin, Immediate, Return, Idle
<1>10. CASE InitReader
  BY <1>10 DEF InitReader, Goto, Return
<1>11. CASE ListPassiveTargets("armA", "pollA")
  BY <1>11 DEF ListPassiveTargets, Goto, Return
<1>12. CASE ListPassiveTargets("armF", "pollF")
  BY <1>12 DEF ListPassiveTargets, Goto, Return
<1>13. ASSUME NEW t \in Tags, FindA(t) PROVE AnswerStep
  BY <1>13 DEF FindA, Goto
<1>14. CASE FindNoA
  BY <1>14 DEF FindNoA, Goto
<1>15. CASE FindF
  BY <1>15 DEF FindF, Goto
<1>16. CASE RestoreRetries("restoreA", "armF")
  BY <1>16 DEF RestoreRetries, Goto, Return
<1>17. CASE RestoreRetries("restoreF", "pick")
  BY <1>17 DEF RestoreRetries, Goto, Return
<1>18. CASE Deselect
  BY <1>18 DEF Deselect, DeselectTarget, Return
<1>19. CASE Reselect
  BY <1>19 DEF Reselect, DeselectTarget, Goto
<1>20. CASE LimitRetries
  BY <1>20 DEF LimitRetries, Goto, Return
<1>21. CASE SelectByUid
  BY <1>21 DEF SelectByUid, Connected, Goto, Return
<1>22. CASE Refuse
  BY <1>22 DEF Refuse, Connected, Goto, Return
<1>23. CASE StartInsertion
  BY <1>23 DEF StartInsertion, Return, Goto
<1>24. CASE PickChip
  BY <1>24 DEF PickChip, Return, Goto
<1>25. CASE CheckRemoval
  BY <1>25 DEF CheckRemoval, Return, Goto, ConnectLabel
<1>26. CASE Crash
  BY <1>26 DEF Crash, DeviceCalls
<1>27. CASE UNCHANGED vars
  BY <1>27 DEF vars
<1>28. CASE TargetReleased
  BY <1>28 DEF TargetReleased, Idle
<1> QED
  BY <1>1, <1>2, <1>3, <1>4, <1>5, <1>6, <1>7, <1>8, <1>9, <1>10, <1>11, <1>12,
     <1>13, <1>14, <1>15, <1>16, <1>17, <1>18, <1>19, <1>20, <1>21, <1>22, <1>23,
     <1>24, <1>25, <1>26, <1>27, <1>28
  DEF Next, Environment, Caller, Step, LibnfcCall

AnswerInv == UnitInv /\ History

LEMMA AnswerInvariant == Spec => []AnswerInv
<1>1. Init => History
  BY DEF Init, History
<1>2. UnitInv /\ History /\ [Next]_vars => History'
  BY HistoryStep DEF UnitInv
<1> QED BY <1>1, <1>2, UnitInvariant, PTL DEF Spec, AnswerInv

\* TypeARemovalIsReal, whatever cards there are and whatever the caller does: the
\* removal of an ISO14443A card that waitRemoval() reports is one.
THEOREM TypeARemovalReal == Spec => TypeARemovalIsReal
<1>1. ASSUME AnswerInv, [Next]_vars, Returns("waitRemoval", "true"), Undisturbed, Selectable
      PROVE  Inserted \in gone
  <2> USE <1>1 DEF AnswerInv, UnitInv
  <2>1. Inserted \in Tags /\ Inserted # NoTag
    BY UnitAssumption DEF UnitAssumption, Selectable
  <2>2. SelectByUid
    BY <2>1, AnswerSteps DEF AnswerStep, Control, Refuse
  <2>3. op # "none"
    BY DEF Returns
  <2>4. ~Fails
    BY <2>3, UnitAssumption DEF Undisturbed, Fails, History, TypeOK, Ranges, UnitAssumption
  <2>5. Inserted \notin field
    BY <2>2, <2>4 DEF SelectByUid, Connected, Goto, Returns, call
  <2> QED BY <2>1, <2>3, <2>5 DEF History
<1> QED BY <1>1, AnswerInvariant, PTL DEF TypeARemovalIsReal, Spec

\* RemovalIsReal, for a reader that meets ISO14443A cards only: every removal
\* that waitRemoval() reports is one.
THEOREM RemovalReal ==
    ASSUME TypeA = Tags
    PROVE  Spec => RemovalIsReal
<1>1. TypeOK /\ Inserted # NoTag => Selectable
  BY DEF Inserted, Selectable, Listed, TypeOK, Ranges
<1> QED BY <1>1, TypeCorrect, TypeARemovalReal, PTL DEF TypeARemovalIsReal, RemovalIsReal

\* ConnectIsHonest: what connect() answers is what isConnected() says, and what
\* libnfc has selected.
THEOREM ConnectHonest == Spec => ConnectIsHonest
<1>1. Control /\ [Next]_vars
        => (op = "connect" /\ op' = "none"
              => /\ d_chip_connected' <=> (result' = "true")
                 /\ d_chip_connected' => target' = Inserted)
  BY AnswerSteps DEF AnswerStep
<1>2. UnitInv => Control
  BY DEF UnitInv
<1> QED BY <1>1, <1>2, UnitInvariant, PTL DEF ConnectIsHonest, Spec

(***************************************************************************)
(* A call that began with an empty map lists only cards it has seen.       *)
(***************************************************************************)
FreshSeen ==
    op = "waitInsertion"
        => /\ found \subseteq seen
           /\ fresh => \A c \in Listed : d_chips[c] \in seen

\* What AddChips puts in the map is one of the candidates.
LEMMA AddChipsAdds ==
    ASSUME TypeOK, NEW tags, AddChips(tags), NEW c \in Listed'
    PROVE  (c \in Listed /\ d_chips'[c] = d_chips[c]) \/ d_chips'[c] \in tags
<1>1. CASE c \in Listed
  BY <1>1 DEF AddChips, Listed
<1>2. CASE c \notin Listed
  <2> DEFINE free == ChipIds \ Listed
  <2>1. PICK at \in [free -> tags \cup {NoTag}] :
             d_chips' = [b \in ChipIds |-> IF b \in free THEN at[b] ELSE d_chips[b]]
    BY DEF AddChips
  <2>2. c \in free
    BY <1>2 DEF Listed
  <2>3. d_chips'[c] = at[c] /\ d_chips'[c] # NoTag
    BY <2>1, <2>2 DEF Listed
  <2> QED BY <2>2, <2>3
<1> QED BY <1>1, <1>2

LEMMA FreshStep == TypeOK /\ Control /\ History /\ FreshSeen /\ [Next]_vars => FreshSeen'
<1> SUFFICES ASSUME TypeOK, Control, History, FreshSeen, [Next]_vars PROVE FreshSeen'
  OBVIOUS
<1> USE DEF Control, History, FreshSeen, Listed, chips, device, call, hist
<1>0. ASSUME AddChips(found \cap Supported), op = "waitInsertion", fresh
      PROVE  \A c \in Listed' : d_chips'[c] \in seen
  <2> HIDE DEF Listed
  <2> TAKE c \in Listed'
  <2>1. CASE c \in Listed /\ d_chips'[c] = d_chips[c]
    BY <1>0, <2>1
  <2>2. CASE d_chips'[c] \in found \cap Supported
    BY <1>0, <2>2
  <2> QED BY <1>0, <2>1, <2>2, AddChipsAdds
<1>1. ASSUME NEW t \in Tags, CardEnters(t) PROVE FreshSeen'
  BY <1>1 DEF CardEnters
<1>2. ASSUME NEW t \in Tags, CardLeaves(t) PROVE FreshSeen'
  BY <1>2 DEF CardLeaves
<1>3. CASE MaxwaitElapses
  BY <1>3 DEF MaxwaitElapses
<1>4. CASE ConnectToReader
  BY <1>4 DEF ConnectToReader, Immediate, Return, Idle
<1>5. CASE DisconnectFromReader
  BY <1>5 DEF DisconnectFromReader, Immediate, Return, Idle
<1>6. ASSUME NEW wait \in {0, 1}, WaitInsertion(wait) PROVE FreshSeen'
  <2>1. found' = {} /\ Listed' = Listed
    BY <1>6 DEF WaitInsertion, Begin
  <2>2. fresh' => Listed = {}
    BY <1>6 DEF WaitInsertion, Begin
  <2> QED BY <2>1, <2>2
<1>7. ASSUME NEW wait \in {0, 1}, WaitRemoval(wait) PROVE FreshSeen'
  BY <1>7 DEF WaitRemoval, Begin, Idle
<1>8. CASE Connect
  BY <1>8 DEF Connect, Begin, ConnectLabel, Idle
<1>9. CASE Disconnect
  BY <1>9 DEF Disconnect, Begin, Immediate, Return, Idle
<1>10. CASE InitReader
  BY <1>10 DEF InitReader, Goto, Return
<1>11. CASE ListPassiveTargets("armA", "pollA")
  BY <1>11 DEF ListPassiveTargets, Goto, Return
<1>12. CASE ListPassiveTargets("armF", "pollF")
  BY <1>12 DEF ListPassiveTargets, Goto, Return
<1>13. ASSUME NEW t \in Tags, FindA(t) PROVE FreshSeen'
  BY <1>13 DEF FindA, Goto
<1>14. CASE FindNoA
  BY <1>14 DEF FindNoA, Goto
<1>15. CASE FindF
  BY <1>15 DEF FindF, Goto
<1>16. CASE RestoreRetries("restoreA", "armF")
  BY <1>16, <1>0 DEF RestoreRetries, Goto, Return
<1>17. CASE RestoreRetries("restoreF", "pick")
  BY <1>17, <1>0 DEF RestoreRetries, Goto, Return
<1>18. CASE Deselect
  BY <1>18 DEF Deselect, DeselectTarget, Return
<1>19. CASE Reselect
  BY <1>19 DEF Reselect, DeselectTarget, Goto
<1>20. CASE LimitRetries
  BY <1>20 DEF LimitRetries, Goto, Return
<1>21. CASE SelectByUid
  BY <1>21 DEF SelectByUid, Connected, Goto, Return
<1>22. CASE Refuse
  BY <1>22 DEF Refuse, Connected, Goto, Return
<1>23. CASE StartInsertion
  BY <1>23 DEF StartInsertion, Return, Goto
<1>24. CASE PickChip
  BY <1>24 DEF PickChip, Return, Goto
<1>25. CASE CheckRemoval
  BY <1>25 DEF CheckRemoval, Return, Goto, ConnectLabel
<1>26. CASE Crash
  BY <1>26 DEF Crash, DeviceCalls
<1>27. CASE UNCHANGED vars
  BY <1>27 DEF vars
<1>28. CASE TargetReleased
  BY <1>28 DEF TargetReleased, Idle
<1> QED
  BY <1>1, <1>2, <1>3, <1>4, <1>5, <1>6, <1>7, <1>8, <1>9, <1>10, <1>11, <1>12,
     <1>13, <1>14, <1>15, <1>16, <1>17, <1>18, <1>19, <1>20, <1>21, <1>22, <1>23,
     <1>24, <1>25, <1>26, <1>27, <1>28
  DEF Next, Environment, Caller, Step, LibnfcCall


\* FreshInsertionIsReal: with nothing left over in d_chips, waitInsertion()
\* reports a card that was in the field during the call.
THEOREM FreshInsertionReal == Spec => FreshInsertionIsReal
<1>1. Init => FreshSeen
  BY DEF Init, FreshSeen
<1>2. AnswerInv /\ FreshSeen /\ [Next]_vars => FreshSeen'
  BY FreshStep DEF AnswerInv, UnitInv
<1>3. Spec => []FreshSeen
  BY <1>1, <1>2, AnswerInvariant, PTL DEF Spec
<1>4. ASSUME AnswerInv, FreshSeen, [Next]_vars, Returns("waitInsertion", "true"), fresh
      PROVE  d_chips[d_insertedChip'] \in seen
  <2>1. PickChip
    BY <1>4, AnswerSteps DEF AnswerStep, AnswerInv, UnitInv
  <2>2. d_insertedChip' \in Listed
    BY <2>1, <1>4 DEF PickChip, Returns, Goto, Return, call
  <2> QED BY <2>2, <1>4 DEF FreshSeen, Returns
<1> QED BY <1>3, <1>4, AnswerInvariant, PTL DEF FreshInsertionIsReal, Spec

(***************************************************************************)
(* What a turn of waitInsertion() has seen of the field, while no card has *)
(* moved since the call began and no libnfc call has failed.               *)
(***************************************************************************)
Calm == faults = faultsBefore /\ seen \cap gone = {}

\* The init drops the field, so that no card is halted; from then on the listed
\* ISO14443A cards are those that are halted, until none is left to answer.
Looking ==
    /\ pc = "armA" => halted = {}
    /\ pc = "pollA" => halted = found
    /\ pc = "restoreA" => field \cap TypeA \subseteq found
    /\ pc \in {"armF", "pollF", "restoreF"} /\ field \cap TypeA \cap Supported # {}
         => Listed # {}
    /\ pc = "restoreF" /\ ~(field \subseteq TypeA) => found \cap Supported # {}
    /\ pc = "pick" /\ field \cap Supported # {} => Listed # {}

Seeing == op = "waitInsertion" /\ Calm => Looking

\* AddChips forgets no chip, and makes one if there is a candidate.
LEMMA AddChipsLists ==
    ASSUME TypeOK, NEW tags \in SUBSET Tags, AddChips(tags), tags # {} \/ Listed # {}
    PROVE  Listed' # {}
<1>1. CASE Listed # {}
  BY <1>1, AddChipsKeeps
<1>2. CASE tags # {}
  <2> DEFINE free == ChipIds \ Listed
  <2>1. PICK at \in [free -> tags \cup {NoTag}] :
             /\ \A t \in tags : \E c \in free : \A b \in free : (at[b] = t) <=> (b = c)
             /\ d_chips' = [c \in ChipIds |-> IF c \in free THEN at[c] ELSE d_chips[c]]
    BY DEF AddChips
  <2>2. PICK t \in tags : TRUE
    BY <1>2
  <2>3. PICK c \in free : at[c] = t
    BY <2>1, <2>2
  <2>4. c \in ChipIds /\ d_chips'[c] = t /\ t # NoTag
    BY <2>1, <2>3, UnitAssumption DEF UnitAssumption
  <2> QED BY <2>4 DEF Listed
<1> QED BY <1>1, <1>2

\* A card that moves ends the calm.
LEMMA MovesEndCalm ==
    ASSUME TypeOK, History, op = "waitInsertion", NEW t \in Tags,
           CardEnters(t) \/ CardLeaves(t)
    PROVE  ~Calm'
<1>1. CASE CardEnters(t)
  <2>1. t \in gone' /\ t \in seen'
    BY <1>1 DEF CardEnters, History, TypeOK, Ranges
  <2> QED BY <2>1 DEF Calm
<1>2. CASE CardLeaves(t)
  <2>1. t \in gone' /\ t \in seen'
    BY <1>2 DEF CardLeaves, History, TypeOK, Ranges
  <2> QED BY <2>1 DEF Calm
<1> QED BY <1>1, <1>2

LEMMA SeeingStep ==
    ASSUME Tags \ TypeA \subseteq Supported,
           TypeOK, Control, History, Seeing, [Next]_vars
    PROVE  Seeing'
<1> SUFFICES ASSUME op' = "waitInsertion", Calm' PROVE Looking'
  BY DEF Seeing
<1> USE DEF Control, Looking, chips, device, call, hist
<1>0. op = "waitInsertion" /\ faults' = faults /\ UNCHANGED hist => Looking
  BY DEF Seeing, Calm
<1>1. ASSUME NEW t \in Tags, CardEnters(t) \/ CardLeaves(t) PROVE Looking'
  <2>1. op = "waitInsertion"
    BY <1>1 DEF CardEnters, CardLeaves
  <2> QED BY <1>1, <2>1, MovesEndCalm
<1>2. ASSUME Fails, op = "waitInsertion", UNCHANGED hist PROVE FALSE
  <2>1. faults' = faults + 1 /\ faultsBefore <= faults /\ faultsBefore' = faultsBefore
    BY <1>2 DEF Fails, History
  <2>2. faults' = faultsBefore'
    BY DEF Calm
  <2>3. faults \in Nat /\ faultsBefore \in Nat
    BY UnitAssumption DEF UnitAssumption, TypeOK, Ranges
  <2> HIDE DEF Looking, Control
  <2> QED BY <2>1, <2>2, <2>3
<1>3. CASE MaxwaitElapses
  BY <1>0, <1>3 DEF MaxwaitElapses, Listed
<1>4. CASE ConnectToReader
  BY <1>4 DEF ConnectToReader, Immediate, Return
<1>5. CASE DisconnectFromReader
  BY <1>5 DEF DisconnectFromReader, Immediate, Return
<1>6. ASSUME NEW wait \in {0, 1}, WaitInsertion(wait) PROVE Looking'
  BY <1>6 DEF WaitInsertion, Begin
<1>7. ASSUME NEW wait \in {0, 1}, WaitRemoval(wait) PROVE Looking'
  BY <1>7 DEF WaitRemoval, Begin
<1>8. CASE Connect
  BY <1>8 DEF Connect, Begin
<1>9. CASE Disconnect
  BY <1>9 DEF Disconnect, Begin, Immediate, Return
<1>10. CASE InitReader
  BY <1>10 DEF InitReader, Goto, Return
<1>11. CASE ListPassiveTargets("armA", "pollA")
  BY <1>0, <1>11 DEF ListPassiveTargets, Works, Goto, Return
<1>12. CASE ListPassiveTargets("armF", "pollF")
  BY <1>0, <1>12 DEF ListPassiveTargets, Works, Goto, Return, Listed
<1>13. ASSUME NEW t \in Tags, FindA(t) PROVE Looking'
  <2>1. Works /\ Looking
    BY <1>0, <1>2, <1>13 DEF FindA, Works, Goto
  <2>2. t \notin found
    BY <1>13, <2>1 DEF FindA
  <2>3. pc' = "pollA" /\ found' = found \cup {t} /\ halted' = halted \cup {t}
    BY <1>2, <1>13, <2>1, <2>2 DEF FindA, Goto
  <2> QED BY <1>13, <2>1, <2>3 DEF FindA
<1>14. CASE FindNoA
  <2>1. Works /\ Looking
    BY <1>0, <1>2, <1>14 DEF FindNoA, Works, Goto
  <2> QED BY <1>2, <1>14, <2>1 DEF FindNoA, Goto
<1>15. CASE FindF
  <2>1. Works /\ Looking /\ pc = "pollF" /\ pc' = "restoreF" /\ UNCHANGED <<field, d_chips>>
    BY <1>0, <1>2, <1>15 DEF FindF, Works, Goto
  <2>2. ~(field \subseteq TypeA) => found' \cap Supported # {}
    BY <1>2, <1>15, TypeOK DEF FindF, Goto, TypeOK, Ranges
  <2> QED BY <2>1, <2>2 DEF Listed
<1>16. CASE RestoreRetries("restoreA", "armF")
  <2>1. /\ AddChips(found \cap Supported) /\ Looking
        /\ pc = "restoreA" /\ pc' = "armF" /\ UNCHANGED field
    BY <1>0, <1>16 DEF RestoreRetries, Works, Goto, Return
  <2>2. field \cap TypeA \cap Supported # {} => found \cap Supported # {}
    BY <2>1
  <2>3. found \cap Supported \in SUBSET Tags
    BY DEF TypeOK, Ranges
  <2> QED BY <2>1, <2>2, <2>3, AddChipsLists
<1>17. CASE RestoreRetries("restoreF", "pick")
  <2>1. /\ AddChips(found \cap Supported) /\ Looking
        /\ pc = "restoreF" /\ pc' = "pick" /\ UNCHANGED field
    BY <1>0, <1>17 DEF RestoreRetries, Works, Goto, Return
  <2>2. field \cap Supported # {} => found \cap Supported # {} \/ Listed # {}
    BY <2>1
  <2>3. found \cap Supported \in SUBSET Tags
    BY DEF TypeOK, Ranges
  <2> QED BY <2>1, <2>2, <2>3, AddChipsLists
<1>18. CASE Deselect
  BY <1>18 DEF Deselect, Return
<1>19. CASE Reselect \/ LimitRetries \/ SelectByUid \/ Refuse \/ CheckRemoval
  <2>1. op # "waitInsertion"
    BY <1>19 DEF Reselect, LimitRetries, SelectByUid, Refuse, CheckRemoval
  <2>2. op' \in {op, "none"}
    BY <1>19 DEF Reselect, LimitRetries, SelectByUid, Refuse, CheckRemoval, Connected, Goto, Return
  <2> QED BY <2>1, <2>2
<1>20. CASE StartInsertion
  BY <1>20 DEF StartInsertion, Return, Goto
<1>21. CASE PickChip
  BY <1>21 DEF PickChip, Return, Goto
<1>22. CASE Crash
  BY <1>22 DEF Crash
<1>23. CASE UNCHANGED vars
  BY <1>0, <1>23 DEF vars, Listed
<1>24. CASE TargetReleased
  BY <1>0, <1>24 DEF TargetReleased, Listed
<1> QED
  BY <1>1, <1>3, <1>4, <1>5, <1>6, <1>7, <1>8, <1>9, <1>10, <1>11, <1>12, <1>13, <1>14,
     <1>15, <1>16, <1>17, <1>18, <1>19, <1>20, <1>21, <1>22, <1>23, <1>24
  DEF Next, Environment, Caller, Step, LibnfcCall

\* TimeoutIsReal: waitInsertion() gives up only if the field holds no card it
\* could have seen.  Every FeliCa card must be supported, as the table says
\* (nfcreaderunit.cpp:55): the listing stops at the first one.
THEOREM TimeoutReal ==
    ASSUME Tags \ TypeA \subseteq Supported
    PROVE  Spec => TimeoutIsReal
<1>1. Init => Seeing
  BY DEF Init, Seeing
<1>2. AnswerInv /\ Seeing /\ [Next]_vars => Seeing'
  BY SeeingStep DEF AnswerInv, UnitInv
<1>3. Spec => []Seeing
  BY <1>1, <1>2, AnswerInvariant, PTL DEF Spec
<1>4. ASSUME AnswerInv, Seeing, Next, Returns("waitInsertion", "false"), maxwait # 0,
             Undisturbed, seen \cap gone = {}
      PROVE  field \cap Supported = {}
  <2>1. op = "waitInsertion" /\ op' = "none" /\ result' = "false" /\ Control /\ TypeOK
    BY <1>4 DEF Returns, AnswerInv, UnitInv
  <2>2. PickChip
    <3> USE <2>1 DEF Control, chips, device, call, hist
    <3>1. ~Environment
      BY DEF Environment, CardEnters, CardLeaves, MaxwaitElapses
    <3>2. ~Caller
      BY DEF Caller, ConnectToReader, DisconnectFromReader, WaitInsertion, WaitRemoval,
             Connect, Disconnect, TargetReleased, Begin, Immediate, Idle
    <3>3. ~LibnfcCall
      BY DEF LibnfcCall, InitReader, ListPassiveTargets, FindA, FindNoA, FindF,
             RestoreRetries, Deselect, Reselect, LimitRetries, SelectByUid, Goto, Return
    <3>4. ~StartInsertion /\ ~Refuse /\ ~CheckRemoval /\ ~Crash
      BY <1>4 DEF StartInsertion, Refuse, CheckRemoval, Crash, Goto, Return
    <3> QED BY <1>4, <3>1, <3>2, <3>3, <3>4 DEF Next, Step
  <2>3. Listed = {} /\ pc = "pick" /\ faults' = faults
    BY <2>1, <2>2 DEF PickChip, Return
  <2>4. Calm
    BY <1>4, <2>3 DEF Calm, Undisturbed, Returns
  <2> QED BY <1>4, <2>1, <2>3, <2>4 DEF Seeing, Looking
<1> QED BY <1>3, <1>4, AnswerInvariant, PTL DEF TimeoutIsReal, Spec
=============================================================================
