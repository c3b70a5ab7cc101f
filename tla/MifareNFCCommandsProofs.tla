---------------------- MODULE MifareNFCCommandsProofs ----------------------
(***************************************************************************)
(* What MifareNFCCommands guarantees for any blocks, keys, values and      *)
(* number of errors, and for any result checker.                           *)
(***************************************************************************)
EXTENDS MifareNFCCommands, TLAPS

Arguments == Values \cup {None} \cup [type : KeyTypes, key : Keys]

PublicCalls ==
    {c \in [name : Calls, block : Blocks, value : Arguments] :
        /\ c.name = "authenticate" => c.value \in [type : KeyTypes, key : Keys]
        /\ c.name \in {"updateBinary", "increment", "decrement",
                       "increment_raw", "decrement_raw"} => c.value \in Values}

\* The raw commands of a public call: the last one, and the one before it.
Last(c) ==
    CASE c.name = "authenticate"            -> c
      [] c.name \in {"readBinary", "send"}  -> Command("read", c.block, None)
      [] c.name = "updateBinary"            -> Command("write", c.block, c.value)
      [] c.name = "increment_raw"           -> Command("increment", c.block, c.value)
      [] c.name = "decrement_raw"           -> Command("decrement", c.block, c.value)
      [] c.name = "restore"                 -> Command("restore", c.block, None)
      [] OTHER                              -> Command("transfer", c.block, None)

First(c) == Command(c.name, c.block, c.value)

TwoCommands(c) == c.name \in {"increment", "decrement"}

\* What increment() and decrement() leave in the card's transfer buffer.
NewValue(c, mem) ==
    IF c.name = "increment" THEN mem[c.block] + c.value ELSE mem[c.block] - c.value

\* What is left to do of a call that runs.
Runs == pc \in {"send", "reselect"}

CallInv ==
    /\ Runs => call \in PublicCalls
    /\ Runs => \/ todo = <<Last(call)>>
               \/ TwoCommands(call) /\ todo = <<First(call), Last(call)>>
    /\ pc = "reselect" => call.name = "authenticate"

\* The card's blocks are as they were when the call began, and the transfer buffer
\* holds what the first of two commands has put into it.
EffectInv ==
    /\ before = memory
    /\ Runs /\ TwoCommands(call) /\ todo = <<Last(call)>> /\ ~ignoreTransport
         => register \in {None, NewValue(call, before)}

\* A card that nothing happened to is active until a key is refused.
CalmInv ==
    /\ active => inField
    /\ Runs /\ call.name = "authenticate" /\ calm
         => IF pc = "reselect" THEN inField ELSE active

IInv == TypeOK /\ CallInv /\ EffectInv /\ CalmInv

\* Sequences of one and of two commands.
LEMMA Tuples ==
    ASSUME NEW x, NEW y
    PROVE  /\ Len(<<x>>) = 1 /\ Head(<<x>>) = x
           /\ Len(<<x, y>>) = 2 /\ Head(<<x, y>>) = x /\ Tail(<<x, y>>) = <<y>>
OBVIOUS

\* The raw commands of a public call are commands for its block.
LEMMA CommandsFit ==
    ASSUME NEW c \in PublicCalls
    PROVE  /\ Last(c).name \in Commands /\ Last(c).block = c.block
           /\ TwoCommands(c) => First(c).name \in Commands /\ First(c).block = c.block
BY DEF PublicCalls, Calls, Last, First, TwoCommands, Command, Commands

\* The initial states satisfy the invariant.
LEMMA InitInv == Init => IInv
<1> SUFFICES ASSUME Init PROVE IInv
  OBVIOUS
<1>1. inField \in BOOLEAN /\ active = FALSE /\ calm = FALSE /\ pc = "idle"
  BY DEF Init
<1>2. TypeOK
  <2>1. {inField, active, d_chip_connected, ignoreAdapter, ignoreTransport, calm} \subseteq BOOLEAN
    BY <1>1, Zenon DEF Init
  <2>2. memory \in [Blocks -> Values] /\ before \in [Blocks -> Values]
    BY DEF Init
  <2> QED BY <2>1, <2>2, MifareAssumption DEF Init, TypeOK, MifareAssumption
<1>3. CallInv /\ EffectInv /\ CalmInv
  BY <1>1 DEF Init, CallInv, EffectInv, CalmInv, Runs
<1> QED BY <1>2, <1>3 DEF IInv

\* A call that begins, with the raw commands that make it up.
LEMMA BeginInv ==
    ASSUME IInv, NEW c \in PublicCalls, NEW commands, Begin(c, commands),
           \/ commands = <<Last(c)>> /\ ~TwoCommands(c)
           \/ TwoCommands(c) /\ commands = <<First(c), Last(c)>>
    PROVE  IInv'
<1>1. call' = c /\ todo' = commands /\ pc' = "send"
  BY DEF Begin
<1>2. TypeOK'
  <2>1. Len(commands) \in 1 .. 2
    BY Tuples
  <2>2. \A i \in 1 .. Len(commands) : commands[i].name \in Commands /\ commands[i].block = c.block
    BY CommandsFit, Tuples
  <2>3. c.name \in Calls /\ c.block \in Blocks
    BY DEF PublicCalls
  <2> QED BY <1>1, <2>1, <2>2, <2>3 DEF Begin, IInv, TypeOK, card, flags
<1>3. CallInv'
  BY <1>1 DEF CallInv, Runs
<1>4. EffectInv'
  <2>1. TwoCommands(c) => commands # <<Last(c)>>
    BY Tuples
  <2> QED BY <1>1, <2>1 DEF Begin, IInv, EffectInv, card
<1>5. CalmInv'
  BY <1>1 DEF Begin, IInv, CalmInv, card
<1> QED BY <1>2, <1>3, <1>4, <1>5 DEF IInv

----------------------------------------------------------------------------
\* A call that is over, or that throws, whatever it did to the card.
LEMMA ReturnInv ==
    ASSUME IInv, Runs, NEW value \in Values \cup {None, Threw}, Return(value),
           TypeOK', active' => inField'
    PROVE  IInv'
BY DEF Return, IInv, CallInv, EffectInv, CalmInv, Runs

\* The next raw command of a call.
LEMMA NextCommand ==
    ASSUME IInv, Runs, NEW r, r = Head(todo)
    PROVE  /\ call \in PublicCalls /\ call.block \in Blocks
           /\ r.name \in Commands /\ r.block = call.block
           /\ \/ Len(todo) = 1 /\ todo = <<Last(call)>> /\ r = Last(call)
              \/ /\ Len(todo) = 2 /\ TwoCommands(call) /\ r = First(call)
                 /\ Tail(todo) = <<Last(call)>>
<1>1. call \in PublicCalls
  BY DEF IInv, CallInv
<1>2. call.block \in Blocks
  BY <1>1 DEF PublicCalls
<1>3. CASE todo = <<Last(call)>>
  BY <1>1, <1>2, <1>3, CommandsFit, Tuples
<1>4. CASE TwoCommands(call) /\ todo = <<First(call), Last(call)>>
  BY <1>1, <1>2, <1>4, CommandsFit, Tuples
<1> QED BY <1>3, <1>4 DEF IInv, CallInv

\* The kinds of raw commands, and the arguments of those that have one.
LEMMA CommandKinds ==
    ASSUME NEW c \in PublicCalls
    PROVE  /\ Last(c).name = "authenticate" <=> c.name = "authenticate"
           /\ c.name = "authenticate" => Last(c) = c /\ c.value \in [type : KeyTypes, key : Keys]
           /\ Last(c).name = "read" <=> c.name \in {"readBinary", "send"}
           /\ Last(c).name = "write" <=> c.name = "updateBinary"
           /\ Last(c).name = "transfer" <=> c.name = "transfer" \/ TwoCommands(c)
           /\ Last(c).name = "increment" <=> c.name = "increment_raw"
           /\ Last(c).name = "decrement" <=> c.name = "decrement_raw"
           /\ Last(c).name \in {"write", "increment", "decrement"}
                => Last(c).value = c.value /\ c.value \in Values
           /\ TwoCommands(c) => /\ First(c).name = c.name /\ First(c).value = c.value
                                /\ c.value \in Values
BY DEF PublicCalls, Calls, Last, First, TwoCommands, Command

\* What the card's variables hold after a command that it executes.
LEMMA ExecutesOK ==
    ASSUME IInv, Runs, Executes(Head(todo))
    PROVE  /\ authenticated' \in {SectorOf[b] : b \in Blocks} \cup {None}
           /\ register' \in Values \cup {None}
           /\ memory' \in [Blocks -> Values]
           /\ active' = active /\ inField' = inField /\ active
<1> DEFINE r == Head(todo)
<1>1. /\ call \in PublicCalls /\ call.block \in Blocks
      /\ r.name \in Commands /\ r.block = call.block
      /\ r = Last(call) \/ (TwoCommands(call) /\ r = First(call))
  BY NextCommand
<1>2. /\ r.name \in {"write", "increment", "decrement"} => r.value \in Values
  BY <1>1, CommandKinds DEF TwoCommands
<1>3. Executes(r)
  OBVIOUS
<1> HIDE DEF r
<1>4. /\ memory \in [Blocks -> Values] /\ register \in Values \cup {None}
      /\ authenticated \in {SectorOf[b] : b \in Blocks} \cup {None}
      /\ memory[r.block] \in Values /\ MaxValue \in Nat
  BY <1>1, MifareAssumption DEF IInv, TypeOK, MifareAssumption
<1>5. Accepts(r) /\ active' = active /\ inField' = inField /\ active
  BY <1>3 DEF Executes, Accepts
<1>6. authenticated' \in {SectorOf[b] : b \in Blocks} \cup {None}
  BY <1>1, <1>3, <1>4 DEF Executes
<1>7. register' \in Values \cup {None}
  BY <1>1, <1>2, <1>3, <1>4, <1>5 DEF Executes, Accepts, Values
<1>8. memory' \in [Blocks -> Values]
  <2>1. r.name = "transfer" => register \in Values
    BY <1>4, <1>5 DEF Accepts
  <2> QED BY <1>1, <1>2, <1>3, <1>4, <2>1 DEF Executes
<1> QED BY <1>5, <1>6, <1>7, <1>8

\* The call is over, or its second command is left.
Advances(value) ==
    \/ Return(value)
    \/ /\ TwoCommands(call) /\ todo = <<First(call), Last(call)>> /\ todo' = <<Last(call)>>
       /\ pc = "send" /\ pc' = "send" /\ UNCHANGED <<call, result, before>>

\* The part of the type invariant that is about the card.
CardOK ==
    /\ inField \in BOOLEAN /\ active \in BOOLEAN
    /\ authenticated \in {SectorOf[b] : b \in Blocks} \cup {None}
    /\ register \in Values \cup {None}
    /\ memory \in [Blocks -> Values]

\* The call advances, and every variable keeps its type.
LEMMA AdvancesType ==
    ASSUME IInv, Runs, NEW value \in Values \cup {None, Threw}, Advances(value), CardOK',
           d_chip_connected' \in BOOLEAN, UNCHANGED <<d_key, flags>>,
           d_response' \in Values \cup {None},
           faults' \in 0 .. MaxFaults, calm' \in BOOLEAN
    PROVE  TypeOK'
<1>1. CASE Return(value)
  <2>1. before' \in [Blocks -> Values]
    BY <1>1 DEF Return, CardOK
  <2> QED BY <1>1, <2>1 DEF Return, CardOK, IInv, TypeOK, flags
<1>2. CASE ~Return(value)
  <2>1. /\ todo' = <<Last(call)>> /\ pc' = "send" /\ UNCHANGED <<call, result, before>>
    BY <1>2 DEF Advances
  <2>2. /\ Last(call).name \in Commands /\ Last(call).block = call.block
        /\ call.name \in Calls /\ call.block \in Blocks
    BY CommandsFit DEF IInv, CallInv, PublicCalls
  <2>3. Len(todo') \in 1 .. 2 /\ \A i \in 1 .. Len(todo') : todo'[i] = Last(call)
    BY <2>1, Tuples
  <2> QED BY <2>1, <2>2, <2>3 DEF CardOK, IInv, TypeOK, flags
<1> QED BY <1>1, <1>2

\* Works and Fails keep the number of errors and the history in their types.
LEMMA FaultsOK ==
    ASSUME IInv, Works \/ Fails
    PROVE  faults' \in 0 .. MaxFaults /\ calm' \in BOOLEAN /\ (calm' => Works)
<1>1. calm \in BOOLEAN /\ faults \in 0 .. MaxFaults
  BY DEF IInv, TypeOK
<1>2. faults' \in 0 .. MaxFaults
  BY <1>1, MifareAssumption DEF Works, Fails, MifareAssumption
<1>3. calm' \in BOOLEAN /\ (calm' => Works)
  BY <1>1, Zenon DEF Works, Fails
<1> QED BY <1>2, <1>3

\* A card that is deselected, or that a lost command never reached.
LEMMA DeactivatedOK ==
    ASSUME IInv, Deactivated \/ UNCHANGED card
    PROVE  CardOK' /\ memory' = memory /\ inField' = inField
           /\ register' \in {None, register} /\ (active' => active)
<1>1. CardOK
  BY DEF CardOK, IInv, TypeOK
<1>2. CASE Deactivated
  <2>1. active' = FALSE /\ active' \in BOOLEAN
    BY <1>2, Zenon DEF Deactivated
  <2> QED BY <1>1, <1>2, <2>1 DEF Deactivated, CardOK
<1>3. CASE UNCHANGED card
  BY <1>1, <1>3 DEF card, CardOK
<1> QED BY <1>2, <1>3

\* What the outcomes of a raw command have in common.
LEMMA ProceedAdvances ==
    ASSUME IInv, pc = "send", NEW value, Proceed(value)
    PROVE  Advances(value)
<1>1. CASE todo = <<Last(call)>>
  <2>1. Len(todo) = 1
    BY <1>1, Tuples
  <2> QED BY <2>1 DEF Proceed, Advances
<1>2. CASE TwoCommands(call) /\ todo = <<First(call), Last(call)>>
  <2>1. Len(todo) = 2 /\ Tail(todo) = <<Last(call)>>
    BY <1>2, Tuples
  <2> QED BY <1>2, <2>1 DEF Proceed, Advances
<1> QED BY <1>1, <1>2 DEF IInv, CallInv, Runs

\* A refused command ends the call, unless the transport ignores errors.
LEMMA RefusedAdvances ==
    ASSUME IInv, Runs, Refused
    PROVE  /\ d_response' = None
           /\ Return(None) \/ Return(Threw) \/ (Advances(None) /\ ignoreTransport)
           /\ ~ignoreTransport => Return(Threw)
<1>1. CASE pc = "send"
  BY <1>1, ProceedAdvances, MifareAssumption DEF Refused, IInv, TypeOK
<1>2. CASE pc = "reselect"
  <2>1. Len(todo) = 1
    BY <1>2, Tuples DEF IInv, CallInv, Runs, TwoCommands
  <2> QED BY <2>1 DEF Refused, Proceed
<1> QED BY <1>1, <1>2 DEF Runs

----------------------------------------------------------------------------
\* The invariant after a step that advances the call.
LEMMA AdvancesInv ==
    ASSUME IInv, Runs, NEW value \in Values \cup {None, Threw}, Advances(value),
           TypeOK', active' => inField', UNCHANGED flags,
           ~Return(value) => /\ memory' = memory
                             /\ ~ignoreTransport => register' \in {None, NewValue(call, before)}
    PROVE  IInv'
<1>1. CASE Return(value)
  BY <1>1, ReturnInv
<1>2. CASE ~Return(value)
  <2>1. /\ TwoCommands(call) /\ todo' = <<Last(call)>> /\ pc' = "send"
        /\ call' = call /\ before' = before /\ ignoreTransport' = ignoreTransport
    BY <1>2 DEF Advances, flags
  <2>2. CallInv'
    BY <2>1 DEF CallInv, Runs, IInv
  <2>3. EffectInv'
    BY <1>2, <2>1 DEF EffectInv, IInv
  <2>4. CalmInv'
    BY <2>1 DEF CalmInv, TwoCommands
  <2> QED BY <2>2, <2>3, <2>4 DEF IInv
<1> QED BY <1>1, <1>2

\* The first of two commands changes the transfer buffer only.
LEMMA FirstExecuted ==
    ASSUME IInv, Runs, TwoCommands(call), todo = <<First(call), Last(call)>>,
           Executes(Head(todo))
    PROVE  memory' = memory /\ register' = NewValue(call, before)
<1>1. Head(todo) = First(call) /\ before = memory
  BY Tuples DEF IInv, EffectInv
<1>2. call \in PublicCalls /\ First(call).block = call.block
  BY DEF IInv, CallInv, First, Command
<1>3. First(call).name = call.name /\ First(call).value = call.value
  BY <1>2, CommandKinds
<1>4. Executes(First(call))
  BY <1>1
<1> QED BY <1>1, <1>2, <1>3, <1>4 DEF Executes, NewValue, TwoCommands

\* The last one does what the call is meant to do.
LEMMA LastExecuted ==
    ASSUME IInv, Runs, todo = <<Last(call)>>, ~ignoreTransport \/ ~TwoCommands(call),
           Executes(Head(todo))
    PROVE  memory' = Intended
<1>1. Executes(Last(call)) /\ before = memory
  BY Tuples DEF IInv, EffectInv
<1>2. call \in PublicCalls /\ Last(call).block = call.block
  BY CommandsFit DEF IInv, CallInv
<1>3. TwoCommands(call) /\ register # None => register = NewValue(call, before)
  BY DEF IInv, EffectInv
<1>4. CASE Last(call).name = "transfer"
  <2>1. register # None /\ memory' = [memory EXCEPT ![call.block] = register]
    BY <1>1, <1>2, <1>4 DEF Executes, Accepts
  <2>2. CASE call.name = "transfer"
    BY <1>1, <2>1, <2>2 DEF Intended
  <2>3. CASE TwoCommands(call)
    BY <1>1, <1>3, <2>1, <2>3 DEF Intended, NewValue, TwoCommands
  <2> QED BY <1>2, <1>4, <2>2, <2>3, CommandKinds
<1>5. CASE Last(call).name = "write"
  <2>1. call.name = "updateBinary" /\ Last(call).value = call.value
    BY <1>2, <1>5, CommandKinds
  <2> QED BY <1>1, <1>2, <1>5, <2>1 DEF Executes, Intended
<1>6. CASE Last(call).name \notin {"transfer", "write"}
  <2>1. memory' = memory
    BY <1>1, <1>6 DEF Executes
  <2>2. call.name \notin {"updateBinary", "increment", "decrement", "transfer"}
    BY <1>2, <1>6, CommandKinds DEF TwoCommands
  <2> QED BY <1>1, <2>1, <2>2 DEF Intended
<1> QED BY <1>4, <1>5, <1>6

----------------------------------------------------------------------------
\* The action properties, of one step.
EffectStep ==
    Ends /\ ~ignoreTransport
        => memory' \in {Intended} \cup (IF result' = Threw THEN {before} ELSE {})
ReadStep ==
    Ends /\ call.name = "readBinary" => result' \in {None, Threw, memory'[call.block]}
AuthStep ==
    Ends /\ call.name = "authenticate" /\ calm'
        => active' /\ (result' = Threw => d_chip_connected')

Steps == EffectStep /\ ReadStep /\ AuthStep

\* A command that the card executes, and whose answer arrives.
LEMMA ExecutedStep ==
    ASSUME IInv, pc = "send", Works, Executes(Head(todo)),
           Answered(IF Head(todo).name = "read" THEN memory[Head(todo).block] ELSE None),
           UNCHANGED <<d_chip_connected, d_key, flags>>
    PROVE  IInv' /\ Steps
<1> DEFINE r == Head(todo)
           v == IF r.name = "read" THEN memory[r.block] ELSE None
<1>0. Runs /\ Answered(v) /\ Executes(Head(todo))
  BY DEF Runs
<1>1. /\ call \in PublicCalls /\ call.block \in Blocks
      /\ r.name \in Commands /\ r.block = call.block
      /\ \/ Len(todo) = 1 /\ todo = <<Last(call)>> /\ r = Last(call)
         \/ /\ Len(todo) = 2 /\ TwoCommands(call) /\ r = First(call)
            /\ Tail(todo) = <<Last(call)>>
  BY <1>0, NextCommand
<1>2. v \in Values \cup {None} /\ (r.name # "read" => v = None)
      /\ (r.name = "read" => v = memory[call.block] /\ v \in Values)
  BY <1>1 DEF IInv, TypeOK
<1>3. CardOK' /\ active' = active /\ inField' = inField /\ active
  BY <1>0, ExecutesOK DEF CardOK, IInv, TypeOK
<1>4. faults' \in 0 .. MaxFaults /\ calm' \in BOOLEAN
  BY FaultsOK
<1> HIDE DEF v, r
<1>5. \/ call.name = "send" /\ d_response' = v /\ Return(None)
      \/ /\ d_response' = None
         /\ \/ v \in Rejected /\ Return(Threw)
            \/ Proceed(v)
  BY <1>0 DEF Answered
<1>6. Proceed(v) => Advances(v)
  BY <1>2, ProceedAdvances
<1>7. PICK w \in {None, Threw, v} : /\ Advances(w) /\ (w = Threw => v \in Rejected)
                                    /\ (call.name # "send" => w \in {Threw, v})
                                    /\ d_response' \in {None, v}
  <2>0. None # Threw /\ v # Threw
    BY <1>2, MifareAssumption DEF MifareAssumption
  <2>1. CASE call.name = "send" /\ d_response' = v /\ Return(None)
    <3>1. Advances(None)
      BY <2>1 DEF Advances
    <3> QED BY <2>0, <2>1, <3>1
  <2>2. CASE d_response' = None /\ v \in Rejected /\ Return(Threw)
    <3>1. Advances(Threw)
      BY <2>2 DEF Advances
    <3> QED BY <2>2, <3>1
  <2>3. CASE d_response' = None /\ Proceed(v)
    <3>1. Advances(v)
      BY <2>3, <1>6
    <3> QED BY <2>0, <2>3, <3>1
  <2> QED BY <1>5, <2>1, <2>2, <2>3
<1>8. w \in Values \cup {None, Threw}
  BY <1>2, <1>7
<1>9. TypeOK'
  BY <1>0, <1>2, <1>3, <1>4, <1>7, <1>8, AdvancesType DEF IInv, TypeOK
<1>10. ~Return(w) => /\ memory' = memory
                     /\ ~ignoreTransport => register' \in {None, NewValue(call, before)}
  BY <1>0, <1>7, FirstExecuted DEF Advances
<1>11. IInv'
  <2>1. active' => inField'
    BY <1>3 DEF IInv, CalmInv
  <2> QED BY <1>0, <1>7, <1>8, <1>9, <1>10, <2>1, AdvancesInv
<1>12. EffectStep
  <2> SUFFICES ASSUME Ends, ~ignoreTransport
               PROVE  memory' \in {Intended} \cup (IF result' = Threw THEN {before} ELSE {})
    BY DEF EffectStep
  <2>1. CASE todo = <<Last(call)>>
    BY <1>0, <2>1, LastExecuted
  <2>2. CASE TwoCommands(call) /\ todo = <<First(call), Last(call)>>
    <3>1. memory' = before
      BY <1>0, <2>2, FirstExecuted DEF IInv, EffectInv
    <3>2. ~Proceed(v)
      BY <2>2, Tuples DEF Proceed, Ends
    <3>3. v \in Rejected /\ Return(Threw)
      BY <1>5, <2>2, <3>2 DEF TwoCommands
    <3> QED BY <3>1, <3>3 DEF Return
  <2> QED BY <1>0, <2>1, <2>2 DEF IInv, CallInv
<1>13. ReadStep
  <2> SUFFICES ASSUME Ends, call.name = "readBinary"
               PROVE  result' \in {None, Threw, memory'[call.block]}
    BY DEF ReadStep
  <2>1. r.name = "read" /\ r = Last(call)
    BY <1>1, CommandKinds DEF TwoCommands
  <2>2. memory' = memory
    BY <1>0, <2>1 DEF Executes, r
  <2>3. result' = w
    BY <1>7 DEF Advances, Return, Ends
  <2> QED BY <1>2, <1>7, <2>1, <2>2, <2>3
<1>14. AuthStep
  <2> SUFFICES ASSUME Ends, call.name = "authenticate"
               PROVE  active' /\ (result' = Threw => d_chip_connected')
    BY DEF AuthStep
  <2>1. active'
    BY <1>3
  <2>2. r = Last(call) /\ r.name = "authenticate"
    BY <1>1, CommandKinds DEF TwoCommands
  <2>3. v = None /\ v \notin Rejected /\ v # Threw
    BY <1>2, <2>2, MifareAssumption DEF MifareAssumption
  <2>4. result' = w /\ w # Threw
    BY <1>7, <2>3 DEF Advances, Return, Ends
  <2> QED BY <2>1, <2>4
<1> QED BY <1>11, <1>12, <1>13, <1>14 DEF Steps

\* Every other outcome of a raw command that ends in an error.
LEMMA RefusedStep ==
    ASSUME IInv, Runs, Works \/ Fails, Refused, UNCHANGED <<d_key, flags>>,
           d_chip_connected' \in BOOLEAN, CardOK', active' => inField',
           ~ignoreTransport => memory' \in {memory, Intended},
           call.name = "readBinary" \/ (TwoCommands(call) /\ todo = <<First(call), Last(call)>>)
             => memory' = memory,
           call.name = "authenticate" /\ calm' => active' /\ d_chip_connected'
    PROVE  IInv' /\ Steps
<1>1. PICK w \in {None, Threw} : /\ Advances(w)
                                 /\ ~Return(w) => ignoreTransport
                                 /\ ~ignoreTransport => Return(Threw)
  <2>1. CASE Return(None) /\ ignoreTransport
    BY <2>1 DEF Advances
  <2>2. CASE Return(Threw)
    BY <2>2 DEF Advances
  <2>3. CASE Advances(None) /\ ignoreTransport
    BY <2>3
  <2> QED BY <2>1, <2>2, <2>3, RefusedAdvances
<1>2. w \in Values \cup {None, Threw}
  OBVIOUS
<1>3. faults' \in 0 .. MaxFaults /\ calm' \in BOOLEAN
  BY FaultsOK
<1>4. d_response' \in Values \cup {None}
  BY RefusedAdvances
<1>5. TypeOK'
  BY <1>1, <1>2, <1>3, <1>4, AdvancesType
<1>6. IInv'
  <2>1. ~Return(w) => memory' = memory
    BY <1>1 DEF Advances
  <2> QED BY <1>1, <1>2, <1>5, <2>1, AdvancesInv
<1>7. EffectStep
  BY <1>1 DEF EffectStep, Return, IInv, EffectInv
<1>8. ReadStep
  <2> SUFFICES ASSUME Ends, call.name = "readBinary"
               PROVE  result' \in {None, Threw, memory'[call.block]}
    BY DEF ReadStep
  <2>1. Return(w)
    BY <1>1 DEF Advances, Ends
  <2> QED BY <2>1 DEF Return
<1>9. AuthStep
  BY DEF AuthStep
<1> QED BY <1>6, <1>7, <1>8, <1>9 DEF Steps

\* One raw command, whatever becomes of it.
LEMMA SendStep ==
    ASSUME IInv, Send
    PROVE  IInv' /\ Steps
<1> DEFINE r == Head(todo)
           badKey == r.name = "authenticate" /\ active /\ ~Accepts(r)
<1>0. pc = "send" /\ Runs /\ UNCHANGED <<d_chip_connected, d_key, flags>>
  BY DEF Send, Runs
<1>1. d_chip_connected' \in BOOLEAN /\ (active => inField)
  BY <1>0, Zenon DEF IInv, TypeOK, CalmInv
<1>2. /\ call \in PublicCalls
      /\ r = Last(call) \/ (TwoCommands(call) /\ r = First(call))
      /\ call.name = "authenticate" <=> r.name = "authenticate"
  BY <1>0, NextCommand, CommandKinds DEF TwoCommands
<1>3. CASE /\ Works /\ Executes(r)
           /\ Answered(IF r.name = "read" THEN memory[r.block] ELSE None)
  BY <1>0, <1>3, ExecutedStep
<1>4. CASE Works /\ ~Accepts(r) /\ ~badKey /\ Deactivated /\ Refused
  <2>1. CardOK' /\ memory' = memory /\ inField' = inField /\ (active' => active)
    BY <1>4, DeactivatedOK
  <2>2. call.name = "authenticate" => ~calm'
    <3> SUFFICES ASSUME call.name = "authenticate", calm' PROVE FALSE
      OBVIOUS
    <3>1. calm
      BY <1>4 DEF Works
    <3>2. active
      BY <1>0, <3>1 DEF IInv, CalmInv
    <3> QED BY <1>2, <1>4, <3>2
  <2> QED BY <1>0, <1>1, <1>4, <2>1, <2>2, RefusedStep
<1>5. CASE /\ Works /\ badKey /\ Deactivated
           /\ d_response' = None /\ pc' = "reselect"
           /\ UNCHANGED <<call, todo, result, before>>
  <2>1. CardOK' /\ memory' = memory /\ inField' = inField
    BY <1>5, DeactivatedOK
  <2>2. faults' \in 0 .. MaxFaults /\ calm' \in BOOLEAN
    BY <1>5, FaultsOK
  <2>3. TypeOK'
    <3>1. d_response' \in Values \cup {None} /\ pc' \in {"idle", "send", "reselect"}
      BY <1>5
    <3>2. /\ call'.name \in Calls /\ call'.block \in Blocks /\ Len(todo') \in 1 .. 2
          /\ \A i \in 1 .. Len(todo') :
                todo'[i].name \in Commands /\ todo'[i].block = call'.block
      BY <1>0, <1>5 DEF IInv, TypeOK
    <3>3. before' \in [Blocks -> Values] /\ result' \in Values \cup {None, Threw}
      BY <1>5 DEF IInv, TypeOK
    <3>4. /\ d_key' \in Keys \cup {None}
          /\ {d_chip_connected', ignoreAdapter', ignoreTransport'} \subseteq BOOLEAN
      BY <1>0, Zenon DEF IInv, TypeOK, flags
    <3> QED BY <1>5, <2>1, <2>2, <3>1, <3>2, <3>3, <3>4 DEF TypeOK, CardOK
  <2>4. CallInv'
    BY <1>0, <1>2, <1>5 DEF IInv, CallInv, Runs
  <2>5. EffectInv'
    BY <1>2, <1>5, <2>1 DEF IInv, EffectInv, TwoCommands
  <2>6. CalmInv'
    BY <1>1, <1>5, <2>1 DEF CalmInv, Deactivated
  <2>7. ~Ends
    BY <1>0, <1>5, NextCommand DEF Ends
  <2> QED BY <2>3, <2>4, <2>5, <2>6, <2>7 DEF IInv, Steps, EffectStep, ReadStep, AuthStep
<1>6. CASE /\ Fails
           /\ Executes(r) \/ (~Accepts(r) /\ Deactivated) \/ UNCHANGED card
           /\ Refused
  <2>1. ~calm'
    BY <1>6, Zenon DEF Fails
  <2>2. CASE Executes(r)
    <3>1. CardOK' /\ (active' => inField')
      BY <1>0, <1>1, <2>2, ExecutesOK DEF CardOK, IInv, TypeOK
    <3>2. call.name = "readBinary" => memory' = memory
      BY <1>2, <2>2, CommandKinds DEF Executes, TwoCommands
    <3>3. TwoCommands(call) /\ todo = <<First(call), Last(call)>> => memory' = memory
      BY <1>0, <2>2, FirstExecuted
    <3>4. ~ignoreTransport => memory' \in {memory, Intended}
      BY <1>0, <2>2, <3>3, LastExecuted DEF IInv, CallInv
    <3> QED BY <1>0, <1>1, <1>6, <2>1, <3>1, <3>2, <3>3, <3>4, RefusedStep
  <2>3. CASE Deactivated \/ UNCHANGED card
    <3>1. CardOK' /\ memory' = memory /\ inField' = inField /\ (active' => active)
      BY <2>3, DeactivatedOK
    <3> QED BY <1>0, <1>1, <1>6, <2>1, <3>1, RefusedStep
  <2> QED BY <1>6, <2>2, <2>3
<1> QED BY <1>3, <1>4, <1>5, <1>6 DEF Send

\* The reselection after a refused key.
LEMMA ReselectStep ==
    ASSUME IInv, Reselect
    PROVE  IInv' /\ Steps
<1>0. pc = "reselect" /\ Runs /\ UNCHANGED <<d_key, flags>>
  BY DEF Reselect, Runs
<1>1. call.name = "authenticate" /\ ~TwoCommands(call)
  BY <1>0 DEF IInv, CallInv, TwoCommands
<1>2. calm => inField
  BY <1>0, <1>1 DEF IInv, CalmInv
<1>3. active => inField
  BY DEF IInv, CalmInv
<1>4. CASE Works /\ Selects /\ Refused
  <2>1. active' = TRUE /\ d_chip_connected' = TRUE
    BY <1>4, Zenon DEF Selects
  <2>2. CardOK' /\ memory' = memory /\ inField'
    BY <1>4, <2>1 DEF Selects, CardOK, IInv, TypeOK
  <2>3. active' /\ d_chip_connected'
    BY <2>1
  <2>4. d_chip_connected' \in BOOLEAN
    BY <2>1, Zenon
  <2> QED BY <1>0, <1>1, <1>4, <2>2, <2>3, <2>4, RefusedStep
<1>5. CASE FindsNone /\ Refused
  <2>1. Deactivated /\ d_chip_connected' \in BOOLEAN
    BY <1>5, Zenon DEF FindsNone
  <2>2. CardOK' /\ memory' = memory /\ inField' = inField /\ (active' => active)
    BY <2>1, DeactivatedOK
  <2>3. ~calm'
    <3>1. CASE ~inField /\ Works
      BY <1>2, <3>1, Zenon DEF Works
    <3>2. CASE Fails
      BY <3>2, Zenon DEF Fails
    <3> QED BY <1>5, <3>1, <3>2 DEF FindsNone
  <2>4. Works \/ Fails
    BY <1>5 DEF FindsNone
  <2> QED BY <1>0, <1>1, <1>3, <1>5, <2>1, <2>2, <2>3, <2>4, RefusedStep
<1>6. CASE ConnectThrows /\ Return(Threw) /\ UNCHANGED d_response
  <2>1. /\ Fails /\ d_chip_connected' \in BOOLEAN
        /\ Deactivated \/ UNCHANGED card
    BY <1>6, Zenon DEF ConnectThrows
  <2>2. CardOK' /\ memory' = memory /\ inField' = inField /\ (active' => active)
    BY <2>1, DeactivatedOK
  <2>3. Advances(Threw) /\ faults' \in 0 .. MaxFaults /\ calm' \in BOOLEAN
    BY <1>6, <2>1, FaultsOK DEF Advances
  <2>4. d_response' \in Values \cup {None}
    BY <1>6 DEF IInv, TypeOK
  <2>5. TypeOK'
    BY <1>0, <2>1, <2>2, <2>3, <2>4, AdvancesType
  <2>6. IInv'
    BY <1>0, <1>3, <1>6, <2>2, <2>5, ReturnInv
  <2>7. ~calm'
    BY <2>1, Zenon DEF Fails
  <2>8. result' = Threw /\ memory' = before
    BY <1>6, <2>2 DEF Return, IInv, EffectInv
  <2> QED BY <1>1, <2>6, <2>7, <2>8 DEF Steps, EffectStep, ReadStep, AuthStep
<1> QED BY <1>4, <1>5, <1>6 DEF Reselect

----------------------------------------------------------------------------
\* A call that sends nothing, or a call of connect() or disconnect().
LEMMA ImmediateStep ==
    ASSUME IInv, NEW v \in Values \cup {None, Threw}, Immediate(v),
           CardOK', memory' = memory, active' => inField',
           d_chip_connected' \in BOOLEAN, d_key' \in Keys \cup {None},
           {ignoreAdapter', ignoreTransport'} \subseteq BOOLEAN,
           d_response' \in Values \cup {None},
           faults' \in 0 .. MaxFaults, calm' \in BOOLEAN
    PROVE  IInv' /\ Steps
<1>1. pc = "idle" /\ call = None /\ UNCHANGED <<call, todo, pc, before>> /\ result' = v
  BY DEF Immediate, IInv, TypeOK
<1>2. ~Ends
  BY <1>1 DEF Ends
<1>3. TypeOK'
  BY <1>1 DEF IInv, TypeOK, CardOK
<1>4. CallInv' /\ EffectInv' /\ CalmInv'
  BY <1>1 DEF IInv, CallInv, EffectInv, CalmInv, Runs
<1> QED BY <1>2, <1>3, <1>4 DEF IInv, Steps, EffectStep, ReadStep, AuthStep

\* A call that begins does not end another one.
LEMMA BeginStep ==
    ASSUME IInv, NEW c \in PublicCalls, NEW commands, Begin(c, commands),
           \/ commands = <<Last(c)>> /\ ~TwoCommands(c)
           \/ TwoCommands(c) /\ commands = <<First(c), Last(c)>>
    PROVE  IInv' /\ Steps
<1>1. ~Ends
  BY DEF Begin, Ends, IInv, TypeOK
<1> QED BY <1>1, BeginInv DEF Steps, EffectStep, ReadStep, AuthStep

\* The commands on blocks that carry a value.
LEMMA ValueCallStep ==
    ASSUME IInv, NEW b \in Blocks, NEW v \in Values,
           \/ UpdateBinary(b, v)
           \/ Increment(b, v)
           \/ Decrement(b, v)
           \/ RawCall("increment_raw", "increment", b, v)
           \/ RawCall("decrement_raw", "decrement", b, v)
    PROVE  IInv' /\ Steps
<1> DEFINE c(name) == Command(name, b, v)
<1>1. \A name \in {"updateBinary", "increment", "decrement",
                   "increment_raw", "decrement_raw"} :
          c(name) \in PublicCalls /\ c(name).name = name
  BY DEF PublicCalls, Command, Calls, Arguments
<1>2. CASE UpdateBinary(b, v)
  <2>1. Begin(c("updateBinary"), <<Last(c("updateBinary"))>>)
    BY <1>2 DEF UpdateBinary, Last, Command
  <2> QED BY <1>1, <2>1, BeginStep DEF TwoCommands
<1>3. CASE Increment(b, v)
  <2>1. Begin(c("increment"), <<First(c("increment")), Last(c("increment"))>>)
    BY <1>3 DEF Increment, First, Last, Command
  <2> QED BY <1>1, <2>1, BeginStep DEF TwoCommands
<1>4. CASE Decrement(b, v)
  <2>1. Begin(c("decrement"), <<First(c("decrement")), Last(c("decrement"))>>)
    BY <1>4 DEF Decrement, First, Last, Command
  <2> QED BY <1>1, <2>1, BeginStep DEF TwoCommands
<1>5. CASE RawCall("increment_raw", "increment", b, v)
  <2>1. Begin(c("increment_raw"), <<Last(c("increment_raw"))>>)
    BY <1>5 DEF RawCall, Last, Command
  <2> QED BY <1>1, <2>1, BeginStep DEF TwoCommands
<1>6. CASE RawCall("decrement_raw", "decrement", b, v)
  <2>1. Begin(c("decrement_raw"), <<Last(c("decrement_raw"))>>)
    BY <1>6 DEF RawCall, Last, Command
  <2> QED BY <1>1, <2>1, BeginStep DEF TwoCommands
<1> QED BY <1>2, <1>3, <1>4, <1>5, <1>6

\* The commands on blocks without one.
LEMMA PlainCallStep ==
    ASSUME IInv, NEW b \in Blocks,
           \/ ReadBinary(b)
           \/ SendOnly(b)
           \/ RawCall("restore", "restore", b, None)
           \/ RawCall("transfer", "transfer", b, None)
    PROVE  IInv' /\ Steps
<1> DEFINE c(name) == Command(name, b, None)
<1>1. \A name \in {"readBinary", "send", "restore", "transfer"} :
          c(name) \in PublicCalls /\ c(name).name = name
  BY DEF PublicCalls, Command, Calls, Arguments
<1>2. CASE ReadBinary(b)
  <2>1. Begin(c("readBinary"), <<Last(c("readBinary"))>>)
    BY <1>2 DEF ReadBinary, Last, Command
  <2> QED BY <1>1, <2>1, BeginStep DEF TwoCommands
<1>3. CASE SendOnly(b)
  <2>1. Begin(c("send"), <<Last(c("send"))>>)
    BY <1>3 DEF SendOnly, Last, Command
  <2> QED BY <1>1, <2>1, BeginStep DEF TwoCommands
<1>4. CASE RawCall("restore", "restore", b, None)
  <2>1. Begin(c("restore"), <<Last(c("restore"))>>)
    BY <1>4 DEF RawCall, Last, Command
  <2> QED BY <1>1, <2>1, BeginStep DEF TwoCommands
<1>5. CASE RawCall("transfer", "transfer", b, None)
  <2>1. Begin(c("transfer"), <<Last(c("transfer"))>>)
    BY <1>5 DEF RawCall, Last, Command
  <2> QED BY <1>1, <2>1, BeginStep DEF TwoCommands
<1> QED BY <1>2, <1>3, <1>4, <1>5

\* The authentication, with the key that is loaded.
LEMMA AuthenticateStep ==
    ASSUME IInv, NEW b \in Blocks, NEW type \in KeyTypes, Authenticate(b, type)
    PROVE  IInv' /\ Steps
<1> DEFINE by == [type |-> type, key |-> d_key]
           c == Command("authenticate", b, by)
<1>1. by \in [type : KeyTypes, key : Keys]
  BY DEF Authenticate, IInv, TypeOK
<1>2. c \in PublicCalls /\ c.name = "authenticate" /\ Last(c) = c
  BY <1>1 DEF PublicCalls, Command, Calls, Arguments, Last
<1>3. Begin(c, <<Last(c)>>)
  BY <1>2 DEF Authenticate
<1> QED BY <1>2, <1>3, BeginStep DEF TwoCommands

\* The calls that send no raw command.
LEMMA OtherCallStep ==
    ASSUME IInv,
           \/ \E key \in Keys : LoadKey(key)
           \/ InvalidArgument
           \/ Receive
           \/ \E adapter, transport \in BOOLEAN : IgnoreAllError(adapter, transport)
           \/ Connect
           \/ Disconnect
    PROVE  IInv' /\ Steps
<1>0. /\ CardOK /\ d_key \in Keys \cup {None} /\ d_response \in Values \cup {None}
      /\ faults \in 0 .. MaxFaults /\ (active => inField)
  BY DEF CardOK, IInv, TypeOK, CalmInv
<1>1. {d_chip_connected, ignoreAdapter, ignoreTransport, calm} \subseteq BOOLEAN
  BY Zenon DEF IInv, TypeOK
<1>2. ASSUME NEW key \in Keys, LoadKey(key)
      PROVE  IInv' /\ Steps
  BY <1>0, <1>1, <1>2, ImmediateStep DEF LoadKey, CardOK, card, flags
<1>3. CASE InvalidArgument
  BY <1>0, <1>1, <1>3, ImmediateStep DEF InvalidArgument, CardOK, card, flags
<1>4. CASE Receive
  <2>1. d_response \in Values \cup {None, Threw} /\ Immediate(d_response)
    BY <1>0, <1>4 DEF Receive
  <2> QED BY <1>0, <1>1, <1>4, <2>1, ImmediateStep DEF Receive, CardOK, card, flags
<1>5. ASSUME NEW adapter \in BOOLEAN, NEW transport \in BOOLEAN,
             IgnoreAllError(adapter, transport)
      PROVE  IInv' /\ Steps
  <2>1. {ignoreAdapter', ignoreTransport'} \subseteq BOOLEAN
    BY <1>5, Zenon DEF IgnoreAllError
  <2> QED BY <1>0, <1>1, <1>5, <2>1, ImmediateStep DEF IgnoreAllError, CardOK, card
<1>6. CASE Connect
  <2>0. UNCHANGED <<d_key, flags, d_response>>
    BY <1>6 DEF Connect
  <2>1. PICK v \in {None, Threw} : Immediate(v)
    BY <1>6 DEF Connect
  <2>2. Works \/ Fails
    BY <1>6 DEF Connect, FindsNone, ConnectThrows
  <2>3. faults' \in 0 .. MaxFaults /\ calm' \in BOOLEAN
    BY <2>2, FaultsOK
  <2>4. d_chip_connected' \in BOOLEAN
    BY <1>6, Zenon DEF Connect, Selects, FindsNone, ConnectThrows
  <2>5. CardOK' /\ memory' = memory /\ (active' => inField')
    <3>1. CASE Selects
      <4>1. active' = TRUE /\ active' \in BOOLEAN
        BY <3>1, Zenon DEF Selects
      <4> QED BY <1>0, <3>1, <4>1 DEF Selects, CardOK
    <3>2. CASE Deactivated \/ UNCHANGED card
      BY <1>0, <3>2, DeactivatedOK
    <3> QED BY <1>6, <3>1, <3>2 DEF Connect, FindsNone, ConnectThrows
  <2>6. {ignoreAdapter', ignoreTransport'} \subseteq BOOLEAN
    BY <1>1, <2>0, Zenon DEF flags
  <2> QED BY <1>0, <2>0, <2>1, <2>3, <2>4, <2>5, <2>6, ImmediateStep
<1>7. CASE Disconnect
  <2>0. Immediate(None) /\ UNCHANGED <<d_key, flags, d_response>>
    BY <1>7 DEF Disconnect
  <2>1. Works \/ Fails
    BY <1>7 DEF Disconnect
  <2>2. faults' \in 0 .. MaxFaults /\ calm' \in BOOLEAN
    BY <2>1, FaultsOK
  <2>3. d_chip_connected' \in BOOLEAN
    BY <1>7, Zenon DEF Disconnect
  <2>4. Deactivated \/ UNCHANGED card
    BY <1>7 DEF Disconnect
  <2>5. CardOK' /\ memory' = memory /\ (active' => inField')
    BY <1>0, <2>4, DeactivatedOK
  <2>6. {ignoreAdapter', ignoreTransport'} \subseteq BOOLEAN
    BY <1>1, <2>0, Zenon DEF flags
  <2> QED BY <1>0, <2>0, <2>2, <2>3, <2>5, <2>6, ImmediateStep
<1> QED BY <1>2, <1>3, <1>4, <1>5, <1>6, <1>7

----------------------------------------------------------------------------
\* The card comes and goes between the steps of a call.
LEMMA CardMovesStep ==
    ASSUME IInv, CardEnters \/ CardLeaves
    PROVE  IInv' /\ Steps
<1>1. UNCHANGED <<memory, d_chip_connected, d_key, flags, d_response, call, todo, pc,
                  result, faults, before>>
  BY DEF CardEnters, CardLeaves
<1>2. CardOK /\ (active => inField)
  BY DEF IInv, CalmInv, CardOK, TypeOK
<1>3. ~Ends
  BY <1>1 DEF Ends
<1>4. CASE CardEnters
  <2>1. inField' = TRUE /\ inField' \in BOOLEAN
    BY <1>4, Zenon DEF CardEnters
  <2>2. UNCHANGED <<active, authenticated, register, calm>>
    BY <1>4 DEF CardEnters
  <2>3. TypeOK'
    BY <1>1, <2>1, <2>2 DEF IInv, TypeOK, flags
  <2>4. CallInv' /\ EffectInv' /\ CalmInv'
    BY <1>1, <1>2, <2>1, <2>2 DEF IInv, CallInv, EffectInv, CalmInv, Runs, flags
  <2> QED BY <1>3, <2>3, <2>4 DEF IInv, Steps, EffectStep, ReadStep, AuthStep
<1>5. CASE CardLeaves
  <2>1. /\ inField' = FALSE /\ active' = FALSE /\ calm' = FALSE
        /\ {inField', active', calm'} \subseteq BOOLEAN
    BY <1>5, Zenon DEF CardLeaves
  <2>2. authenticated' = None /\ register' = None
    BY <1>5 DEF CardLeaves
  <2>3. TypeOK'
    BY <1>1, <2>1, <2>2 DEF IInv, TypeOK, flags
  <2>4. CallInv' /\ EffectInv' /\ CalmInv'
    BY <1>1, <2>1, <2>2 DEF IInv, CallInv, EffectInv, CalmInv, Runs, flags
  <2> QED BY <1>3, <2>3, <2>4 DEF IInv, Steps, EffectStep, ReadStep, AuthStep
<1> QED BY <1>4, <1>5

\* Every step keeps the invariant and the action properties.
LEMMA NextStep ==
    ASSUME IInv, [Next]_vars
    PROVE  IInv' /\ (Steps \/ UNCHANGED vars)
<1>1. CASE UNCHANGED vars
  BY <1>1 DEF vars, card, flags, IInv, TypeOK, CallInv, EffectInv, CalmInv, Runs
<1>2. CASE Next
  <2>1. CASE Caller
    BY <2>1, ValueCallStep, PlainCallStep, AuthenticateStep, OtherCallStep DEF Caller
  <2> QED BY <1>2, <2>1, CardMovesStep, SendStep, ReselectStep DEF Next
<1> QED BY <1>1, <1>2

\* Every variable holds a value of its kind.
THEOREM TypeCorrect == Spec => []TypeOK
<1>1. IInv => TypeOK
  BY DEF IInv
<1> QED BY <1>1, InitInv, NextStep, PTL DEF Spec

\* A call of MifareNFCCommands that reports success has done all it says to the
\* blocks, and nothing else; one that throws has done all of it or nothing.
THEOREM EffectExact == Spec => EffectIsExact
<1>1. IInv /\ [Next]_vars => [EffectStep]_vars
  BY NextStep DEF Steps
<1> QED BY <1>1, InitInv, NextStep, PTL DEF Spec, EffectIsExact, EffectStep

\* readBinary() never returns the answer to an earlier command.
THEOREM ReadCurrent == Spec => ReadIsCurrent
<1>1. IInv /\ [Next]_vars => [ReadStep]_vars
  BY NextStep DEF Steps
<1> QED BY <1>1, InitInv, NextStep, PTL DEF Spec, ReadIsCurrent, ReadStep

\* A refused key leaves a card that nothing happened to selected
\* (nfcdatatransport.cpp:71-73).
THEOREM AuthRecovers == Spec => AuthFailureRecovers
<1>1. IInv /\ [Next]_vars => [AuthStep]_vars
  BY NextStep DEF Steps
<1> QED BY <1>1, InitInv, NextStep, PTL DEF Spec, AuthFailureRecovers, AuthStep

----------------------------------------------------------------------------
(***************************************************************************)
(* MifareNFCCommands implements ValueStore: every step of a call that does *)
(* not answer it fades or computes the buffer, and the last one does to    *)
(* the blocks what the call is meant to do.                                *)
(***************************************************************************)
StoreStep == Store!Next \/ UNCHANGED Store!vars

LEMMA InitMaps == Init => Store!Init
BY DEF Init, Store!Init

\* A call that begins.
LEMMA BeginMaps ==
    ASSUME NEW c, c.block \in Blocks, NEW commands, Begin(c, commands)
    PROVE  StoreStep
BY DEF Begin, card, flags, StoreStep, Store!Next, Store!Ask

\* A call that sends nothing, or a call of connect() or disconnect().
LEMMA ImmediateMaps ==
    ASSUME NEW v \in Values \cup {None, Threw}, Immediate(v),
           memory' = memory, register' \in {register, None},
           ignoreTransport' \in BOOLEAN
    PROVE  StoreStep
BY DEF Immediate, StoreStep, Store!Next, Store!Manage

\* The commands that the calls make.
LEMMA CallerMaps ==
    ASSUME IInv, Caller
    PROVE  StoreStep
<1>0. /\ d_response \in Values \cup {None} /\ ignoreTransport \in BOOLEAN
  <2>1. ignoreTransport \in BOOLEAN
    BY Zenon DEF IInv, TypeOK
  <2> QED BY <2>1 DEF IInv, TypeOK
<1>1. ASSUME NEW key \in Keys, LoadKey(key) PROVE StoreStep
  BY <1>0, <1>1, ImmediateMaps DEF LoadKey, card, flags
<1>2. ASSUME NEW b \in Blocks, NEW type \in KeyTypes, Authenticate(b, type) PROVE StoreStep
  BY <1>2, BeginMaps DEF Authenticate, Command
<1>3. ASSUME NEW b \in Blocks,
             \/ ReadBinary(b)
             \/ SendOnly(b)
             \/ RawCall("restore", "restore", b, None)
             \/ RawCall("transfer", "transfer", b, None)
      PROVE  StoreStep
  BY <1>3, BeginMaps DEF ReadBinary, SendOnly, RawCall, Command
<1>4. ASSUME NEW b \in Blocks, NEW v \in Values,
             \/ UpdateBinary(b, v)
             \/ Increment(b, v)
             \/ Decrement(b, v)
             \/ RawCall("increment_raw", "increment", b, v)
             \/ RawCall("decrement_raw", "decrement", b, v)
      PROVE  StoreStep
  BY <1>4, BeginMaps DEF UpdateBinary, Increment, Decrement, RawCall, Command
<1>5. CASE InvalidArgument
  BY <1>0, <1>5, ImmediateMaps DEF InvalidArgument, card, flags
<1>6. CASE Receive
  BY <1>0, <1>6, ImmediateMaps DEF Receive, card, flags
<1>7. ASSUME NEW adapter \in BOOLEAN, NEW transport \in BOOLEAN,
             IgnoreAllError(adapter, transport)
      PROVE  StoreStep
  <2>1. ignoreTransport' \in BOOLEAN
    BY <1>7, Zenon DEF IgnoreAllError
  <2> QED BY <1>7, <2>1, ImmediateMaps DEF IgnoreAllError, card
<1>8. CASE Connect
  BY <1>0, <1>8, ImmediateMaps
  DEF Connect, Selects, FindsNone, ConnectThrows, Deactivated, card, flags
<1>9. CASE Disconnect
  BY <1>0, <1>9, ImmediateMaps DEF Disconnect, Deactivated, card, flags
<1> QED BY <1>1, <1>2, <1>3, <1>4, <1>5, <1>6, <1>7, <1>8, <1>9 DEF Caller

----------------------------------------------------------------------------
\* What a raw command that is executed does to the block of the call.
LEMMA ExecutedMaps ==
    ASSUME IInv, pc = "send", Executes(Head(todo))
    PROVE  /\ TwoCommands(call) /\ todo = <<First(call), Last(call)>>
                => memory' = memory /\ register' = Store!Computed
           /\ todo = <<Last(call)>> /\ (TwoCommands(call) => register = Store!Computed)
                => Store!Stored(Store!Written) /\ register' = Store!Computed
           /\ todo = <<Last(call)>> /\ TwoCommands(call)
                => Store!Stored(register) /\ register' = register
<1> DEFINE r == Head(todo)
<1>0. Runs /\ before = memory
  BY DEF Runs, IInv, EffectInv
<1>1. call \in PublicCalls /\ call.block \in Blocks /\ r.block = call.block
  BY <1>0, NextCommand
<1>2. Executes(r) /\ register \in Values \cup {None}
  BY DEF IInv, TypeOK
<1>3. memory' \in [Blocks -> Values] /\ memory \in [Blocks -> Values]
  BY <1>0, ExecutesOK DEF IInv, TypeOK
<1>4. CASE TwoCommands(call) /\ todo = <<First(call), Last(call)>>
  <2>1. memory' = memory /\ register' = NewValue(call, before)
    BY <1>0, <1>4, FirstExecuted
  <2>2. NewValue(call, before) = Store!Computed
    BY <1>0, <1>4 DEF TwoCommands, NewValue, Store!Computed
  <2>3. todo # <<Last(call)>>
    BY <1>4, Tuples
  <2> QED BY <1>4, <2>1, <2>2, <2>3
<1>5. CASE todo = <<Last(call)>>
  <2>0. r = Last(call)
    BY <1>5, Tuples
  <2>1. ~(TwoCommands(call) /\ todo = <<First(call), Last(call)>>)
    BY <1>5, Tuples
  <2> HIDE DEF r
  <2>2. CASE r.name = "transfer"
    <3>1. /\ register # None /\ memory' = [memory EXCEPT ![call.block] = register]
          /\ register' = register /\ register \in Values
      BY <1>1, <1>2, <2>2 DEF Executes, Accepts
    <3>2. call.name = "transfer" \/ TwoCommands(call)
      BY <1>1, <2>0, <2>2, CommandKinds
    <3>3. call.name = "transfer" => Store!Written = register /\ Store!Computed = register
      BY DEF Store!Written, Store!Computed
    <3>4. TwoCommands(call) => Store!Written = Store!Computed /\ call.name # "transfer"
      BY DEF TwoCommands, Store!Written, Store!Computed
    <3> QED BY <2>1, <3>1, <3>2, <3>3, <3>4 DEF Store!Stored
  <2>3. CASE r.name = "write"
    <3>1. call.name = "updateBinary" /\ r.value = call.value /\ call.value \in Values
      BY <1>1, <2>0, <2>3, CommandKinds
    <3>2. memory' = [memory EXCEPT ![call.block] = call.value] /\ register' = register
      BY <1>1, <1>2, <2>3, <3>1 DEF Executes
    <3>3. Store!Written = call.value /\ Store!Computed = register
      BY <3>1 DEF Store!Written, Store!Computed
    <3> QED BY <2>1, <3>1, <3>2, <3>3 DEF Store!Stored, TwoCommands
  <2>4. CASE r.name \notin {"transfer", "write"}
    <3>1. memory' = memory
      BY <1>2, <2>4 DEF Executes
    <3>2. ~TwoCommands(call) /\ call.name \notin {"updateBinary", "transfer"}
      BY <1>1, <2>0, <2>4, CommandKinds
    <3>3. Store!Written = memory[call.block]
      BY <3>2 DEF TwoCommands, Store!Written
    <3>4. Store!Stored(Store!Written)
      BY <1>1, <1>3, <3>1, <3>3 DEF Store!Stored
    <3>5. register' = Store!Computed
      BY <1>1, <1>2, <2>0, <2>4, <3>2, CommandKinds
      DEF Executes, Store!Computed, TwoCommands, PublicCalls, Calls, Last, Command
    <3> QED BY <2>1, <3>2, <3>4, <3>5
  <2> QED BY <2>2, <2>3, <2>4
<1> QED BY <1>4, <1>5

\* What the outcomes of a raw command have in common: the call is answered, or
\* its second command is left.
LEMMA RefusedMaps ==
    ASSUME IInv, Runs, Refused, UNCHANGED flags,
           register' \in {register, Store!Computed, None},
           \/ memory' = memory
           \/ todo = <<Last(call)>> /\ Store!Stored(Store!Written)
           \/ /\ todo = <<Last(call)>> /\ TwoCommands(call)
              /\ ignoreTransport /\ Store!Stored(register)
    PROVE  StoreStep
<1> USE DEF StoreStep, Store!Next, flags
<1>1. pc # "idle"
  BY DEF Runs
<1>2. CASE Return(Threw) /\ ~ignoreTransport
  BY <1>1, <1>2 DEF Return, Store!Fail, Store!Answer
<1>3. CASE Return(None) /\ ignoreTransport
  BY <1>1, <1>3 DEF Return, Store!Pretend, Store!Answer, TwoCommands
<1>4. CASE Advances(None) /\ ~Return(None)
  <2>1. /\ TwoCommands(call) /\ todo = <<First(call), Last(call)>>
        /\ pc' = "send" /\ UNCHANGED <<call, result>>
    BY <1>4 DEF Advances
  <2>2. memory' = memory
    BY <2>1, Tuples
  <2>3. CASE register' = register
    BY <1>1, <2>1, <2>2, <2>3 DEF Store!vars
  <2>4. CASE register' = None
    BY <1>1, <2>1, <2>2, <2>4 DEF Store!Fade
  <2>5. CASE register' = Store!Computed
    BY <1>1, <2>1, <2>2, <2>5 DEF Store!Compute, TwoCommands
  <2> QED BY <2>3, <2>4, <2>5
<1>5. ignoreTransport => Advances(None)
  <2>1. CASE ignoreTransport /\ pc = "send"
    BY <2>1, ProceedAdvances DEF Refused
  <2>2. CASE ignoreTransport /\ pc = "reselect"
    <3>1. Len(todo) = 1
      BY <2>2, Tuples DEF IInv, CallInv, Runs, TwoCommands
    <3> QED BY <2>2, <3>1 DEF Refused, Proceed, Advances
  <2> QED BY <2>1, <2>2 DEF Runs
<1> QED BY <1>2, <1>3, <1>4, <1>5, RefusedAdvances

\* A raw command that is executed, and whose answer arrives.
LEMMA AnsweredMaps ==
    ASSUME IInv, pc = "send", Executes(Head(todo)), UNCHANGED flags,
           Answered(IF Head(todo).name = "read" THEN memory[Head(todo).block] ELSE None)
    PROVE  StoreStep
<1> DEFINE r == Head(todo)
           v == IF r.name = "read" THEN memory[r.block] ELSE None
<1> USE DEF StoreStep, Store!Next, flags
<1>0. Runs /\ pc # "idle" /\ Answered(v) /\ register \in Values \cup {None}
  BY DEF Runs, IInv, TypeOK
<1>1. /\ call \in PublicCalls
      /\ \/ todo = <<Last(call)>> /\ r = Last(call)
         \/ /\ TwoCommands(call) /\ r = First(call) /\ todo = <<First(call), Last(call)>>
  <2>1. todo = <<Last(call)>> \/ (TwoCommands(call) /\ todo = <<First(call), Last(call)>>)
    BY <1>0 DEF IInv, CallInv
  <2> QED BY <1>0, <2>1, NextCommand, Tuples
<1>2. v = IF call.name \in {"readBinary", "send"} THEN memory[call.block] ELSE None
  <2>1. r.block = call.block
    BY <1>0, NextCommand
  <2>2. r.name = "read" <=> call.name \in {"readBinary", "send"}
    BY <1>1, CommandKinds DEF TwoCommands
  <2> QED BY <2>1, <2>2
<1> HIDE DEF v, r
<1>3. CASE TwoCommands(call) /\ todo = <<First(call), Last(call)>>
  <2>1. memory' = memory /\ register' = Store!Computed
    BY <1>3, ExecutedMaps
  <2>2. v = None /\ call.name # "send" /\ v \notin Rejected /\ Len(todo) = 2
    BY <1>2, <1>3, Tuples, MifareAssumption DEF TwoCommands, MifareAssumption
  <2>3. pc' = "send" /\ UNCHANGED <<call, result>>
    BY <1>0, <2>2 DEF Answered, Proceed
  <2> QED BY <1>0, <1>3, <2>1, <2>3 DEF Store!Compute, TwoCommands
<1>4. CASE todo = <<Last(call)>>
  <2>0. Len(todo) = 1
    BY <1>4, Tuples
  <2>1. \/ Return(Threw)
        \/ Return(IF call.name = "readBinary" THEN memory[call.block] ELSE None)
    BY <1>0, <1>2, <2>0 DEF Answered, Proceed
  <2>2. CASE TwoCommands(call) => register = Store!Computed
    <3>1. Store!Stored(Store!Written) /\ register' = Store!Computed
      BY <1>4, <2>2, ExecutedMaps
    <3>2. Store!Succeed \/ Store!Fail
      BY <1>0, <2>1, <3>1 DEF Return, Store!Succeed, Store!Fail, Store!Answer
    <3> QED BY <3>2
  <2>3. CASE TwoCommands(call) /\ register # Store!Computed
    <3>1. Store!Stored(register) /\ register' = register /\ register # None
      <4>1. r.name = "transfer" /\ Executes(r)
        BY <1>1, <1>4, <2>3, CommandKinds, Tuples DEF r
      <4> QED BY <1>4, <2>3, <4>1, ExecutedMaps DEF Executes, Accepts
    <3>2. ignoreTransport
      <4>1. NewValue(call, before) = Store!Computed
        BY <2>3 DEF IInv, EffectInv, TwoCommands, NewValue, Store!Computed
      <4> QED BY <1>0, <1>4, <2>3, <3>1, <4>1 DEF IInv, EffectInv
    <3>3. Return(None)
      <4>1. v = None /\ call.name # "send" /\ v \notin Rejected
        BY <1>2, <2>3, MifareAssumption DEF TwoCommands, MifareAssumption
      <4> QED BY <1>0, <2>0, <4>1 DEF Answered, Proceed
    <3>4. Store!Pretend
      BY <1>0, <2>3, <3>1, <3>2, <3>3 DEF Return, Store!Pretend, Store!Answer, TwoCommands
    <3> QED BY <3>4
  <2> QED BY <2>2, <2>3
<1> QED BY <1>1, <1>3, <1>4

\* A raw command, whatever becomes of it.
LEMMA SendMaps ==
    ASSUME IInv, Send
    PROVE  StoreStep
<1> DEFINE r == Head(todo)
           badKey == r.name = "authenticate" /\ active /\ ~Accepts(r)
<1>0. pc = "send" /\ Runs /\ UNCHANGED flags
  BY DEF Send, Runs
<1>1. CASE Executes(r) /\ Answered(IF r.name = "read" THEN memory[r.block] ELSE None)
  BY <1>0, <1>1, AnsweredMaps
<1>2. CASE (Deactivated \/ UNCHANGED card) /\ Refused
  <2>1. memory' = memory /\ register' \in {register, None}
    BY <1>2, DeactivatedOK
  <2> QED BY <1>0, <1>2, <2>1, RefusedMaps
<1>3. CASE Deactivated /\ pc' = "reselect" /\ UNCHANGED <<call, result>>
  <2>1. Store!Fade
    BY <1>0, <1>3 DEF Deactivated, flags, Store!Fade
  <2> QED BY <2>1 DEF StoreStep, Store!Next
<1>4. CASE Executes(r) /\ Refused
  <2>1. CASE TwoCommands(call) /\ todo = <<First(call), Last(call)>>
    BY <1>0, <1>4, <2>1, ExecutedMaps, RefusedMaps
  <2>2. CASE todo = <<Last(call)>> /\ (TwoCommands(call) => register = Store!Computed)
    BY <1>0, <1>4, <2>2, ExecutedMaps, RefusedMaps
  <2>3. CASE todo = <<Last(call)>> /\ TwoCommands(call) /\ register # Store!Computed
    <3>1. Store!Stored(register) /\ register' = register
      BY <1>0, <1>4, <2>3, ExecutedMaps
    <3>2. register # None
      <4>1. r.name = "transfer"
        BY <1>0, <2>3, NextCommand, CommandKinds, Tuples
      <4> QED BY <1>4, <4>1 DEF Executes, Accepts
    <3>3. ignoreTransport
      <4>1. NewValue(call, before) = Store!Computed
        BY <2>3 DEF IInv, EffectInv, TwoCommands, NewValue, Store!Computed
      <4> QED BY <1>0, <2>3, <3>2, <4>1 DEF IInv, EffectInv
    <3> QED BY <1>0, <1>4, <2>3, <3>1, <3>3, RefusedMaps
  <2> QED BY <1>0, <2>1, <2>2, <2>3 DEF IInv, CallInv
<1> QED BY <1>1, <1>2, <1>3, <1>4 DEF Send

\* The selection that follows a refused key.
LEMMA ReselectMaps ==
    ASSUME IInv, Reselect
    PROVE  StoreStep
<1>0. pc = "reselect" /\ Runs /\ UNCHANGED flags
  BY DEF Reselect, Runs
<1>1. memory' = memory /\ register' \in {register, None}
  BY DeactivatedOK DEF Reselect, Selects, FindsNone, ConnectThrows
<1>2. CASE Refused
  BY <1>0, <1>1, <1>2, RefusedMaps
<1>3. CASE Return(Threw)
  <2>1. Store!Fail
    BY <1>0, <1>1, <1>3 DEF Return, flags, Store!Fail, Store!Answer
  <2> QED BY <2>1 DEF StoreStep, Store!Next
<1> QED BY <1>2, <1>3 DEF Reselect

\* ImplementsStore, for any blocks, keys, values, number of errors and result
\* checker: increment() and decrement() are one operation to their caller, done
\* when they are answered, although they are two raw commands to the card.
THEOREM CommandsImplementStore == Spec => ImplementsStore
<1>1. IInv /\ [Next]_vars => [Store!Next]_(Store!vars)
  <2> SUFFICES ASSUME IInv, [Next]_vars PROVE StoreStep
    BY DEF StoreStep
  <2>1. CASE CardEnters
    BY <2>1 DEF CardEnters, flags, StoreStep, Store!vars
  <2>2. CASE CardLeaves
    BY <2>2 DEF CardLeaves, flags, StoreStep, Store!Next, Store!Fade
  <2>3. CASE UNCHANGED vars
    BY <2>3 DEF vars, card, flags, StoreStep, Store!vars
  <2> QED BY <2>1, <2>2, <2>3, CallerMaps, SendMaps, ReselectMaps DEF Next
<1>2. IInv /\ [Next]_vars => IInv'
  BY NextStep
<1> QED BY <1>1, <1>2, InitInv, InitMaps, PTL DEF Spec, ImplementsStore, Store!Spec
=============================================================================
