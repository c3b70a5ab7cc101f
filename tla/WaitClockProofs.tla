-------------------------- MODULE WaitClockProofs --------------------------
(***************************************************************************)
(* Theorems about the limits of waitInsertion() and waitRemoval(), for     *)
(* every length of a second, of a turn and of a sleep, every limit, and    *)
(* however often the date is set.                                          *)
(***************************************************************************)
EXTENDS WaitClock, TLAPS

\* Where the date of an insertion call stands relative to the dates it keeps, as
\* long as nobody sets it.
DatesAgree ==
    call = "waitInsertion" /\ settings = 0
      => /\ maxDate - maxwait <= date - elapsed
         /\ date - elapsed < maxDate - maxwait + Second
         /\ currentDate <= date
         /\ pc = "loop" => date < currentDate + Second + MaxSleep
         /\ pc = "read" => date < currentDate + Second + MaxSleep + MaxTurn

\* An insertion call reads its clock anew only after a turn that was in time.
InsertionTurns ==
    call = "waitInsertion"
      => /\ pc = "loop" /\ ~looked => currentDate = maxDate - maxwait
         /\ pc = "read" => looked /\ currentDate < maxDate
         /\ pc = "loop" /\ settings = 0
              => currentDate < maxDate
                 \/ date < maxDate + Second + MaxTurn + 2 * MaxSleep

RemovalTurns ==
    call = "waitRemoval" /\ maxwait # 0
      => /\ pc = "loop" => elapsed <= maxwait + MaxTurn + MaxSleep
         /\ pc = "read" => elapsed <= maxwait + MaxTurn

Started ==
    /\ pc = "start" <=> call = "none"
    /\ pc = "start" => elapsed = 0 /\ ~looked

IInv ==
    /\ TypeOK
    /\ Started
    /\ DatesAgree /\ InsertionTurns /\ RemovalTurns
    /\ InsertionLimit /\ LooksBeforeGivingUp /\ RemovalLimit

\* What second_clock keeps of a date is less than a second short of it.
LEMMA WholeSeconds ==
    ASSUME date \in Int
    PROVE  local_time \in Int /\ local_time <= date /\ date < local_time + Second
<1>1. date % Second \in 0 .. Second - 1
  BY ClockAssumption
<1> QED BY <1>1, ClockAssumption DEF local_time

\* The invariant holds at first and is kept by every step.
LEMMA InitInv == Init => IInv
<1> SUFFICES ASSUME Init PROVE IInv
  OBVIOUS
<1>1. TypeOK
  <2>1. date \in Int /\ settings \in 0 .. MaxSettings
    BY ClockAssumption DEF Init
  <2>2. elapsed \in Nat /\ maxwait \in Nat /\ currentDate \in Int /\ maxDate \in Int
    BY DEF Init
  <2>3. result \in BOOLEAN /\ looked \in BOOLEAN
    BY Zenon DEF Init
  <2> QED BY <2>1, <2>2, <2>3 DEF Init, TypeOK
<1>2. Started /\ DatesAgree /\ InsertionTurns /\ RemovalTurns
  BY DEF Init, Started, DatesAgree, InsertionTurns, RemovalTurns
<1>3. InsertionLimit /\ LooksBeforeGivingUp /\ RemovalLimit
  BY DEF Init, InsertionLimit, LooksBeforeGivingUp, RemovalLimit, TimedOut
<1> QED BY <1>1, <1>2, <1>3 DEF IInv

LEMMA NextInv == IInv /\ [Next]_vars => IInv'
<1> SUFFICES ASSUME IInv, [Next]_vars PROVE IInv'
  OBVIOUS
<1> USE ClockAssumption
<1>1. ASSUME NEW limit \in Limits, WaitInsertion(limit)
      PROVE  IInv'
  <2>1. TypeOK'
    BY <1>1, WholeSeconds DEF WaitInsertion, IInv, TypeOK
  <2>2. Started'
    BY <1>1, WholeSeconds DEF WaitInsertion, IInv, Started, TypeOK
  <2>3. DatesAgree'
    BY <1>1, WholeSeconds DEF WaitInsertion, IInv, TypeOK, Started, DatesAgree
  <2>4. InsertionTurns'
    BY <1>1, WholeSeconds DEF WaitInsertion, IInv, TypeOK, Started, DatesAgree, InsertionTurns
  <2>5. RemovalTurns'
    BY <1>1, WholeSeconds DEF WaitInsertion, IInv, TypeOK, Started, RemovalTurns
  <2>6. InsertionLimit'
    BY <1>1, WholeSeconds DEF WaitInsertion, IInv, TypeOK, Started, DatesAgree, InsertionTurns, InsertionLimit, TimedOut
  <2>7. LooksBeforeGivingUp'
    BY <1>1, WholeSeconds DEF WaitInsertion, IInv, TypeOK, Started, InsertionTurns, LooksBeforeGivingUp, TimedOut
  <2>8. RemovalLimit'
    BY <1>1, WholeSeconds DEF WaitInsertion, IInv, TypeOK, Started, RemovalTurns, RemovalLimit, TimedOut
  <2> QED BY <2>1, <2>2, <2>3, <2>4, <2>5, <2>6, <2>7, <2>8 DEF IInv
<1>2. ASSUME NEW limit \in Limits, WaitRemoval(limit)
      PROVE  IInv'
  <2>1. TypeOK'
    BY <1>2 DEF WaitRemoval, Passes, IInv, TypeOK
  <2>2. Started'
    BY <1>2 DEF WaitRemoval, Passes, IInv, Started, TypeOK
  <2>3. DatesAgree'
    BY <1>2 DEF WaitRemoval, Passes, IInv, TypeOK, Started, DatesAgree
  <2>4. InsertionTurns'
    BY <1>2 DEF WaitRemoval, Passes, IInv, TypeOK, Started, DatesAgree, InsertionTurns
  <2>5. RemovalTurns'
    BY <1>2 DEF WaitRemoval, Passes, IInv, TypeOK, Started, RemovalTurns
  <2>6. InsertionLimit'
    BY <1>2 DEF WaitRemoval, Passes, IInv, TypeOK, Started, DatesAgree, InsertionTurns, InsertionLimit, TimedOut
  <2>7. LooksBeforeGivingUp'
    BY <1>2 DEF WaitRemoval, Passes, IInv, TypeOK, Started, InsertionTurns, LooksBeforeGivingUp, TimedOut
  <2>8. RemovalLimit'
    BY <1>2 DEF WaitRemoval, Passes, IInv, TypeOK, Started, RemovalTurns, RemovalLimit, TimedOut
  <2> QED BY <2>1, <2>2, <2>3, <2>4, <2>5, <2>6, <2>7, <2>8 DEF IInv
<1>3. CASE Turn
  <2>1. TypeOK'
    <3>1. date' \in Int /\ elapsed' \in Nat
      BY <1>3 DEF Turn, Passes, IInv, TypeOK
    <3>2. result' \in BOOLEAN /\ looked' \in BOOLEAN
      BY <1>3, Zenon DEF Turn, Return, IInv, TypeOK
    <3>3. pc' \in {"start", "loop", "read", "end"}
      BY <1>3 DEF Turn, Return
    <3> QED BY <1>3, <3>1, <3>2, <3>3 DEF Turn, IInv, TypeOK
  <2>2. Started'
    BY <1>3 DEF Turn, Elapsed, Passes, Return, IInv, Started, TypeOK
  <2>3. DatesAgree'
    BY <1>3 DEF Turn, Elapsed, Passes, Return, IInv, TypeOK, Started, DatesAgree
  <2>4. InsertionTurns'
    BY <1>3 DEF Turn, Elapsed, Passes, Return, IInv, TypeOK, Started, DatesAgree, InsertionTurns
  <2>5. RemovalTurns'
    BY <1>3 DEF Turn, Elapsed, Passes, Return, IInv, TypeOK, Started, RemovalTurns
  <2>6. InsertionLimit'
    BY <1>3 DEF Turn, Elapsed, Passes, Return, IInv, TypeOK, Started, DatesAgree, InsertionTurns, InsertionLimit, TimedOut
  <2>7. LooksBeforeGivingUp'
    BY <1>3 DEF Turn, Elapsed, Passes, Return, IInv, TypeOK, Started, InsertionTurns, LooksBeforeGivingUp, TimedOut
  <2>8. RemovalLimit'
    BY <1>3 DEF Turn, Elapsed, Passes, Return, IInv, TypeOK, Started, RemovalTurns, RemovalLimit, TimedOut
  <2> QED BY <2>1, <2>2, <2>3, <2>4, <2>5, <2>6, <2>7, <2>8 DEF IInv
<1>4. CASE ReadAndSleep
  <2>1. TypeOK'
    BY <1>4, WholeSeconds DEF ReadAndSleep, Passes, IInv, TypeOK
  <2>2. Started'
    BY <1>4, WholeSeconds DEF ReadAndSleep, Passes, IInv, Started, TypeOK
  <2>3. DatesAgree'
    BY <1>4, WholeSeconds DEF ReadAndSleep, Passes, IInv, TypeOK, Started, DatesAgree
  <2>4. InsertionTurns'
    BY <1>4, WholeSeconds DEF ReadAndSleep, Passes, IInv, TypeOK, Started, DatesAgree, InsertionTurns
  <2>5. RemovalTurns'
    BY <1>4, WholeSeconds DEF ReadAndSleep, Passes, IInv, TypeOK, Started, RemovalTurns
  <2>6. InsertionLimit'
    BY <1>4, WholeSeconds DEF ReadAndSleep, Passes, IInv, TypeOK, Started, DatesAgree, InsertionTurns, InsertionLimit, TimedOut
  <2>7. LooksBeforeGivingUp'
    BY <1>4, WholeSeconds DEF ReadAndSleep, Passes, IInv, TypeOK, Started, InsertionTurns, LooksBeforeGivingUp, TimedOut
  <2>8. RemovalLimit'
    BY <1>4, WholeSeconds DEF ReadAndSleep, Passes, IInv, TypeOK, Started, RemovalTurns, RemovalLimit, TimedOut
  <2> QED BY <2>1, <2>2, <2>3, <2>4, <2>5, <2>6, <2>7, <2>8 DEF IInv
<1>5. CASE TimeOut
  <2>1. TypeOK'
    BY <1>5 DEF TimeOut, Elapsed, Return, IInv, TypeOK
  <2>2. Started'
    BY <1>5 DEF TimeOut, Elapsed, Return, IInv, Started, TypeOK
  <2>3. DatesAgree'
    BY <1>5 DEF TimeOut, Elapsed, Return, IInv, TypeOK, Started, DatesAgree
  <2>4. InsertionTurns'
    BY <1>5 DEF TimeOut, Elapsed, Return, IInv, TypeOK, Started, DatesAgree, InsertionTurns
  <2>5. RemovalTurns'
    BY <1>5 DEF TimeOut, Elapsed, Return, IInv, TypeOK, Started, RemovalTurns
  <2>6. InsertionLimit'
    BY <1>5 DEF TimeOut, Elapsed, Return, IInv, TypeOK, Started, DatesAgree, InsertionTurns, InsertionLimit, TimedOut
  <2>7. LooksBeforeGivingUp'
    BY <1>5 DEF TimeOut, Elapsed, Return, IInv, TypeOK, Started, InsertionTurns, LooksBeforeGivingUp, TimedOut
  <2>8. RemovalLimit'
    BY <1>5 DEF TimeOut, Elapsed, Return, IInv, TypeOK, Started, RemovalTurns, RemovalLimit, TimedOut
  <2> QED BY <2>1, <2>2, <2>3, <2>4, <2>5, <2>6, <2>7, <2>8 DEF IInv
<1>6. CASE SetDate
  <2>1. TypeOK'
    BY <1>6 DEF SetDate, IInv, TypeOK
  <2>2. Started'
    BY <1>6 DEF SetDate, IInv, Started, TypeOK
  <2>3. DatesAgree'
    BY <1>6 DEF SetDate, IInv, TypeOK, Started, DatesAgree
  <2>4. InsertionTurns'
    BY <1>6 DEF SetDate, IInv, TypeOK, Started, DatesAgree, InsertionTurns
  <2>5. RemovalTurns'
    BY <1>6 DEF SetDate, IInv, TypeOK, Started, RemovalTurns
  <2>6. InsertionLimit'
    BY <1>6 DEF SetDate, IInv, TypeOK, Started, DatesAgree, InsertionTurns, InsertionLimit, TimedOut
  <2>7. LooksBeforeGivingUp'
    BY <1>6 DEF SetDate, IInv, TypeOK, Started, InsertionTurns, LooksBeforeGivingUp, TimedOut
  <2>8. RemovalLimit'
    BY <1>6 DEF SetDate, IInv, TypeOK, Started, RemovalTurns, RemovalLimit, TimedOut
  <2> QED BY <2>1, <2>2, <2>3, <2>4, <2>5, <2>6, <2>7, <2>8 DEF IInv
<1>7. CASE UNCHANGED vars
  BY <1>7 DEF vars, IInv, TypeOK, Started, DatesAgree, InsertionTurns, RemovalTurns, InsertionLimit,
     LooksBeforeGivingUp, RemovalLimit, TimedOut, local_time
<1> QED BY <1>1, <1>2, <1>3, <1>4, <1>5, <1>6, <1>7 DEF Next

LEMMA AlwaysInv == Spec => []IInv
<1> QED BY InitInv, NextInv, PTL DEF Spec

\* Every variable of the two waits holds a value of its kind.
THEOREM ClockTypeCorrect == Spec => []TypeOK
<1>1. IInv => TypeOK
  BY DEF IInv
<1> QED BY <1>1, AlwaysInv, PTL

\* waitInsertion() gives up within a second either way of its limit, and a turn, as
\* long as nobody sets the date.
THEOREM InsertionLimitKept == Spec => []InsertionLimit
<1>1. IInv => InsertionLimit
  BY DEF IInv
<1> QED BY <1>1, AlwaysInv, PTL

\* waitInsertion() with a limit has looked for a chip when it gives up, whatever
\* became of the date.
THEOREM InsertionLooks == Spec => []LooksBeforeGivingUp
<1>1. IInv => LooksBeforeGivingUp
  BY DEF IInv
<1> QED BY <1>1, AlwaysInv, PTL

\* waitRemoval() keeps its limit to a turn and a sleep, whatever became of the date.
THEOREM RemovalLimitKept == Spec => []RemovalLimit
<1>1. IInv => RemovalLimit
  BY DEF IInv
<1> QED BY <1>1, AlwaysInv, PTL
=============================================================================
