----------------------------- MODULE WaitClock -----------------------------
(***************************************************************************)
(* The clocks of NFCReaderUnit::waitInsertion() and waitRemoval().         *)
(*                                                                         *)
(* waitInsertion() reads second_clock::local_time(): the date of the       *)
(* computer in whole seconds, which the user, a time server or the end of  *)
(* summer time may set while the call runs.  waitRemoval() reads           *)
(* steady_clock.  NfcReaderUnit lets a limit elapse at any time; this      *)
(* module says when it does.  A behaviour is one call, and a turn of its   *)
(* loop finds what it looks for or does not.                               *)
(***************************************************************************)
EXTENDS Integers

CONSTANTS
    Second,             \* ticks in a second
    Limits,             \* values of maxwait, in ticks
    MaxTurn,            \* the longest time libnfc takes over one turn
    Sleep, MaxSleep,    \* sleep_for(milliseconds(50)) lasts as long, or longer
    Settings,           \* the steps by which the date may be set
    MaxSettings,        \* how often it may be set during a call
    Horizon             \* bound of the model: how long a call is followed, longer than
                        \* any that has a limit takes

ASSUME ClockAssumption ==
    /\ Second \in Nat \ {0}
    /\ Limits \subseteq Nat
    /\ MaxTurn \in Nat
    /\ Sleep \in Nat \ {0} /\ MaxSleep \in Nat /\ Sleep <= MaxSleep
    /\ Settings \subseteq Int /\ MaxSettings \in Nat /\ Horizon \in Nat

VARIABLES
    date,               \* of the computer, in ticks
    elapsed,            \* steady_clock, since the call began
    call, maxwait,      \* the call, and its limit
    currentDate, maxDate,
    pc,                 \* "start", "loop", "read" or "end"
    result,             \* what the call returned
    looked,             \* history: a turn of the loop has run
    settings            \* history: how often the date was set during the call

vars == <<date, elapsed, call, maxwait, currentDate, maxDate, pc, result, looked, settings>>

----------------------------------------------------------------------------
\* second_clock drops what is less than a second.
local_time == date - (date % Second)

Passes(ticks) == date' = date + ticks /\ elapsed' = elapsed + ticks

Return(value) == pc' = "end" /\ result' = value

\* Mutant of WaitInsertion: the second that has begun is not counted.
WaitInsertionLater(limit) ==
    /\ pc = "start"
    /\ call' = "waitInsertion" /\ maxwait' = limit /\ pc' = "loop"
    /\ currentDate' = local_time /\ maxDate' = local_time + Second + limit
    /\ UNCHANGED <<date, elapsed, result, looked, settings>>

WaitInsertion(limit) ==
    /\ pc = "start"
    /\ call' = "waitInsertion" /\ maxwait' = limit /\ pc' = "loop"
    /\ currentDate' = local_time /\ maxDate' = local_time + limit
    /\ UNCHANGED <<date, elapsed, result, looked, settings>>

\* Mutant of WaitRemoval: the limit is counted down.
WaitRemovalCounting(limit) ==
    /\ pc = "start"
    /\ call' = "waitRemoval" /\ pc' = "loop"
    /\ \E ticks \in 0 .. MaxTurn : Passes(ticks) /\ maxwait' = limit - ticks
    /\ UNCHANGED <<currentDate, maxDate, result, looked, settings>>

\* Time may pass before the clock is read for the first time.
WaitRemoval(limit) ==
    /\ pc = "start"
    /\ call' = "waitRemoval" /\ maxwait' = limit /\ pc' = "loop"
    /\ \E ticks \in 0 .. MaxTurn : Passes(ticks)
    /\ UNCHANGED <<currentDate, maxDate, result, looked, settings>>

\* Mutants of Elapsed: waitInsertion() reads the date where it tests it; zero is
\* no time in waitRemoval() as well.
ElapsedAfresh ==
    IF call = "waitInsertion" THEN local_time >= maxDate
    ELSE maxwait # 0 /\ elapsed >= maxwait

ElapsedAtOnce ==
    IF call = "waitInsertion" THEN currentDate >= maxDate ELSE elapsed >= maxwait

\* The negated conditions of the two loops: for waitRemoval() zero is no limit.
Elapsed ==
    IF call = "waitInsertion" THEN currentDate >= maxDate
    ELSE maxwait # 0 /\ elapsed >= maxwait

\* refreshChipList() or connect(): it finds a chip, or the removal, or not.
Turn ==
    /\ pc = "loop" /\ ~Elapsed
    /\ elapsed < Horizon
    /\ \E ticks \in 0 .. MaxTurn : Passes(ticks)
    /\ looked' = TRUE
    /\ Return(TRUE) \/ (pc' = "read" /\ UNCHANGED result)
    /\ UNCHANGED <<call, maxwait, currentDate, maxDate, settings>>

\* Mutant of ReadAndSleep: waitInsertion() does not read the date again.
ReadNothingAndSleep ==
    /\ pc = "read" /\ pc' = "loop"
    /\ \E ticks \in Sleep .. MaxSleep : Passes(ticks)
    /\ UNCHANGED <<call, maxwait, currentDate, maxDate, result, looked, settings>>

\* waitInsertion() reads the date before it sleeps.
ReadAndSleep ==
    /\ pc = "read" /\ pc' = "loop"
    /\ currentDate' = IF call = "waitInsertion" THEN local_time ELSE currentDate
    /\ \E ticks \in Sleep .. MaxSleep : Passes(ticks)
    /\ UNCHANGED <<call, maxwait, maxDate, result, looked, settings>>

TimeOut ==
    /\ pc = "loop" /\ Elapsed
    /\ Return(FALSE)
    /\ UNCHANGED <<date, elapsed, call, maxwait, currentDate, maxDate, looked, settings>>

\* Not the program's doing.
SetDate ==
    /\ pc \in {"loop", "read"}
    /\ settings < MaxSettings /\ settings' = settings + 1
    /\ \E step \in Settings : date' = date + step
    /\ UNCHANGED <<elapsed, call, maxwait, currentDate, maxDate, pc, result, looked>>

----------------------------------------------------------------------------
\* Only where in its second a call begins matters.
Init ==
    /\ date \in 0 .. Second - 1
    /\ elapsed = 0
    /\ call = "none" /\ maxwait = 0
    /\ currentDate = 0 /\ maxDate = 0
    /\ pc = "start"
    /\ result = FALSE /\ looked = FALSE /\ settings = 0

Next ==
    \/ \E limit \in Limits : WaitInsertion(limit) \/ WaitRemoval(limit)
    \/ Turn \/ ReadAndSleep \/ TimeOut \/ SetDate

Spec == Init /\ [][Next]_vars

\* A call that runs goes on.
FairSpec == Spec /\ WF_vars(Turn \/ ReadAndSleep \/ TimeOut)

----------------------------------------------------------------------------
\* Every variable holds a value of its kind.
TypeOK ==
    /\ date \in Int /\ elapsed \in Nat
    /\ call \in {"none", "waitInsertion", "waitRemoval"} /\ maxwait \in Nat
    /\ currentDate \in Int /\ maxDate \in Int
    /\ pc \in {"start", "loop", "read", "end"}
    /\ result \in BOOLEAN /\ looked \in BOOLEAN
    /\ settings \in 0 .. MaxSettings

TimedOut == pc = "end" /\ ~result

\* Whole seconds cost waitInsertion() less than a second either way: unless the
\* date is set meanwhile, a limited one gives up after more than maxwait less a
\* second, and less than a second and one turn beyond maxwait
\* (nfcreaderunit.cpp:147-170).
InsertionLimit ==
    TimedOut /\ call = "waitInsertion" /\ maxwait # 0 /\ settings = 0
      => /\ elapsed > maxwait - Second
         /\ elapsed < maxwait + Second + MaxTurn + 2 * MaxSleep

\* waitInsertion() with a limit looks for a chip before it gives up, however short
\* the limit and whatever becomes of the date (nfcreaderunit.cpp:149-154).
LooksBeforeGivingUp ==
    TimedOut /\ call = "waitInsertion" /\ maxwait # 0 => looked

\* "If maxwait is zero, then the call never times out" (nfcreaderunit.hpp:62-63,
\* of waitInsertion()).
ZeroNeverTimesOut == TimedOut /\ call = "waitInsertion" => maxwait # 0

\* waitRemoval() keeps its limit to one turn whatever becomes of the date, and
\* without one it never gives up (nfcreaderunit.cpp:178-192).
RemovalLimit ==
    TimedOut /\ call = "waitRemoval"
      => maxwait # 0 /\ elapsed \in maxwait .. maxwait + MaxTurn + MaxSleep

\* A call with a limit, one that is not zero, returns, also when the date is set
\* back now and then: a date that reached the limit is read in time, turn by turn
\* (nfcreaderunit.cpp:154-167, 192).
LimitedCallsEnd == pc = "loop" /\ maxwait # 0 ~> pc = "end"
=============================================================================
