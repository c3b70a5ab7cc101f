------------------------ MODULE ChipUidChangeProofs ------------------------
(***************************************************************************)
(* What ChipUidChange guarantees whatever the card, its UID and the        *)
(* errors: the silence that WriteUIDConfigGuard imposes ends, and an       *)
(* undisturbed change is complete, in every build; the PN53x is back in    *)
(* its normal mode, in a build with assertions or before the first error.  *)
(***************************************************************************)
EXTENDS ChipUidChange, TLAPS

\* While no change of a UID runs, and until its guard is set up, the flags are
\* the user's; from then on the guard keeps them.
SilenceInv ==
    /\ wanted \in BOOLEAN \X BOOLEAN
    /\ pc \in {"idle", "guard"} => flags = wanted
    /\ pc \notin {"idle", "guard", "aborted"} => saved = wanted

\* With assertions, a call that goes on has met no error while it changed the
\* mode; without them, none has before the first error.  As long, the PN53x is in
\* normal mode before the guard, in raw mode under it, and no register write is
\* held back.
Trusted == Asserts \/ faults = 0

ModeIs(normal) == chipCrc = normal /\ chipRats = normal /\ ui8Parameters = normal

ModeInv ==
    /\ pc \in {"idle", "guard"} => ModeIs(TRUE)
    /\ pc \notin {"idle", "guard", "aborted"} => ModeIs(FALSE)
    /\ pc # "aborted" => wb_data = <<>> /\ wb_trigged = FALSE

----------------------------------------------------------------------------
\* Where a frame is sent, and where it leads: neither ends nor begins a call.
Raw == RawSteps \cup {"fix"}

\* Every other step of a change sends one of the frames.
LEMMA FramesStayRaw ==
    ASSUME Step, pc \notin {"guard", "fix", "restore"}
    PROVE  \E from \in RawSteps, to \in Raw : \E frame \in DOMAIN AfterFrame :
                Frame(from, frame, to)
<1>1. ~Guard /\ ~FixInternals /\ ~Unguard
  BY DEF Guard, FixInternals, Unguard
<1>2. RawSteps \subseteq Raw
  BY DEF RawSteps, Raw
<1>3. /\ "halt" \in RawSteps /\ "unlock1" \in RawSteps /\ "unlock2" \in RawSteps
      /\ "write" \in RawSteps /\ "data" \in RawSteps /\ "haltAgain" \in RawSteps
      /\ "wakeUp" \in RawSteps /\ "fix" \in Raw
  BY DEF RawSteps, Raw
<1>4. /\ "halt" \in DOMAIN AfterFrame /\ "unlock1" \in DOMAIN AfterFrame
      /\ "unlock2" \in DOMAIN AfterFrame /\ "write" \in DOMAIN AfterFrame
      /\ "data" \in DOMAIN AfterFrame /\ "wakeUp" \in DOMAIN AfterFrame
  BY DEF AfterFrame
<1> QED BY <1>1, <1>2, <1>3, <1>4, Zenon DEF Step

\* No call but IgnoreAllError() and the guard touches the flags.
LEMMA StepSilence ==
    ASSUME SilenceInv, [Next]_vars
    PROVE  SilenceInv'
<1>1. CASE Guard
  BY <1>1 DEF Guard, Continue, SilenceInv, flags
<1>2. CASE Unguard
  BY <1>2 DEF Unguard, Continue, SilenceInv, flags, user
<1>3. CASE FixInternals
  BY <1>3 DEF FixInternals, SilenceInv, flags, user
<1>4. CASE Step /\ pc \notin {"guard", "fix", "restore"}
  <2>1. PICK from \in RawSteps, to \in Raw : \E frame : Frame(from, frame, to)
    BY <1>4, FramesStayRaw
  <2> QED BY <2>1 DEF Frame, Raw, RawSteps, SilenceInv, flags, user
<1>5. CASE \E uid \in Uids : ChangeUid(uid)
  BY <1>5 DEF ChangeUid, SilenceInv, flags, user
<1>6. CASE \E adapter, transport \in BOOLEAN : IgnoreAllError(adapter, transport)
  BY <1>6 DEF IgnoreAllError, Idle, SilenceInv, flags
<1>7. CASE Refresh \/ Connect \/ WaitRemoval \/ CardMoves \/ UNCHANGED vars
  BY <1>7 DEF Refresh, Connect, WaitRemoval, CardMoves, Idle, vars, SilenceInv, flags, user
<1>8. Step => \/ Guard \/ Unguard \/ FixInternals
              \/ Step /\ pc \notin {"guard", "fix", "restore"}
  BY DEF Step, Frame
<1> QED BY <1>1, <1>2, <1>3, <1>4, <1>5, <1>6, <1>7, <1>8 DEF Next, Caller

\* The silence about errors ends with writeChipUid(), whatever failed in it: the
\* adapter and the transport ignore errors as the user told each of them to.
THEOREM SilenceAlwaysEnds == Spec => []SilenceEnds
<1>1. Init => SilenceInv
  <2>1. SUFFICES ASSUME Init PROVE SilenceInv
    OBVIOUS
  <2>2. pc = "idle" /\ flags = <<FALSE, FALSE>> /\ wanted = <<FALSE, FALSE>>
    BY <2>1, Zenon DEF Init, flags
  <2>3. wanted \in BOOLEAN \X BOOLEAN
    <3>1. <<FALSE, FALSE>> \in BOOLEAN \X BOOLEAN
      OBVIOUS
    <3> QED BY <2>2, <3>1, Zenon
  <2> QED BY <2>2, <2>3 DEF SilenceInv
<1>2. SilenceInv => SilenceEnds
  BY DEF SilenceInv, SilenceEnds
<1> QED BY <1>1, <1>2, StepSilence, PTL DEF Spec

----------------------------------------------------------------------------
\* The three property calls, when none fails, take the chip from one mode to the
\* other and leave nothing held back.
LEMMA AskedWorks ==
    ASSUME NEW v \in BOOLEAN, ModeIs(~v), Asked(v), UNCHANGED faults, faults \in Nat
    PROVE  ModeIs(v)' /\ wb_data' = <<>> /\ wb_trigged' = FALSE
  BY DEF ModeIs, Asked, WriteBack, Fails, Works

\* With assertions, an error of the property calls ends the process.
LEMMA ContinueWorks ==
    ASSUME faults \in Nat, NEW v, Asked(v), NEW label, Continue(label),
           pc' # "aborted", Trusted'
    PROVE  UNCHANGED faults /\ pc' = label
<1>1. CASE Asserts
  BY <1>1 DEF Continue
<1>2. CASE ~Asserts
  BY <1>2 DEF Trusted, Continue, Asked, Works, Fails
<1> QED BY <1>1, <1>2

\* The errors are counted in Nat, and never forgotten.
LEMMA StepFaults ==
    ASSUME faults \in Nat, [Next]_vars
    PROVE  faults' \in Nat /\ (Trusted' => Trusted)
<1>1. Works \/ Fails => faults' \in Nat /\ (faults' = 0 => faults = 0)
  BY DEF Works, Fails
<1>2. Step => Works \/ Fails \/ UNCHANGED faults
  BY DEF Step, Guard, Unguard, FixInternals, Frame, Asked
<1>3. Caller => Works \/ Fails \/ UNCHANGED faults
  BY DEF Caller, ChangeUid, Refresh, Connect, WaitRemoval, IgnoreAllError
<1> QED BY <1>1, <1>2, <1>3 DEF Next, CardMoves, vars, Trusted

\* As long, every step keeps the chip's mode what the call needs.
LEMMA StepMode ==
    ASSUME faults \in Nat, ModeInv, [Next]_vars, Trusted'
    PROVE  ModeInv'
<1>1. CASE Guard
  <2>1. SUFFICES ASSUME pc' # "aborted" PROVE ModeInv'
    BY DEF ModeInv
  <2>2. pc' = "halt" /\ UNCHANGED faults
    BY <1>1, <2>1, ContinueWorks DEF Guard
  <2>3. ModeIs(~FALSE) /\ Asked(FALSE)
    BY <1>1 DEF Guard, ModeInv
  <2> QED BY <2>2, <2>3, AskedWorks DEF ModeInv
<1>2. CASE Unguard
  <2>1. SUFFICES ASSUME pc' # "aborted" PROVE ModeInv'
    BY DEF ModeInv
  <2>2. pc' = "idle" /\ UNCHANGED faults
    BY <1>2, <2>1, ContinueWorks DEF Unguard
  <2>3. ModeIs(~TRUE) /\ Asked(TRUE)
    BY <1>2 DEF Unguard, ModeInv
  <2> QED BY <2>2, <2>3, AskedWorks DEF ModeInv
<1>3. CASE FixInternals
  BY <1>3 DEF FixInternals, ModeInv, ModeIs, mode
<1>4. CASE Step /\ pc \notin {"guard", "fix", "restore"}
  <2>1. PICK from \in RawSteps, to \in Raw : \E frame : Frame(from, frame, to)
    BY <1>4, FramesStayRaw
  <2>2. wb_data = <<>> /\ wb_trigged = FALSE /\ ModeIs(FALSE)
    BY <2>1 DEF ModeInv, Frame, RawSteps
  <2>3. UNCHANGED <<chipCrc, wb_data, wb_trigged>>
    BY <2>1, <2>2 DEF Frame, Held, Flush, WriteBack, WriteBackFails
  <2> QED BY <2>1, <2>2, <2>3 DEF Frame, Raw, RawSteps, ModeInv, ModeIs
<1>5. CASE Refresh \/ Connect
  <2>1. pc = "idle" /\ pc' = "idle" /\ wb_data = <<>> /\ wb_trigged = FALSE
    BY <1>5 DEF Refresh, Connect, Idle, ModeInv
  <2>2. UNCHANGED <<chipCrc, wb_data, wb_trigged>>
    BY <1>5, <2>1 DEF Refresh, Connect, Held, Flush, WriteBack, WriteBackFails
  <2>3. UNCHANGED <<chipRats, ui8Parameters>>
    BY <1>5 DEF Refresh, Connect
  <2> QED BY <2>1, <2>2, <2>3 DEF ModeInv, ModeIs
<1>6. CASE \E uid \in Uids : ChangeUid(uid)
  BY <1>6 DEF ChangeUid, ModeInv, ModeIs, mode
<1>7. CASE \E adapter, transport \in BOOLEAN : IgnoreAllError(adapter, transport)
  BY <1>7 DEF IgnoreAllError, Idle, ModeInv, ModeIs, mode
<1>8. CASE WaitRemoval \/ CardMoves \/ UNCHANGED vars
  BY <1>8 DEF WaitRemoval, CardMoves, Idle, vars, ModeInv, ModeIs, mode
<1>9. Step => \/ Guard \/ Unguard \/ FixInternals
              \/ Step /\ pc \notin {"guard", "fix", "restore"}
  BY DEF Step, Frame
<1> QED BY <1>1, <1>2, <1>3, <1>4, <1>5, <1>6, <1>7, <1>8, <1>9 DEF Next, Caller

\* What the destructor of WriteUIDConfigGuard promises, in any build: as long as
\* assertions have stopped the process at errors, or none was met, the PN53x is in
\* its normal mode whenever no change of a UID runs.
THEOREM NormalModeUnlessError == Spec => [](Trusted => NormalModeRestored)
<1> DEFINE Inv == faults \in Nat /\ (Trusted => ModeInv)
<1>1. Init => Inv
  BY DEF Init, ModeInv, ModeIs
<1>2. Inv /\ [Next]_vars => Inv'
  BY StepMode, StepFaults
<1>3. Inv => (Trusted => NormalModeRestored)
  BY DEF ModeInv, ModeIs, NormalModeRestored
<1> QED BY <1>1, <1>2, <1>3, PTL DEF Spec

\* In a build with assertions the PN53x is in its normal mode whenever no change
\* of a UID runs, whatever failed.
THEOREM NormalModeAlwaysRestored == ASSUME Asserts PROVE Spec => []NormalModeRestored
<1>1. Trusted
  BY DEF Trusted
<1>2. (Trusted => NormalModeRestored) => NormalModeRestored
  BY <1>1
<1> QED BY <1>2, NormalModeUnlessError, PTL

----------------------------------------------------------------------------
\* The type invariant in three parts, and what it needs: a change that runs has a
\* UID to write.
HeldWrites == {<<>>} \cup {<<b>> : b \in BOOLEAN}

ModeOK ==
    /\ {believed, ui8Parameters, chipCrc, chipRats, wb_trigged} \subseteq BOOLEAN
    /\ wb_data \in HeldWrites
    /\ wb_trigged => wb_data # <<>>

CardOK ==
    /\ cardUid \in AllUids /\ identifier \in AllUids /\ d_chips \in AllUids \cup {None}
    /\ card \in {"away", "idle", "active", "halted", "unlocking", "unlocked", "writing", "ready"}

CallOK ==
    /\ {saved, wanted} \subseteq BOOLEAN \X BOOLEAN
    /\ new_uid \in Uids \cup {None}
    /\ pc \in RawSteps \cup {"idle", "guard", "fix", "restore", "aborted"}
    /\ faults \in 0 .. MaxFaults
    /\ pc \notin {"idle", "aborted"} => new_uid \in Uids

FlagsOK == {magic, ignoreAdapter, ignoreTransport, clean} \subseteq BOOLEAN

RawOK == pc \in RawSteps => ~believed /\ ignoreAdapter /\ ignoreTransport

TypeInv == ModeOK /\ CardOK /\ CallOK /\ FlagsOK /\ RawOK

\* The parts make up TypeOK.
LEMMA TypeParts == TypeInv => TypeOK
BY DEF TypeInv, ModeOK, CardOK, CallOK, FlagsOK, RawOK, TypeOK, HeldWrites

\* A value held back is a Boolean.
LEMMA HeldValue ==
    ASSUME NEW held \in HeldWrites, held # <<>>
    PROVE  Head(held) \in BOOLEAN
<1>1. PICK b \in BOOLEAN : held = <<b>>
  BY DEF HeldWrites
<1>2. Head(held) = b
  BY <1>1
<1> QED BY <1>2, Zenon

\* Writing back, or failing to, keeps the registers typed.
LEMMA WriteBackOK ==
    ASSUME ModeOK, NEW held \in HeldWrites, WriteBack(held) \/ WriteBackFails(held)
    PROVE  /\ {chipCrc', wb_trigged'} \subseteq BOOLEAN
           /\ wb_data' \in HeldWrites /\ (wb_trigged' => wb_data' # <<>>)
<1>1. chipCrc \in BOOLEAN
  BY Zenon DEF ModeOK
<1>2. held # <<>> => Head(held) \in BOOLEAN
  BY HeldValue
<1>3. chipCrc' \in BOOLEAN
  <2>1. chipCrc' \in {chipCrc, Head(held)} /\ (held = <<>> => chipCrc' = chipCrc)
    BY DEF WriteBack, WriteBackFails
  <2> QED BY <1>1, <1>2, <2>1, Zenon
<1>4. wb_trigged' = FALSE /\ wb_trigged' \in BOOLEAN
  BY Zenon DEF WriteBack, WriteBackFails
<1>5. wb_data' \in {<<>>, held} /\ <<>> \in HeldWrites
  BY DEF WriteBack, WriteBackFails, HeldWrites
<1> QED BY <1>3, <1>4, <1>5

\* So does what a call writes back first, if anything.
LEMMA FlushOK ==
    ASSUME ModeOK, NEW due \in BOOLEAN,
           \/ Flush(due) \/ WriteBackFails(Held(due))
           \/ WriteBack(wb_data) \/ WriteBackFails(wb_data)
    PROVE  /\ {chipCrc', wb_trigged'} \subseteq BOOLEAN
           /\ wb_data' \in HeldWrites /\ (wb_trigged' => wb_data' # <<>>)
<1>1. wb_data \in HeldWrites /\ Held(due) \in HeldWrites
  BY DEF ModeOK, Held, HeldWrites
<1>2. CASE UNCHANGED <<chipCrc, wb_data, wb_trigged>>
  BY <1>2 DEF ModeOK
<1> QED BY <1>1, <1>2, WriteBackOK DEF Flush

\* So is the mark that a write is due.
LEMMA TriggedBoolean == ASSUME ModeOK PROVE wb_trigged \in BOOLEAN
BY Zenon DEF ModeOK

\* A write-back is due or not.
LEMMA DueBoolean == ASSUME ModeOK, NEW from PROVE Due(from) \subseteq BOOLEAN
<1>1. wb_trigged \in BOOLEAN
  BY TriggedBoolean
<1>2. {wb_trigged} \subseteq BOOLEAN /\ {wb_trigged, TRUE} \subseteq BOOLEAN
      /\ {TRUE} \subseteq BOOLEAN
  BY <1>1, Zenon
<1> QED BY <1>2 DEF Due

\* The three property calls keep the mode typed.
LEMMA AskedOK ==
    ASSUME ModeOK, NEW v \in BOOLEAN, Asked(v)
    PROVE  ModeOK' /\ believed' = v
<1>1. believed' = v /\ believed' \in BOOLEAN /\ <<v>> \in HeldWrites
  BY Zenon DEF Asked, HeldWrites
<1>2. {ui8Parameters, chipCrc, chipRats} \subseteq BOOLEAN
  BY DEF ModeOK
<1>3. CASE WriteBack(<<v>>) \/ WriteBackFails(<<v>>)
  <2>1. {chipRats', ui8Parameters'} \subseteq {chipRats, ui8Parameters, v}
    <3>1. chipRats' \in {chipRats, v}
      BY <1>3 DEF Asked, WriteBack, WriteBackFails
    <3>2. ui8Parameters' \in {ui8Parameters, v}
      BY <1>3 DEF Asked, WriteBack, WriteBackFails
    <3> QED BY <3>1, <3>2
  <2>2. {chipRats', ui8Parameters'} \subseteq BOOLEAN
    BY <1>2, <2>1, Zenon
  <2> QED BY <1>1, <1>3, <2>2, WriteBackOK DEF ModeOK
<1>4. CASE /\ wb_data' = <<v>> /\ wb_trigged' = TRUE
           /\ UNCHANGED <<chipCrc, chipRats, ui8Parameters>>
  <2>1. wb_trigged' \in BOOLEAN /\ <<v>> # <<>>
    BY <1>4
  <2> QED BY <1>1, <1>2, <1>4, <2>1 DEF ModeOK
<1> QED BY <1>1, <1>3, <1>4 DEF Asked

\* Works and Fails keep their own variables typed.
LEMMA CountOK ==
    ASSUME TypeInv, Works \/ Fails
    PROVE  faults' \in 0 .. MaxFaults /\ clean' \in BOOLEAN
<1>1. faults \in 0 .. MaxFaults
  BY DEF TypeInv, CallOK
<1>2. clean \in BOOLEAN
  BY Zenon DEF TypeInv, FlagsOK
<1>3. faults' \in 0 .. MaxFaults
  BY <1>1, UidAssumption DEF Works, Fails, UidAssumption
<1>4. clean' \in BOOLEAN
  BY <1>2, Zenon DEF Works, Fails
<1> QED BY <1>3, <1>4

----------------------------------------------------------------------------
\* The guard, where the raw steps begin.
LEMMA GuardType == ASSUME TypeInv, Guard PROVE TypeInv'
<1>1. ModeOK' /\ believed' = FALSE
  BY AskedOK DEF Guard, TypeInv
<1>2. CardOK'
  BY DEF Guard, TypeInv, CardOK, chip
<1>3. pc' \in {"halt", "aborted"} /\ new_uid' \in Uids
  BY DEF Guard, Continue, TypeInv, CallOK
<1>4. faults' \in 0 .. MaxFaults /\ clean' \in BOOLEAN
  BY CountOK DEF Guard, Asked
<1>5. {magic, ignoreAdapter, ignoreTransport} \subseteq BOOLEAN
  BY DEF TypeInv, FlagsOK
<1>6. \/ UNCHANGED <<flags, saved>> /\ pc' = "aborted"
      \/ saved' = flags /\ ignoreAdapter' = TRUE /\ ignoreTransport' = TRUE
  BY DEF Guard
<1>7. {saved', wanted'} \subseteq BOOLEAN \X BOOLEAN
  <2>1. wanted' = wanted /\ saved' \in {saved, flags}
    BY <1>6 DEF Guard
  <2>2. flags \in BOOLEAN \X BOOLEAN
    BY <1>5 DEF flags
  <2>3. {saved, wanted} \subseteq BOOLEAN \X BOOLEAN
    BY DEF TypeInv, CallOK
  <2> QED BY <2>1, <2>2, <2>3
<1>8. CallOK'
  BY <1>3, <1>4, <1>7 DEF CallOK, RawSteps
<1>9. FlagsOK' /\ RawOK'
  <2>1. magic' = magic
    BY DEF Guard
  <2>2. CASE UNCHANGED <<flags, saved>> /\ pc' = "aborted"
    BY <1>4, <1>5, <2>1, <2>2 DEF FlagsOK, RawOK, RawSteps, flags
  <2>3. CASE ignoreAdapter' = TRUE /\ ignoreTransport' = TRUE
    <3>1. {ignoreAdapter', ignoreTransport'} \subseteq BOOLEAN
      BY <2>3, Zenon
    <3> QED BY <1>1, <1>4, <1>5, <2>1, <2>3, <3>1 DEF FlagsOK, RawOK
  <2> QED BY <1>6, <2>2, <2>3
<1> QED BY <1>1, <1>2, <1>8, <1>9 DEF TypeInv

\* The guard's destructor.
LEMMA UnguardType == ASSUME TypeInv, Unguard PROVE TypeInv'
<1>1. ModeOK'
  BY AskedOK DEF Unguard, TypeInv
<1>2. CardOK'
  BY DEF Unguard, TypeInv, CardOK, chip
<1>3. pc' \in {"idle", "aborted"} /\ new_uid' = None
  BY DEF Unguard, Continue
<1>4. faults' \in 0 .. MaxFaults /\ clean' \in BOOLEAN
  BY CountOK DEF Unguard, Asked
<1>5. {magic, ignoreAdapter, ignoreTransport} \subseteq BOOLEAN
      /\ {saved, wanted} \subseteq BOOLEAN \X BOOLEAN
  BY DEF TypeInv, FlagsOK, CallOK
<1>6. CallOK'
  BY <1>3, <1>4, <1>5 DEF CallOK, Unguard, user
<1>7. FlagsOK'
  <2>1. saved[1] \in BOOLEAN /\ saved[2] \in BOOLEAN
    BY <1>5
  <2>2. magic' = magic
    BY DEF Unguard
  <2>3. CASE UNCHANGED flags
    BY <1>4, <1>5, <2>2, <2>3 DEF FlagsOK, flags
  <2>4. CASE ignoreAdapter' = saved[1] /\ ignoreTransport' = saved[2]
    BY <1>4, <1>5, <2>1, <2>2, <2>4 DEF FlagsOK
  <2> QED BY <2>3, <2>4 DEF Unguard
<1>8. RawOK'
  BY <1>3 DEF RawOK, RawSteps
<1> QED BY <1>1, <1>2, <1>6, <1>7, <1>8 DEF TypeInv

\* A raw frame.
LEMMA FrameType ==
    ASSUME TypeInv, NEW from \in RawSteps, NEW to \in Raw, NEW frame, Frame(from, frame, to),
           frame \in DOMAIN AfterFrame
    PROVE  TypeInv'
<1>1. new_uid' = new_uid /\ new_uid \in Uids
  BY DEF Frame, TypeInv, CallOK, RawSteps
<1>2. ModeOK'
  <2>1. ModeOK /\ Due(from) \subseteq BOOLEAN
    BY DueBoolean DEF TypeInv
  <2>2. PICK due \in Due(from) : Flush(due) \/ WriteBackFails(Held(due))
    BY DEF Frame
  <2>3. UNCHANGED <<believed, ui8Parameters, chipRats>>
    BY DEF Frame
  <2> QED BY <2>1, <2>2, <2>3, FlushOK DEF ModeOK
<1>3. CardOK'
  <2>1. cardUid' \in {cardUid, Uid(new_uid, UidLen)} /\ UNCHANGED chip
    BY <1>1 DEF Frame, Receives
  <2>2. Uid(new_uid, UidLen) \in AllUids
    BY <1>1, UidAssumption DEF AllUids, UidAssumption
  <2>3. card' \in {card, "idle", AfterFrame[frame]}
    BY DEF Frame, Receives
  <2>4. AfterFrame[frame] \in {"halted", "unlocking", "unlocked", "writing", "ready"}
    BY DEF AfterFrame
  <2> QED BY <2>1, <2>2, <2>3, <2>4 DEF TypeInv, CardOK, chip
<1>4. faults' \in 0 .. MaxFaults /\ clean' \in BOOLEAN
  BY CountOK DEF Frame
<1>5. CallOK'
  BY <1>1, <1>4 DEF Frame, TypeInv, CallOK, Raw, RawSteps, user
<1>6. FlagsOK'
  BY <1>4 DEF Frame, TypeInv, FlagsOK, flags
<1>7. RawOK'
  BY DEF Frame, TypeInv, RawOK, flags
<1> QED BY <1>2, <1>3, <1>5, <1>6, <1>7 DEF TypeInv

\* The internals take the new UID.
LEMMA FixType == ASSUME TypeInv, FixInternals PROVE TypeInv'
<1>1. new_uid \in Uids /\ new_uid' = new_uid /\ pc' = "restore"
  BY DEF FixInternals, TypeInv, CallOK
<1>2. CardOK'
  <2>1. d_chips # None => d_chips.length \in {0, 4, 7}
    BY DEF TypeInv, CardOK, AllUids, Uid
  <2>2. \A length \in {0, 4, 7} : Uid(new_uid, length) \in AllUids
    BY <1>1 DEF AllUids
  <2> QED BY <2>1, <2>2 DEF FixInternals, TypeInv, CardOK
<1>3. ModeOK' /\ FlagsOK'
  BY DEF FixInternals, TypeInv, ModeOK, FlagsOK, mode, flags
<1>4. CallOK' /\ RawOK'
  BY <1>1 DEF FixInternals, TypeInv, CallOK, RawOK, RawSteps, user
<1> QED BY <1>2, <1>3, <1>4 DEF TypeInv

\* The calls that take one step, and the card's moves.
LEMMA CallerType == ASSUME TypeInv, Caller PROVE TypeInv'
<1>0. {cardUid, identifier} \subseteq AllUids /\ d_chips \in AllUids \cup {None}
  BY DEF TypeInv, CardOK
<1>1. ASSUME NEW uid \in Uids, ChangeUid(uid) PROVE TypeInv'
  <2>1. clean' \in BOOLEAN
    BY <1>1, Zenon DEF ChangeUid
  <2>2. ModeOK' /\ CardOK' /\ FlagsOK'
    BY <1>1, <2>1 DEF ChangeUid, TypeInv, ModeOK, CardOK, FlagsOK, mode, flags, chip
  <2>3. CallOK' /\ RawOK'
    BY <1>1 DEF ChangeUid, TypeInv, CallOK, RawOK, RawSteps, user
  <2> QED BY <2>2, <2>3 DEF TypeInv
<1>2. CASE Refresh
  <2>1. faults' \in 0 .. MaxFaults /\ clean' \in BOOLEAN
    BY <1>2, CountOK DEF Refresh
  <2>2. /\ Flush(wb_trigged) \/ WriteBack(wb_data) \/ WriteBackFails(wb_data)
        /\ ModeOK /\ UNCHANGED <<believed, ui8Parameters, chipRats>>
    BY <1>2 DEF Refresh, TypeInv
  <2>3. ModeOK'
    BY <2>2, FlushOK, TriggedBoolean DEF ModeOK
  <2>4. CardOK' /\ FlagsOK' /\ CallOK' /\ RawOK'
    BY <1>2, <2>1 DEF Refresh, Idle, TypeInv, CardOK, FlagsOK, CallOK, RawOK, RawSteps,
                      flags, user, chip
  <2> QED BY <2>3, <2>4 DEF TypeInv
<1>3. CASE Connect
  <2>1. faults' \in 0 .. MaxFaults /\ clean' \in BOOLEAN
    BY <1>3, CountOK DEF Connect
  <2>2. /\ Flush(wb_trigged) \/ WriteBackFails(Held(wb_trigged))
        /\ ModeOK /\ UNCHANGED <<believed, ui8Parameters, chipRats>>
    BY <1>3 DEF Connect, TypeInv
  <2>3. ModeOK'
    BY <2>2, FlushOK, TriggedBoolean DEF ModeOK
  <2>4. identifier' \in AllUids
    BY <1>0, <1>3 DEF Connect
  <2>5. card' \in {"active", "away", "halted"}
    BY <1>3 DEF Connect
  <2>6. CardOK' /\ FlagsOK' /\ CallOK' /\ RawOK'
    BY <1>3, <2>1, <2>4, <2>5 DEF Connect, Idle, TypeInv, CardOK, FlagsOK, CallOK, RawOK,
                                  RawSteps, flags, user
  <2> QED BY <2>3, <2>6 DEF TypeInv
<1>4. CASE WaitRemoval
  BY <1>4 DEF WaitRemoval, Idle, TypeInv, ModeOK, CardOK, FlagsOK, CallOK, RawOK, RawSteps,
              mode, flags, user
<1>5. ASSUME NEW adapter \in BOOLEAN, NEW transport \in BOOLEAN,
             IgnoreAllError(adapter, transport)
      PROVE  TypeInv'
  <2>1. {ignoreAdapter', ignoreTransport'} \subseteq BOOLEAN
    BY <1>5, Zenon DEF IgnoreAllError
  <2>2. wanted' \in BOOLEAN \X BOOLEAN /\ saved' = saved
    BY <1>5 DEF IgnoreAllError
  <2>3. pc = "idle" /\ pc' = pc /\ UNCHANGED <<magic, clean, faults, new_uid>>
    BY <1>5 DEF IgnoreAllError, Idle
  <2>4. FlagsOK' /\ CallOK' /\ RawOK'
    BY <2>1, <2>2, <2>3 DEF TypeInv, FlagsOK, CallOK, RawOK, RawSteps
  <2>5. ModeOK' /\ CardOK'
    BY <1>5 DEF IgnoreAllError, TypeInv, ModeOK, CardOK, mode, chip
  <2> QED BY <2>4, <2>5 DEF TypeInv
<1> QED BY <1>1, <1>2, <1>3, <1>4, <1>5 DEF Caller

\* Nothing is typed wrongly at the beginning.
LEMMA InitType == ASSUME Init PROVE TypeInv
<1>1. ModeOK
  <2>1. {believed, ui8Parameters, chipCrc, chipRats, wb_trigged} \subseteq BOOLEAN
    BY Zenon DEF Init
  <2> QED BY <2>1 DEF Init, ModeOK, HeldWrites
<1>2. CardOK
  <2>1. \A head \in Uids : Uid(head, UidLen) \in AllUids
    BY UidAssumption DEF UidAssumption, AllUids
  <2> QED BY <2>1 DEF Init, CardOK
<1>3. FlagsOK
  BY Zenon DEF Init, FlagsOK
<1>4. CallOK /\ RawOK
  <2>1. <<FALSE, FALSE>> \in BOOLEAN \X BOOLEAN
    OBVIOUS
  <2>2. {saved, wanted} \subseteq BOOLEAN \X BOOLEAN
    BY <2>1, Zenon DEF Init
  <2>3. new_uid = None /\ pc = "idle" /\ faults = 0
    BY DEF Init
  <2> QED BY <2>2, <2>3, UidAssumption DEF UidAssumption, CallOK, RawOK, RawSteps
<1> QED BY <1>1, <1>2, <1>3, <1>4 DEF TypeInv

\* No step does, either.
LEMMA StepType == ASSUME TypeInv, [Next]_vars PROVE TypeInv'
<1>1. CASE Caller
  BY <1>1, CallerType
<1>2. CASE Step
  <2>1. CASE pc \notin {"guard", "fix", "restore"}
    BY <1>2, <2>1, FramesStayRaw, FrameType
  <2>2. CASE pc \in {"guard", "fix", "restore"}
    <3>1. Guard \/ FixInternals \/ Unguard
      BY <1>2, <2>2 DEF Step, Frame
    <3> QED BY <3>1, GuardType, FixType, UnguardType
  <2> QED BY <2>1, <2>2
<1>3. CASE CardMoves
  <2>1. clean' \in BOOLEAN /\ card' \in {"idle", "away"}
    BY <1>3, Zenon DEF CardMoves
  <2>2. ModeOK' /\ CardOK' /\ FlagsOK'
    BY <1>3, <2>1 DEF CardMoves, TypeInv, ModeOK, CardOK, FlagsOK, mode, flags, chip
  <2>3. CallOK' /\ RawOK'
    BY <1>3 DEF CardMoves, TypeInv, CallOK, RawOK, mode, flags, user
  <2> QED BY <2>2, <2>3 DEF TypeInv
<1>4. CASE UNCHANGED vars
  BY <1>4 DEF vars, TypeInv, ModeOK, CardOK, FlagsOK, CallOK, RawOK, mode, flags, user, chip
<1> QED BY <1>1, <1>2, <1>3, <1>4 DEF Next

\* Every variable of a UID change keeps its type, and raw frames are sent only
\* in raw mode, as libnfc believes it, and in silence.
THEOREM TypeCorrect == Spec => []TypeOK
BY InitType, StepType, TypeParts, PTL DEF Spec

----------------------------------------------------------------------------
\* How far an undisturbed change has come: the state of the card before each step.
CardAt ==
    [guard |-> "active", halt |-> "active", unlock1 |-> "halted", unlock2 |-> "unlocking",
     write |-> "unlocked", data |-> "writing", haltAgain |-> "unlocked",
     wakeUp |-> "halted", fix |-> "ready", restore |-> "ready"]

\* The next frame goes out without a CRC of the chip's own: it adds none, or is
\* told so by the write held back.
Quiet ==
    \/ wb_data = <<FALSE>> /\ wb_trigged
    \/ wb_data = <<>> /\ chipCrc = FALSE

\* From the frame with the data on, the card has the new UID.
Written == {"haltAgain", "wakeUp", "fix", "restore"}

Whole == {Uid(head, UidLen) : head \in Uids}

ChangeInv ==
    /\ cardUid \in Whole
    /\ magic => UidLen = 4
    /\ clean /\ pc \in DOMAIN CardAt =>
         /\ magic /\ card = CardAt[pc] /\ d_chips \in Whole
         /\ pc # "guard" => Quiet
         /\ pc \in Written => cardUid = Uid(new_uid, 4)
         /\ pc = "restore" => d_chips = cardUid /\ identifier = cardUid

\* What is held back is what was asked for.
LEMMA HeadOfOne == \A b : Head(<<b>>) = b /\ <<b>> # <<>>
OBVIOUS

\* What a frame does that the card obeys, when nothing disturbs it.
LEMMA FrameObeyed ==
    ASSUME NEW from, NEW frame, NEW to, Frame(from, frame, to), clean', Quiet, Obeys(frame)
    PROVE  /\ clean /\ Quiet' /\ card' = AfterFrame[frame] /\ UNCHANGED <<magic, new_uid, chip>>
           /\ cardUid' = IF frame = "data" THEN Uid(new_uid, UidLen) ELSE cardUid
<1>1. PICK due \in Due(from) : Works /\ Flush(due) /\ Receives(frame)
  BY DEF Frame, Fails
<1>2. chipCrc' = FALSE /\ wb_data' = <<>>
  <2>1. CASE wb_data = <<FALSE>> /\ wb_trigged
    <3>1. due
      BY <2>1 DEF Due
    <3>2. Head(<<FALSE>>) = FALSE /\ <<FALSE>> # <<>>
      BY HeadOfOne, Zenon
    <3> QED BY <1>1, <2>1, <3>1, <3>2 DEF Flush, WriteBack
  <2>2. CASE wb_data = <<>> /\ chipCrc = FALSE
    BY <1>1, <2>2 DEF Flush, WriteBack
  <2> QED BY <2>1, <2>2 DEF Quiet
<1> QED BY <1>1, <1>2 DEF Receives, Works, Quiet, Frame

\* Every step of a change leaves it as far as the next step expects.
LEMMA StepChange ==
    ASSUME TypeInv, ChangeInv, [Next]_vars
    PROVE  ChangeInv'
<1>1. CASE Guard
  <2>1. SUFFICES ASSUME clean', pc' # "aborted"
                 PROVE  /\ magic' /\ card' = "active" /\ d_chips' \in Whole /\ Quiet'
                        /\ pc' = "halt"
    BY <1>1 DEF Guard, ChangeInv, CardAt, Written, chip, Whole
  <2>2. Works /\ clean /\ pc' = "halt"
    BY <1>1, <2>1 DEF Guard, Asked, Fails, Works, Continue
  <2>3. Quiet'
    <3>1. \/ wb_data' = <<FALSE>> /\ wb_trigged'
          \/ wb_data' = <<>> /\ chipCrc' = FALSE
      <4>1. <<FALSE>> # <<>> /\ Head(<<FALSE>>) = FALSE
        BY HeadOfOne, Zenon
      <4> QED BY <1>1, <2>1, <4>1 DEF Guard, Asked, Fails, WriteBack
    <3> QED BY <3>1 DEF Quiet
  <2> QED BY <1>1, <2>2, <2>3 DEF Guard, ChangeInv, CardAt, chip
<1>2. CASE Step /\ pc \notin {"guard", "fix", "restore"}
  <2>1. SUFFICES ASSUME clean' PROVE ChangeInv'
    <3>1. PICK from \in RawSteps, to \in Raw : \E frame \in DOMAIN AfterFrame : Frame(from, frame, to)
      BY <1>2, FramesStayRaw
    <3>2. new_uid \in Uids
      BY <3>1 DEF Frame, TypeInv, CallOK, RawSteps
    <3>3. magic' = magic /\ cardUid' \in {cardUid, Uid(new_uid, UidLen)}
      BY <3>1 DEF Frame, Receives
    <3> QED BY <3>2, <3>3 DEF ChangeInv, Whole
  <2>2. new_uid \in Uids /\ clean
    BY <1>2, <2>1, FramesStayRaw DEF Frame, Fails, Works, TypeInv, CallOK, RawSteps
  <2>3. pc \in RawSteps => magic /\ card = CardAt[pc] /\ d_chips \in Whole /\ Quiet
                           /\ UidLen = 4
                           /\ (pc \in Written => cardUid = Uid(new_uid, 4))
    BY <2>2 DEF ChangeInv, CardAt, RawSteps
  <2>4. ASSUME NEW from \in RawSteps, NEW frame \in DOMAIN AfterFrame, NEW to \in Raw,
               Frame(from, frame, to), Obeys(frame), to # "guard", to # "restore",
               AfterFrame[frame] = CardAt[to],
               to \in Written => from \in Written \/ frame = "data",
               frame = "data" => to \in Written
        PROVE  ChangeInv'
    <3>1. pc = from /\ pc' = to
      BY <2>4 DEF Frame
    <3>2. /\ clean /\ Quiet' /\ card' = CardAt[to] /\ UNCHANGED <<magic, new_uid, d_chips>>
          /\ cardUid' = IF frame = "data" THEN Uid(new_uid, UidLen) ELSE cardUid
      BY <2>1, <2>3, <2>4, <3>1, FrameObeyed DEF chip
    <3>3. cardUid' \in Whole
      BY <2>2, <3>2 DEF ChangeInv, Whole
    <3>4. pc' \in Written => cardUid' = Uid(new_uid', 4)
      BY <2>3, <2>4, <3>1, <3>2
    <3>5. magic' /\ UidLen = 4 /\ d_chips' \in Whole
      BY <2>3, <2>4, <3>1, <3>2 DEF Whole
    <3> QED BY <2>4, <3>1, <3>2, <3>3, <3>4, <3>5 DEF ChangeInv
  <2> DEFINE Leads(from, frame, to) ==
               /\ from \in RawSteps /\ frame \in DOMAIN AfterFrame /\ to \in Raw
               /\ Obeys(frame) /\ AfterFrame[frame] = CardAt[to]
               /\ to # "guard" /\ to # "restore"
               /\ to \in Written => from \in Written \/ frame = "data"
               /\ frame = "data" => to \in Written
  <2>5. CASE Frame("halt", "halt", "unlock1")
    <3>1. pc = "halt"
      BY <2>5 DEF Frame
    <3>2. Leads("halt", "halt", "unlock1")
      BY <2>3, <3>1 DEF Obeys, AfterFrame, CardAt, RawSteps, Raw, Written
    <3> QED BY <2>4, <2>5, <3>2
  <2>6. CASE Frame("unlock1", "unlock1", "unlock2")
    <3>1. pc = "unlock1"
      BY <2>6 DEF Frame
    <3>2. Leads("unlock1", "unlock1", "unlock2")
      BY <2>3, <3>1 DEF Obeys, AfterFrame, CardAt, RawSteps, Raw, Written
    <3> QED BY <2>4, <2>6, <3>2
  <2>7. CASE Frame("unlock2", "unlock2", "write")
    <3>1. pc = "unlock2"
      BY <2>7 DEF Frame
    <3>2. Leads("unlock2", "unlock2", "write")
      BY <2>3, <3>1 DEF Obeys, AfterFrame, CardAt, RawSteps, Raw, Written
    <3> QED BY <2>4, <2>7, <3>2
  <2>8. CASE Frame("write", "write", "data")
    <3>1. pc = "write"
      BY <2>8 DEF Frame
    <3>2. Leads("write", "write", "data")
      BY <2>3, <3>1 DEF Obeys, AfterFrame, CardAt, RawSteps, Raw, Written
    <3> QED BY <2>4, <2>8, <3>2
  <2>9. CASE Frame("data", "data", "haltAgain")
    <3>1. pc = "data"
      BY <2>9 DEF Frame
    <3>2. Leads("data", "data", "haltAgain")
      BY <2>3, <3>1 DEF Obeys, AfterFrame, CardAt, RawSteps, Raw, Written
    <3> QED BY <2>4, <2>9, <3>2
  <2>10. CASE Frame("haltAgain", "halt", "wakeUp")
    <3>1. pc = "haltAgain"
      BY <2>10 DEF Frame
    <3>2. Leads("haltAgain", "halt", "wakeUp")
      BY <2>3, <3>1 DEF Obeys, AfterFrame, CardAt, RawSteps, Raw, Written
    <3> QED BY <2>4, <2>10, <3>2
  <2>11. CASE Frame("wakeUp", "wakeUp", "fix")
    <3>1. pc = "wakeUp"
      BY <2>11 DEF Frame
    <3>2. Leads("wakeUp", "wakeUp", "fix")
      BY <2>3, <3>1 DEF Obeys, AfterFrame, CardAt, RawSteps, Raw, Written
    <3> QED BY <2>4, <2>11, <3>2
  <2> QED
    <3>1. ~Guard /\ ~FixInternals /\ ~Unguard
      BY <1>2 DEF Guard, FixInternals, Unguard
    <3> HIDE DEF Leads
    <3> QED BY <1>2, <2>5, <2>6, <2>7, <2>8, <2>9, <2>10, <2>11, <3>1, Zenon DEF Step
<1>3. CASE FixInternals
  <2>1. SUFFICES ASSUME clean'
                 PROVE  /\ magic' /\ card' = "ready" /\ d_chips' \in Whole /\ Quiet'
                        /\ cardUid' = Uid(new_uid', 4)
                        /\ d_chips' = cardUid' /\ identifier' = cardUid'
    BY <1>3 DEF FixInternals, ChangeInv, CardAt, Written
  <2>2. /\ magic /\ card = "ready" /\ d_chips \in Whole /\ Quiet
        /\ cardUid = Uid(new_uid, 4) /\ UidLen = 4 /\ cardUid \in Whole
    BY <1>3, <2>1 DEF FixInternals, ChangeInv, CardAt, Written
  <2>3. d_chips # None /\ d_chips.length = 4
    BY <2>2, UidAssumption DEF UidAssumption, Whole, Uid
  <2>4. d_chips' = Uid(new_uid, 4) /\ identifier' = Uid(new_uid, 4)
        /\ UNCHANGED <<magic, card, cardUid, new_uid>> /\ Quiet'
    BY <1>3, <2>2, <2>3 DEF FixInternals, mode, Quiet
  <2> QED BY <2>2, <2>4 DEF Whole
<1>4. CASE Unguard
  BY <1>4 DEF Unguard, Continue, ChangeInv, CardAt, chip
<1>5. CASE \E uid \in Uids : ChangeUid(uid)
  <2>1. pc' = "guard" /\ UNCHANGED <<magic, cardUid, card, d_chips>>
    BY <1>5 DEF ChangeUid, chip
  <2>2. clean' => magic /\ card = "active" /\ d_chips = cardUid
    BY <1>5, Zenon DEF ChangeUid
  <2> QED BY <2>1, <2>2 DEF ChangeInv, CardAt, Written, Whole
<1>6. CASE Refresh \/ Connect \/ WaitRemoval
  BY <1>6 DEF Refresh, Connect, WaitRemoval, Idle, ChangeInv, CardAt
<1>7. CASE CardMoves
  BY <1>7 DEF CardMoves, ChangeInv, Whole
<1>8. CASE \E adapter, transport \in BOOLEAN : IgnoreAllError(adapter, transport)
  BY <1>8 DEF IgnoreAllError, Idle, ChangeInv, CardAt
<1>9. CASE UNCHANGED vars
  BY <1>9 DEF vars, ChangeInv, Quiet, Whole, mode, chip
<1>10. Step => \/ Guard \/ Unguard \/ FixInternals
               \/ Step /\ pc \notin {"guard", "fix", "restore"}
  BY DEF Step, Frame
<1> QED BY <1>1, <1>2, <1>3, <1>4, <1>5, <1>6, <1>7, <1>8, <1>9, <1>10 DEF Next, Caller

\* A change that nothing disturbed, of a magic card that was connected, is
\* complete: the card has the new UID, is awake, and is what the unit lists.  It
\* holds with and without assertions, and whatever went wrong before the change.
THEOREM ChangesAreComplete == Spec => ChangeIsComplete
<1>1. Init => TypeInv /\ ChangeInv
  <2>1. Init => ChangeInv
    BY UidAssumption DEF UidAssumption, Init, ChangeInv, CardAt, Whole
  <2> QED BY <2>1, InitType
<1>2. (TypeInv /\ ChangeInv) /\ [Next]_vars => (TypeInv /\ ChangeInv)'
  BY StepType, StepChange
<1> DEFINE Complete ==
      pc = "restore" /\ pc' = "idle" /\ clean'
        => /\ cardUid' = Uid(new_uid, 4) /\ card' = "ready"
           /\ d_chips' = cardUid' /\ identifier' = cardUid'
<1>3. ChangeInv /\ [Next]_vars => [Complete]_vars
  <2>1. SUFFICES ASSUME ChangeInv, Next, pc = "restore", pc' = "idle", clean'
                 PROVE  /\ cardUid' = Uid(new_uid, 4) /\ card' = "ready"
                        /\ d_chips' = cardUid' /\ identifier' = cardUid'
    OBVIOUS
  <2>2. Unguard
    BY <2>1 DEF Next, Caller, Step, Guard, Frame, FixInternals, ChangeUid, Refresh, Connect,
                WaitRemoval, IgnoreAllError, Idle, CardMoves
  <2>3. clean /\ UNCHANGED <<cardUid, card, chip>>
    BY <2>1, <2>2 DEF Unguard, Asked, Fails, Works
  <2> QED BY <2>1, <2>3 DEF ChangeInv, CardAt, Written, chip
<1> QED BY <1>1, <1>2, <1>3, PTL DEF Spec, ChangeIsComplete
=============================================================================
