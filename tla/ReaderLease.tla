---------------------------- MODULE ReaderLease ----------------------------
(***************************************************************************)
(* What the provider and its units promise their caller: a unit borrows a  *)
(* reader that is there and that no other unit has, and the reader is free *)
(* again when the unit gives it back, is destroyed, or the reader is       *)
(* pulled out.  A unit that asks for a reader without giving back the one  *)
(* it has leaves that one behind, busy and nobody's.  Lists, names,        *)
(* contexts and drivers are NfcReaderProvider's business, which implements *)
(* this specification.                                                     *)
(***************************************************************************)
CONSTANTS Holders, Devices, Nothing

VARIABLES
    present,   \* the readers that are plugged in
    busy,      \* the readers nobody can borrow
    lease,     \* holder |-> the reader it has borrowed, or Nothing
    told       \* whether the last request was granted: <<holder, BOOLEAN>>, or
               \* Nothing when something else has happened since

vars == <<present, busy, lease, told>>

Init ==
    /\ present \in SUBSET Devices
    /\ busy = {}
    /\ lease = [h \in Holders |-> Nothing]
    /\ told = Nothing

\* The leases that are left when those of the holders in `enders' end.
LeasesWithout(enders) == [h \in Holders |-> IF h \in enders THEN Nothing ELSE lease[h]]

Arrive(d) ==
    /\ d \notin present /\ present' = present \cup {d}
    /\ told' = Nothing
    /\ UNCHANGED <<busy, lease>>

Leave(d) ==
    /\ d \in present /\ present' = present \ {d}
    /\ busy' = busy \ {d}
    /\ lease' = LeasesWithout({h \in Holders : lease[h] = d})
    /\ told' = Nothing

\* What h has borrowed before stays busy.
Borrow(h, d) ==
    /\ d \in present \ busy
    /\ busy' = busy \cup {d}
    /\ lease' = [lease EXCEPT ![h] = d]
    /\ told' = <<h, TRUE>>
    /\ UNCHANGED present

\* Also when h gets nothing in its place.
Refuse(h) ==
    /\ lease' = LeasesWithout({h})
    /\ told' = <<h, FALSE>>
    /\ UNCHANGED <<present, busy>>

\* One holder gives its reader back, or many at once; none, when the caller does
\* something else.
GiveBack(givers) ==
    /\ busy' = busy \ {lease[h] : h \in givers}
    /\ lease' = LeasesWithout(givers)
    /\ told' = Nothing
    /\ UNCHANGED present

Borrowers == {h \in Holders : lease[h] # Nothing}

Next ==
    \/ \E d \in Devices : Arrive(d) \/ Leave(d)
    \/ \E h \in Holders : Refuse(h) \/ \E d \in Devices : Borrow(h, d)
    \/ \E givers \in SUBSET Borrowers : GiveBack(givers)

Spec == Init /\ [][Next]_vars
=============================================================================
