------------------------------- MODULE MCUid -------------------------------
(* Instances of ChipUidChange for TLC: UIDs are model values. *)
EXTENDS ChipUidChange, TLC

\* UIDs only differ by who has them.
Symmetric == Permutations(Uids)
=============================================================================
