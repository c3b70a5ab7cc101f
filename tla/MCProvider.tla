----------------------------- MODULE MCProvider -----------------------------
(* Instances of NfcReaderProvider for TLC. *)
EXTENDS NfcReaderProvider, TLC

\* Units, readers and providers only differ by what happens to them.
Symmetric == Permutations(Units) \cup Permutations(Readers) \cup Permutations(Providers)
=============================================================================
