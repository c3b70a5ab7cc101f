----------------------------- MODULE MCSession -----------------------------
(* A Mifare Classic card and a DESFire card, for TLC. *)
EXTENDS NfcSession

MifareAndDESFire == {"mifare", "desfire"}

MCTargetOf ==
    [t \in Tags |->
        IF t = "mifare" THEN [nmt |-> "ISO14443A", uid |-> <<1, 2, 3, 4>>, sak |-> 8, ats |-> << >>]
        ELSE [nmt |-> "ISO14443A", uid |-> <<4, 1, 2, 3, 4, 5, 6>>, sak |-> 32,
              ats |-> <<117, 119, 129, 2, 128>>]]
=============================================================================
