------------------------------- MODULE MCUnit -------------------------------
(* Instances of NfcReaderUnit for TLC: the cards are named by what they are. *)
EXTENDS NfcReaderUnit

\* An ISO14443A and a FeliCa card of known types.
OneOfEach == {"mifare", "felica"}
\* Two ISO14443A cards, one of a type the unit does not know.
MifareAndOther == {"mifare", "other"}
TypeATags == Tags \cap {"mifare", "desfire", "other"}
KnownTags == Tags \ {"other"}
=============================================================================
