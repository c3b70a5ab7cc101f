----------------------------- MODULE CardTypes -----------------------------
(***************************************************************************)
(* What NFCReaderUnit makes of a card: its type, from the table            *)
(* supported_tags[] by getCardTypeFromTarget(), and the commands and the   *)
(* result checker that createChip() gives a chip of that type.             *)
(***************************************************************************)
EXTENDS Integers, Sequences

Byte == 0 .. 255

\* The part of libnfc's nfc_target that the table looks at.
Targets == [nmt : {"ISO14443A", "FELICA"}, uid : Seq(Byte), sak : Byte, ats : Seq(Byte)]

NXP_MANUFACTURER_CODE == 4

Row(card_type, nmt, SAK, ATS_min_length, ATS) ==
    [card_type |-> card_type, nmt |-> nmt, SAK |-> SAK,
     ATS_min_length |-> ATS_min_length, ATS |-> ATS]

\* ATS holds the ATS_compare_length bytes that are compared.
supported_tags == <<
    Row("FeliCA",           "FELICA",      0, 0, << >>),
    Row("Mifare1K",         "ISO14443A",   8, 0, << >>),
    Row("Mifare1K",         "ISO14443A",  40, 0, << >>),
    Row("Mifare1K",         "ISO14443A", 104, 0, << >>),
    Row("Mifare1K",         "ISO14443A", 136, 0, << >>),
    Row("Mifare4K",         "ISO14443A",  24, 0, << >>),
    Row("Mifare4K",         "ISO14443A",  56, 0, << >>),
    Row("DESFireEV1",       "ISO14443A",  32, 5, <<117, 119, 129, 2>>),
    Row("DESFireEV1",       "ISO14443A",  96, 4, <<120, 51, 136>>),
    Row("DESFireEV1",       "ISO14443A",  96, 4, <<120, 128, 112>>),
    Row("MifareUltralight", "ISO14443A",   0, 0, << >>) >>

\* A UID of four bytes has no manufacturer code.
Matches(row, target) ==
    /\ target.nmt = row.nmt
    /\ row.nmt = "ISO14443A" =>
         /\ Len(target.uid) = 4 \/ target.uid[1] = NXP_MANUFACTURER_CODE
         /\ target.sak = row.SAK
         /\ row.ATS_min_length # 0 =>
              /\ Len(target.ats) >= row.ATS_min_length
              /\ \A i \in 1 .. Len(row.ATS) : target.ats[i] = row.ATS[i]

\* The type of the first row that matches, "" if none does.
CardType(target) ==
    LET rows == {i \in DOMAIN supported_tags : Matches(supported_tags[i], target)}
    IN  IF rows = {} THEN ""
        ELSE supported_tags[CHOOSE i \in rows : \A j \in rows : i <= j].card_type

\* A card whose UID begins with another manufacturer's code has no type.
Foreign(target) ==
    /\ target.nmt = "ISO14443A"
    /\ Len(target.uid) # 4
    /\ target.uid[1] # NXP_MANUFACTURER_CODE

----------------------------------------------------------------------------
\* createChip(): chips of the other types have no commands, and the default
\* checker.
CommandsOf(type) ==
    IF type \in {"Mifare1K", "Mifare4K", "Mifare"} THEN "MifareNFCCommands"
    ELSE IF type = "DESFireEV1" THEN "DESFireEV1ISO7816Commands"
    ELSE IF type = "DESFire" THEN "DESFireISO7816Commands"
    ELSE "none"

CheckerOf(type) ==
    IF type \in {"DESFireEV1", "DESFire"} THEN "DESFireISO7816ResultChecker"
    ELSE "ISO7816ResultChecker"

\* getCardService() offers a service, the one that changes a UID, for a chip
\* of these types with the commands that createChip() gave it.
OffersUidChange(type) ==
    type \in {"Mifare1K", "Mifare4K"} /\ CommandsOf(type) # "none"
=============================================================================
