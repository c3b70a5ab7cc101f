-------------------------- MODULE CardTypesProofs --------------------------
(***************************************************************************)
(* Theorems about the card type table, for every target libnfc may list.   *)
(***************************************************************************)
EXTENDS CardTypes, TLAPS

\* The rows for one modulation and one SAK are of one type.
LEMMA RowsBySAK ==
    ASSUME NEW i \in DOMAIN supported_tags, NEW j \in DOMAIN supported_tags,
           supported_tags[i].nmt = supported_tags[j].nmt,
           supported_tags[i].nmt = "ISO14443A" => supported_tags[i].SAK = supported_tags[j].SAK
    PROVE  supported_tags[i].card_type = supported_tags[j].card_type
<1>1. DOMAIN supported_tags = 1 .. 11
  BY DEF supported_tags, Row
<1> DEFINE Same(n, m) ==
      (/\ supported_tags[n].nmt = supported_tags[m].nmt
       /\ supported_tags[n].nmt = "ISO14443A" => supported_tags[n].SAK = supported_tags[m].SAK)
      => supported_tags[n].card_type = supported_tags[m].card_type
<1>2. \A n, m \in 1 .. 11 : Same(n, m)
  BY SMTT(60) DEF supported_tags, Row
<1> QED BY <1>1, <1>2

\* A set of rows that is not empty has a first row.
LEMMA LeastRow ==
    ASSUME NEW S, S \subseteq 1 .. 11, NEW i \in S
    PROVE  \E n \in S : \A m \in S : n <= m
<1>1. SUFFICES ASSUME \A n \in S : \E m \in S : m < n PROVE FALSE
  OBVIOUS
<1>2. \A n \in S : n > 3
  BY <1>1
<1>3. \A n \in S : n > 6
  BY <1>1, <1>2
<1>4. \A n \in S : n > 9
  BY <1>1, <1>3
<1> QED BY <1>1, <1>4

\* The table is unambiguous: whatever rows match a target, they agree on its type,
\* so the order of the rows does not matter and any match gives the type.
THEOREM CardTypeUnambiguous ==
    ASSUME NEW target \in Targets, NEW i \in DOMAIN supported_tags,
           Matches(supported_tags[i], target)
    PROVE  CardType(target) = supported_tags[i].card_type
<1> DEFINE rows == {n \in DOMAIN supported_tags : Matches(supported_tags[n], target)}
           first == CHOOSE n \in rows : \A m \in rows : n <= m
<1>1. i \in rows
  OBVIOUS
<1>2. DOMAIN supported_tags = 1 .. 11
  BY DEF supported_tags, Row
<1>3. \E n \in rows : \A m \in rows : n <= m
  BY <1>1, <1>2, LeastRow
<1>4. first \in rows
  BY <1>3
<1>5. supported_tags[first].card_type = supported_tags[i].card_type
  <2> HIDE DEF first
  <2>1. \A n \in rows : /\ supported_tags[n].nmt = target.nmt
                        /\ target.nmt = "ISO14443A" => supported_tags[n].SAK = target.sak
    BY DEF Matches
  <2>2. first \in DOMAIN supported_tags /\ i \in DOMAIN supported_tags
    BY <1>4
  <2>3. /\ supported_tags[first].nmt = supported_tags[i].nmt
        /\ supported_tags[i].nmt = "ISO14443A"
             => supported_tags[first].SAK = supported_tags[i].SAK
    <3> HIDE DEF rows
    <3> QED BY <1>1, <1>4, <2>1
  <2> HIDE DEF rows
  <2> QED BY <2>2, <2>3, RowsBySAK
<1>6. CardType(target) = supported_tags[first].card_type
  BY <1>1 DEF CardType
<1> QED BY <1>5, <1>6

\* A chip that is given Mifare Classic commands is an ISO14443A card whose UID is
\* four bytes long or begins with NXP's code, and has the default checker: the
\* service that changes a UID is offered for every such chip.
THEOREM MifareChips ==
    ASSUME NEW target \in Targets,
           CommandsOf(CardType(target)) = "MifareNFCCommands"
    PROVE  /\ target.nmt = "ISO14443A" /\ ~Foreign(target)
           /\ CheckerOf(CardType(target)) = "ISO7816ResultChecker"
           /\ OffersUidChange(CardType(target))
<1>1. CardType(target) \in {"Mifare1K", "Mifare4K", "Mifare"}
  BY DEF CommandsOf
<1>2. PICK i \in DOMAIN supported_tags : Matches(supported_tags[i], target)
  BY <1>1 DEF CardType
<1>3. CardType(target) = supported_tags[i].card_type
  BY <1>2, CardTypeUnambiguous
<1>4. DOMAIN supported_tags = 1 .. 11
  BY DEF supported_tags, Row
<1>5. supported_tags[i].nmt = "ISO14443A" /\ supported_tags[i].card_type \in {"Mifare1K", "Mifare4K"}
  <2>1. ASSUME NEW n \in 1 .. 11,
               supported_tags[n].card_type \in {"Mifare1K", "Mifare4K", "Mifare"}
        PROVE  n \in 2 .. 7
    <3>1. supported_tags[1].card_type = "FeliCA" /\ supported_tags[11].card_type = "MifareUltralight"
      BY DEF supported_tags, Row
    <3>2. /\ supported_tags[8].card_type = "DESFireEV1"
          /\ supported_tags[9].card_type = "DESFireEV1"
          /\ supported_tags[10].card_type = "DESFireEV1"
      BY DEF supported_tags, Row
    <3> QED BY <2>1, <3>1, <3>2
  <2>2. \A n \in 2 .. 7 : /\ supported_tags[n].nmt = "ISO14443A"
                          /\ supported_tags[n].card_type \in {"Mifare1K", "Mifare4K"}
    BY DEF supported_tags, Row
  <2> QED BY <1>1, <1>3, <1>4, <2>1, <2>2
<1>6. target.nmt = "ISO14443A" /\ ~Foreign(target)
  BY <1>2, <1>5 DEF Matches, Foreign
<1> QED BY <1>3, <1>5, <1>6 DEF CheckerOf, OffersUidChange, CommandsOf
=============================================================================
