------------------------------ MODULE GuidText ------------------------------
(***************************************************************************)
(* GUIDs as text (guid.hpp): guid_parser, which reads the container ID of  *)
(* an event without a terminator, and to_string, its inverse.  A character *)
(* is its code; the numbers of a GUID are the sequences of their bytes,    *)
(* the most significant first.                                             *)
(***************************************************************************)
EXTENDS Integers, Sequences

UUID_STRING_LENGTH == 36
Hyphen == 45
NotHex == -1

\* STR_POSITION_DATA1 to _DATA4_PART2, from 1, with the bytes that follow there
Position == [data1 |-> 1, data2 |-> 10, data3 |-> 15, part1 |-> 20, part2 |-> 25]
ByteCount == [data1 |-> 4, data2 |-> 2, data3 |-> 2, part1 |-> 2, part2 |-> 6]
Parts == DOMAIN Position
Octets == 0..255
Guids == {g \in [Parts -> Seq(Octets)] : \A part \in Parts : Len(g[part]) = ByteCount[part]}

\* Mutant of HexDigit: the letters count from 0.
HexDigitLow(c) ==
  IF c \in 48..57 \/ c \in 65..70 \cup 97..102 THEN c % 16 ELSE NotHex

\* '0'..'9', 'A'..'F' and 'a'..'f': the low four bits, and 9 more for a letter
HexDigit(c) ==
  IF c \in 48..57 THEN c % 16 ELSE IF c \in 65..70 \cup 97..102 THEN (c % 16) + 9 ELSE NotHex

HexOctetToByte(s, at) ==
  IF NotHex \in {HexDigit(s[at]), HexDigit(s[at + 1])} THEN NotHex
  ELSE 16 * HexDigit(s[at]) + HexDigit(s[at + 1])

\* hex_string_to_number and hex_string_to_bytes: n octets
HexBytes(s, at, n) == [i \in 1..n |-> HexOctetToByte(s, at + 2 * (i - 1))]

NoGuid == [part \in Parts |-> <<>>]

\* The GUID, or NoGuid when parse_guid throws
ParseGuid(s) ==
  IF Len(s) # UUID_STRING_LENGTH
     \/ \E part \in Parts \ {"data1"} : s[Position[part] - 1] # Hyphen THEN NoGuid
  ELSE LET g == [part \in Parts |-> HexBytes(s, Position[part], ByteCount[part])]
       IN  IF \E part \in Parts : \E i \in DOMAIN g[part] : g[part][i] = NotHex THEN NoGuid ELSE g

Digit(d, ten) == IF d < 10 THEN 48 + d ELSE ten + d - 10

\* to_string: %08x-%04x-%04x-..., in lower case; StringFromGUID2 gives upper case
GuidString(g, ten) ==
  LET owner(i) == CHOOSE part \in Parts :
                    i \in Position[part]..(Position[part] + 2 * ByteCount[part] - 1)
      byte(i) == g[owner(i)][(i - Position[owner(i)]) \div 2 + 1]
      high(i) == (i - Position[owner(i)]) % 2 = 0
  IN  [i \in 1..UUID_STRING_LENGTH |->
         IF i \in {9, 14, 19, 24} THEN Hyphen
         ELSE Digit(IF high(i) THEN byte(i) \div 16 ELSE byte(i) % 16, ten)]

GuidToString(g) == GuidString(g, 97)
StringFromGuid(g) == GuidString(g, 65)
-----------------------------------------------------------------------------
Lower(c) == IF c \in 65..90 THEN c + 32 ELSE c

\* Characters at the edges of the three ranges, and a hyphen.
Probes == {45, 47, 48, 57, 58, 64, 65, 70, 71, 96, 97, 102, 103}

\* Of the texts that differ from that of g in one character, those with a hex digit in
\* place of another are GUIDs, which to_string writes as they were but for the case,
\* and all others are refused (guid.hpp:261-298).
ParsesBack(g) ==
  /\ ParseGuid(StringFromGuid(g)) = g /\ ParseGuid(GuidToString(g)) = g
  /\ \A i \in 1..UUID_STRING_LENGTH, c \in Probes :
       LET s == [GuidToString(g) EXCEPT ![i] = c]
           lower == [j \in DOMAIN s |-> Lower(s[j])]
       IN  IF GuidToString(g)[i] = Hyphen THEN (c = Hyphen) <=> (ParseGuid(s) # NoGuid)
           ELSE IF c \in 48..57 \cup 65..70 \cup 97..102
                THEN GuidToString(ParseGuid(s)) = lower ELSE ParseGuid(s) = NoGuid
=============================================================================
