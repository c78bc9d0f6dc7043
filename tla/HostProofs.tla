----------------------------- MODULE HostProofs -----------------------------
(***************************************************************************)
(* Theorems about Host, for every configuration, file, path and text:      *)
(* documents and configurations correspond, an edit changes what its path  *)
(* leads to, and whatever commands are run, fail, are killed, or lose the  *)
(* board its power, each does what it is for or nothing.                   *)
(***************************************************************************)
EXTENDS Host, SequenceTheorems, WellFoundedInduction, TLAPS

-----------------------------------------------------------------------------
(* Numbers and sequences.                                                  *)

\* The order of the numbers.
Less == {ss \in Nat \X Nat : ss[1] < ss[2]}

\* A set of numbers has a least one.
LEMMA LeastNumber ==
    ASSUME NEW T \in SUBSET Nat, T # {}
    PROVE  \E x \in T : \A y \in T : x <= y
  <1>1. IsWellFoundedOn(Less, Nat)
    BY NatLessThanWellFounded DEF OpToRel, Less
  <1>2. PICK x \in T : \A y \in T : <<y, x>> \notin Less
    BY <1>1, WFMin, Zenon
  <1>3. ASSUME NEW y \in T PROVE x <= y
    <2>1. ~(y < x)
      BY <1>2 DEF Less
    <2>2. x \in Nat /\ y \in Nat
      OBVIOUS
    <2> QED
      BY <2>1, <2>2
  <1> QED
    BY <1>3

\* A set of numbers that holds 0 and the next of each number holds all of them.
LEMMA Induction ==
    ASSUME NEW T \in SUBSET Nat, 0 \in T, \A n \in T : n + 1 \in T
    PROVE  T = Nat
  <1> SUFFICES ASSUME Nat \ T # {} PROVE FALSE
    OBVIOUS
  <1>1. PICK x \in Nat \ T : \A y \in Nat \ T : x <= y
    BY LeastNumber
  <1>2. x - 1 \in Nat /\ x - 1 \in T
    BY <1>1
  <1> QED
    BY <1>2

-----------------------------------------------------------------------------
(* Numerals.                                                               *)

\* The sixteen digits are different, and each is a character.
LEMMA HexDigits ==
    /\ \A d, e \in 0 .. 15 : HEX[d + 1] = HEX[e + 1] => d = e
    /\ \A d \in 0 .. 15 : HEX[d + 1] \in Character
  <1>1. /\ HEX[1] = "0" /\ HEX[2] = "1" /\ HEX[3] = "2" /\ HEX[4] = "3"
        /\ HEX[5] = "4" /\ HEX[6] = "5" /\ HEX[7] = "6" /\ HEX[8] = "7"
        /\ HEX[9] = "8" /\ HEX[10] = "9" /\ HEX[11] = "A" /\ HEX[12] = "B"
        /\ HEX[13] = "C" /\ HEX[14] = "D" /\ HEX[15] = "E" /\ HEX[16] = "F"
    BY DEF HEX
  <1>2. ASSUME NEW d \in 0 .. 15, NEW e \in 0 .. 15, HEX[d + 1] = HEX[e + 1]
        PROVE  d = e
    BY <1>1, <1>2
  <1>3. ASSUME NEW d \in 0 .. 15
        PROVE  HEX[d + 1] \in Character
    <2>1. DOMAIN HEX = 1 .. 16
      BY DEF HEX
    <2>2. d + 1 \in DOMAIN HEX
      BY <2>1
    <2>3. HEX[d + 1] \in Range(HEX)
      BY <2>2, Zenon DEF Range
    <2> QED
      BY <2>3, NamesAssumption, Zenon
  <1> QED
    BY <1>2, <1>3

\* A digit is read as what it is written for.
LEMMA DigitRead ==
    ASSUME NEW d \in 0 .. 15
    PROVE  Digit(HEX[d + 1]) = d /\ IsDigit(HEX[d + 1], 16)
  <1>1. \A e \in 0 .. 15 : HEX[e + 1] = HEX[d + 1] <=> e = d
    BY HexDigits
  <1>2. Digit(HEX[d + 1]) = d
    BY <1>1 DEF Digit
  <1>3. IsDigit(HEX[d + 1], 16)
    <2>1. d \in 0 .. 16 - 1
      OBVIOUS
    <2> QED
      BY <2>1 DEF IsDigit
  <1> QED
    BY <1>2, <1>3

\* The numbers read, digit by digit.
ReadsUp(r, s, base, n) == \A i \in 0 .. n : r[i] = IF i = 0 THEN 0 ELSE base * r[i - 1] + Digit(s[i])

\* What ParseUint makes of the last of them.
Numeral(r, s, base, width) ==
    IF s # <<>> /\ (\A i \in DOMAIN s : IsDigit(s[i], base)) /\ r[Len(s)] \in width
    THEN Parsed(r[Len(s)])
    ELSE Refuse

\* There are such numbers.
LEMMA ReadsExist ==
    ASSUME NEW s, NEW base, NEW m \in Nat
    PROVE  \E r : ReadsUp(r, s, base, m)
  <1> DEFINE T == {n \in Nat : \E r : ReadsUp(r, s, base, n)}
  <1>1. 0 \in T
    <2>1. ReadsUp([i \in 0 .. 0 |-> 0], s, base, 0)
      BY DEF ReadsUp
    <2> QED
      BY <2>1
  <1>2. ASSUME NEW n \in T PROVE n + 1 \in T
    <2>1. PICK r : ReadsUp(r, s, base, n)
      OBVIOUS
    <2> DEFINE q == [i \in 0 .. n + 1 |-> IF i = n + 1 THEN base * r[n] + Digit(s[n + 1]) ELSE r[i]]
    <2>2. ASSUME NEW i \in 0 .. n + 1 PROVE q[i] = IF i = 0 THEN 0 ELSE base * q[i - 1] + Digit(s[i])
      <3>1. CASE i = n + 1
        <4>1. i # 0 /\ i - 1 = n /\ q[n] = r[n] /\ q[i] = base * r[n] + Digit(s[n + 1])
          BY <3>1
        <4> QED
          BY <3>1, <4>1, Zenon
      <3>2. CASE i # n + 1
        <4>1. i \in 0 .. n /\ q[i] = r[i] /\ (i # 0 => q[i - 1] = r[i - 1])
          BY <3>2
        <4>2. r[i] = IF i = 0 THEN 0 ELSE base * r[i - 1] + Digit(s[i])
          BY <2>1, <4>1, Zenon DEF ReadsUp
        <4> QED
          BY <4>1, <4>2, Zenon
      <3> QED
        BY <3>1, <3>2
    <2> HIDE DEF q
    <2>3. ReadsUp(q, s, base, n + 1)
      BY <2>2, Zenon DEF ReadsUp
    <2> QED
      BY <2>3
  <1> HIDE DEF T
  <1>3. T = Nat
    BY <1>1, <1>2, Induction DEF T
  <1> QED
    BY <1>3 DEF T

\* ParseUint reads them.
LEMMA ParseReads ==
    ASSUME NEW s \in Seq(Character), NEW base, NEW width
    PROVE  \E r : ReadsUp(r, s, base, Len(s)) /\ ParseUint(s, base, width) = Numeral(r, s, base, width)
  <1>1. PICK n \in Nat : n = Len(s)
    OBVIOUS
  <1> DEFINE Right(g) == g = [i \in 0 .. Len(s) |-> IF i = 0 THEN 0 ELSE base * g[i - 1] + Digit(s[i])]
             c == CHOOSE g : Right(g)
  <1>2. \E g : Right(g)
    <2>1. PICK r : ReadsUp(r, s, base, n)
      BY ReadsExist
    <2> DEFINE g == [i \in 0 .. n |-> r[i]]
    <2>2. \A i \in 0 .. n : g[i] = IF i = 0 THEN 0 ELSE base * g[i - 1] + Digit(s[i])
      <3>1. \A i \in 0 .. n : i # 0 => i - 1 \in 0 .. n
        OBVIOUS
      <3>2. \A i \in 0 .. n : g[i] = r[i]
        OBVIOUS
      <3> QED
        BY <2>1, <3>1, <3>2, Zenon DEF ReadsUp
    <2>3. g = [i \in 0 .. n |-> IF i = 0 THEN 0 ELSE base * g[i - 1] + Digit(s[i])]
      <3>1. g = [i \in 0 .. n |-> g[i]]
        OBVIOUS
      <3> HIDE DEF g
      <3> QED
        BY <2>2, <3>1, Zenon
    <2> QED
      BY <1>1, <2>3, Zenon
  <1>3. Right(c)
    BY <1>2, Zenon
  <1>4. ParseUint(s, base, width) = Numeral(c, s, base, width)
    BY Zenon DEF ParseUint, Numeral
  <1> HIDE DEF c
  <1>5. ReadsUp(c, s, base, Len(s))
    BY <1>3, Zenon DEF ReadsUp
  <1> QED
    BY <1>4, <1>5

\* A number that is read is one of the width.
LEMMA ParseType ==
    ASSUME NEW s, NEW base, NEW width, ParseUint(s, base, width).ok
    PROVE  ParseUint(s, base, width).val \in width
  BY DEF ParseUint, Refuse, Parsed

\* Two digits.
Nibble == 0 .. 15
IsTwo(n, h, l) == n = 16 * h + l
TwoDigits(h, l) == <<HEX[h + 1], HEX[l + 1]>>

\* Two digits are read as their number.
LEMMA ParseTwo ==
    ASSUME NEW h \in Nibble, NEW l \in Nibble, NEW n, NEW width, IsTwo(n, h, l), n \in width
    PROVE  ParseUint(TwoDigits(h, l), 16, width) = Parsed(n)
  <1>0. h \in 0 .. 15 /\ l \in 0 .. 15
    BY DEF Nibble
  <1> DEFINE s == TwoDigits(h, l)
  <1>1. /\ s \in Seq(Character) /\ Len(s) = 2 /\ s # <<>> /\ DOMAIN s = 1 .. 2
        /\ s[1] = HEX[h + 1] /\ s[2] = HEX[l + 1]
    BY <1>0, HexDigits DEF TwoDigits
  <1>2. \A i \in DOMAIN s : IsDigit(s[i], 16)
    <2>1. IsDigit(s[1], 16) /\ IsDigit(s[2], 16)
      BY <1>0, <1>1, DigitRead, Zenon
    <2> QED
      BY <1>1, <2>1
  <1> HIDE DEF s
  <1>3. PICK r : ReadsUp(r, s, 16, Len(s)) /\ ParseUint(s, 16, width) = Numeral(r, s, 16, width)
    BY <1>1, ParseReads, Zenon
  <1>4. r[0] = 0 /\ r[1] = 16 * r[0] + Digit(s[1]) /\ r[2] = 16 * r[1] + Digit(s[2])
    <2>1. \A i \in 0 .. 2 : r[i] = IF i = 0 THEN 0 ELSE 16 * r[i - 1] + Digit(s[i])
      BY <1>1, <1>3 DEF ReadsUp
    <2> QED
      BY <2>1
  <1>5. Digit(s[1]) = h /\ Digit(s[2]) = l
    BY <1>0, <1>1, DigitRead
  <1>6. r[Len(s)] = n
    BY <1>0, <1>1, <1>4, <1>5 DEF IsTwo
  <1> QED
    BY <1>1, <1>2, <1>3, <1>6, Zenon DEF Numeral, s

\* Four digits.
IsFour(n, a, b, h, l) == n = 256 * (16 * a + b) + (16 * h + l)
FourDigits(a, b, h, l) == <<HEX[a + 1], HEX[b + 1], HEX[h + 1], HEX[l + 1]>>

\* Four digits are read as their number.
LEMMA ParseFour ==
    ASSUME NEW a \in Nibble, NEW b \in Nibble, NEW h \in Nibble, NEW l \in Nibble,
           NEW n, NEW width, IsFour(n, a, b, h, l), n \in width
    PROVE  ParseUint(FourDigits(a, b, h, l), 16, width) = Parsed(n)
  <1>0. a \in 0 .. 15 /\ b \in 0 .. 15 /\ h \in 0 .. 15 /\ l \in 0 .. 15
    BY DEF Nibble
  <1> DEFINE s == FourDigits(a, b, h, l)
  <1>1. /\ s \in Seq(Character) /\ Len(s) = 4 /\ s # <<>> /\ DOMAIN s = 1 .. 4
        /\ s[1] = HEX[a + 1] /\ s[2] = HEX[b + 1] /\ s[3] = HEX[h + 1] /\ s[4] = HEX[l + 1]
    BY <1>0, HexDigits DEF FourDigits
  <1>2. \A i \in DOMAIN s : IsDigit(s[i], 16)
    <2>1. IsDigit(s[1], 16) /\ IsDigit(s[2], 16) /\ IsDigit(s[3], 16) /\ IsDigit(s[4], 16)
      BY <1>0, <1>1, DigitRead, Zenon
    <2> QED
      BY <1>1, <2>1
  <1> HIDE DEF s
  <1>3. PICK r : ReadsUp(r, s, 16, Len(s)) /\ ParseUint(s, 16, width) = Numeral(r, s, 16, width)
    BY <1>1, ParseReads, Zenon
  <1>4. /\ r[0] = 0 /\ r[1] = 16 * r[0] + Digit(s[1]) /\ r[2] = 16 * r[1] + Digit(s[2])
        /\ r[3] = 16 * r[2] + Digit(s[3]) /\ r[4] = 16 * r[3] + Digit(s[4])
    <2>1. \A i \in 0 .. 4 : r[i] = IF i = 0 THEN 0 ELSE 16 * r[i - 1] + Digit(s[i])
      BY <1>1, <1>3 DEF ReadsUp
    <2> QED
      BY <2>1
  <1>5. Digit(s[1]) = a /\ Digit(s[2]) = b /\ Digit(s[3]) = h /\ Digit(s[4]) = l
    BY <1>0, <1>1, DigitRead
  <1>6. r[Len(s)] = n
    BY <1>0, <1>1, <1>4, <1>5 DEF IsFour
  <1> QED
    BY <1>1, <1>2, <1>3, <1>6, Zenon DEF Numeral, s

\* The two digits of a byte.
LEMMA ByteDigits ==
    ASSUME NEW n \in Byte
    PROVE  \E h \in 0 .. 15, l \in 0 .. 15 : High(n) = HEX[h + 1] /\ Low(n) = HEX[l + 1] /\ n = 16 * h + l
  <1>1. n \div 16 \in 0 .. 15 /\ n % 16 \in 0 .. 15 /\ n = 16 * (n \div 16) + (n % 16)
    BY DEF Byte
  <1> QED
    BY <1>1 DEF High, Low

\* A byte written with two digits is read again.
LEMMA ByteComesBack ==
    ASSUME NEW n \in Byte
    PROVE  /\ ParseUint(<<High(n), Low(n)>>, 16, Byte) = Parsed(n)
           /\ High(n) \in Character /\ Low(n) \in Character
  <1>1. PICK h \in 0 .. 15, l \in 0 .. 15 : High(n) = HEX[h + 1] /\ Low(n) = HEX[l + 1] /\ n = 16 * h + l
    BY ByteDigits
  <1>2. <<High(n), Low(n)>> = TwoDigits(h, l) /\ IsTwo(n, h, l) /\ h \in Nibble /\ l \in Nibble
    BY <1>1 DEF TwoDigits, IsTwo, Nibble
  <1>3. ParseUint(<<High(n), Low(n)>>, 16, Byte) = Parsed(n)
    <2>1. ParseUint(TwoDigits(h, l), 16, Byte) = Parsed(n)
      BY <1>2, ParseTwo
    <2> QED
      BY <1>2, <2>1, Zenon
  <1> QED
    BY <1>1, <1>3, HexDigits

\* A word written with four digits is read again.
LEMMA WordComesBack ==
    ASSUME NEW n \in Uint16
    PROVE  /\ ParseUint(<<High(n \div 256), Low(n \div 256), High(n % 256), Low(n % 256)>>, 16, Uint16) = Parsed(n)
           /\ High(n \div 256) \in Character /\ Low(n \div 256) \in Character
           /\ High(n % 256) \in Character /\ Low(n % 256) \in Character
  <1>1. PICK u \in Byte, v \in Byte : u = n \div 256 /\ v = n % 256 /\ n = 256 * u + v
    <2>1. n \div 256 \in Byte /\ n % 256 \in Byte /\ n = 256 * (n \div 256) + (n % 256)
      <3>1. n \in Int /\ 0 <= n /\ n <= 65535
        BY Z3T(30) DEF Uint16
      <3>2. n \div 256 \in Int /\ 0 <= n \div 256 /\ n \div 256 <= 255
        BY <3>1
      <3>3. n % 256 \in Int /\ 0 <= n % 256 /\ n % 256 <= 255 /\ n = 256 * (n \div 256) + (n % 256)
        BY <3>1
      <3>4. n \div 256 \in Byte
        BY <3>2 DEF Byte
      <3>5. n % 256 \in Byte
        BY <3>3 DEF Byte
      <3> QED
        BY <3>3, <3>4, <3>5
    <2> QED
      BY <2>1
  <1>2. PICK a \in 0 .. 15, b \in 0 .. 15 : High(u) = HEX[a + 1] /\ Low(u) = HEX[b + 1] /\ u = 16 * a + b
    BY ByteDigits
  <1>3. PICK h \in 0 .. 15, l \in 0 .. 15 : High(v) = HEX[h + 1] /\ Low(v) = HEX[l + 1] /\ v = 16 * h + l
    BY ByteDigits
  <1>4. n = 256 * (16 * a + b) + (16 * h + l)
    BY <1>1, <1>2, <1>3
  <1>5. ParseUint(<<High(u), Low(u), High(v), Low(v)>>, 16, Uint16) = Parsed(n)
    <2>1. <<High(u), Low(u), High(v), Low(v)>> = FourDigits(a, b, h, l)
      BY <1>2, <1>3 DEF FourDigits
    <2>2. IsFour(n, a, b, h, l) /\ a \in Nibble /\ b \in Nibble /\ h \in Nibble /\ l \in Nibble
      BY <1>4 DEF IsFour, Nibble
    <2> QED
      BY <2>1, <2>2, ParseFour
  <1>6. High(u) \in Character /\ Low(u) \in Character /\ High(v) \in Character /\ Low(v) \in Character
    BY ByteComesBack
  <1> QED
    BY <1>1, <1>5, <1>6

-----------------------------------------------------------------------------
(* Names.                                                                  *)

\* The number behind "0x" is read by its digits alone.
LEMMA HexTail ==
    ASSUME NEW s \in Seq(Character), s # <<>>, NEW width
    PROVE  LET name == <<"0", "x">> \o s
           IN  /\ name \in Text /\ name # <<>> /\ Hexadecimal(name)
               /\ parseNumeric(name, width) = ParseUint(s, 16, width)
  <1> DEFINE pre == <<"0", "x">>
             name == pre \o s
  <1>1. "0" \in Character /\ "x" \in Character
    <2>1. HEX[0 + 1] \in Character /\ HEX[1] = "0"
      BY HexDigits DEF HEX
    <2> QED
      BY <2>1, NamesAssumption
  <1>2. pre \in Seq(Character) /\ Len(pre) = 2 /\ pre[1] = "0" /\ pre[2] = "x"
    BY <1>1
  <1> HIDE DEF pre
  <1>3. PICK n \in Nat : n = Len(s) /\ n > 0
    BY EmptySeq
  <1>4. /\ name \in Seq(Character) /\ Len(name) = 2 + n
        /\ name[1] = "0" /\ name[2] = "x" /\ \A i \in 1 .. n : name[2 + i] = s[i]
    <2>1. /\ name \in Seq(Character) /\ Len(name) = Len(pre) + Len(s)
          /\ \A i \in 1 .. Len(pre) + Len(s) : name[i] = IF i <= Len(pre) THEN pre[i] ELSE s[i - Len(pre)]
      BY <1>2, ConcatProperties
    <2> HIDE DEF name
    <2> QED
      BY <1>2, <1>3, <2>1
  <1> HIDE DEF name
  <1>5. SubSeq(name, 3, Len(name)) = s
    <2>1. \A i \in 3 .. 2 + n : name[i] \in Character
      <3>1. \A i \in 3 .. 2 + n : i \in 1 .. Len(name)
        BY <1>4
      <3> QED
        BY <1>4, <3>1, ElementOfSeq
    <2> DEFINE t == SubSeq(name, 3, 2 + n)
    <2>2. /\ t \in Seq(Character) /\ Len(t) = IF 3 <= 2 + n THEN 2 + n - 3 + 1 ELSE 0
          /\ \A i \in 1 .. 2 + n - 3 + 1 : t[i] = name[3 + i - 1]
      <3>1. 3 \in Int /\ 2 + n \in Int
        OBVIOUS
      <3> QED
        BY <2>1, <3>1, SubSeqProperties
    <2> HIDE DEF t
    <2>3. Len(t) = n /\ \A i \in 1 .. n : t[i] = s[i]
      BY <1>3, <1>4, <2>2
    <2>4. t = s
      BY <1>3, <2>2, <2>3, SeqEqual
    <2> QED
      BY <1>4, <2>4 DEF t
  <1>6. Hexadecimal(name) /\ name # <<>>
    BY <1>4 DEF Hexadecimal
  <1>7. name \in Text /\ name # <<>> /\ Hexadecimal(name) /\ parseNumeric(name, width) = ParseUint(s, 16, width)
    BY <1>4, <1>5, <1>6 DEF parseNumeric, Text
  <1> QED
    BY <1>7 DEF name, pre

\* A number that is in a table is found by the name found for it.
LEMMA NameFound ==
    ASSUME NEW table, NEW code, code \in Range(table)
    PROVE  NameIn(table, code) \in DOMAIN table /\ table[NameIn(table, code)] = code
  BY DEF Range, NameIn

\* What a table or a numeral gives is of the width.
LEMMA LookupType ==
    ASSUME NEW table, NEW width, TableOfNames(table, width), NEW name, Lookup(table, name, width).ok
    PROVE  Lookup(table, name, width).val \in width
  <1>1. CASE name \in DOMAIN table
    BY <1>1 DEF Lookup, TableOfNames, Parsed
  <1>2. CASE name \notin DOMAIN table
    BY <1>2, ParseType DEF Lookup, parseNumeric
  <1> QED
    BY <1>1, <1>2

\* A key is written so that it is read again.
LEMMA KeycodeBack ==
    ASSUME NEW code \in Byte
    PROVE  /\ LookupKeycode(KeycodeName(code)) = Parsed(code)
           /\ KeycodeName(code) \in Text /\ KeycodeName(code) # <<>>
  <1> DEFINE name == KeycodeName(code)
  <1>1. CASE code \in DOMAIN keycodeNames
    <2>1. name = keycodeNames[code]
      BY <1>1 DEF KeycodeName
    <2>2. name \in DOMAIN keycodes /\ keycodes[name] = code
      BY <1>1, <2>1, NamesAssumption
    <2> QED
      BY <2>2, NamesAssumption DEF LookupKeycode, Lookup, TableOfNames
  <1>2. CASE code \notin DOMAIN keycodeNames /\ code \in Range(keycodes)
    <2>1. name = NameIn(keycodes, code)
      BY <1>2 DEF KeycodeName
    <2>2. name \in DOMAIN keycodes /\ keycodes[name] = code
      BY <1>2, <2>1, NameFound
    <2> QED
      BY <2>2, NamesAssumption DEF LookupKeycode, Lookup, TableOfNames
  <1>3. CASE code \notin DOMAIN keycodeNames /\ code \notin Range(keycodes)
    <2> DEFINE s == <<High(code), Low(code)>>
    <2>1. ParseUint(s, 16, Byte) = Parsed(code) /\ High(code) \in Character /\ Low(code) \in Character
      BY ByteComesBack
    <2>2. s \in Seq(Character) /\ s # <<>>
      BY <2>1
    <2>3. name = <<"0", "x">> \o s
      BY <1>3 DEF KeycodeName
    <2> HIDE DEF s, name
    <2>4. name \in Text /\ name # <<>> /\ Hexadecimal(name) /\ parseNumeric(name, Byte) = Parsed(code)
      BY <2>1, <2>2, <2>3, HexTail
    <2>5. name \notin DOMAIN keycodes
      BY <2>4, NamesAssumption DEF TableOfNames
    <2> QED
      BY <2>4, <2>5 DEF LookupKeycode, Lookup, name
  <1> QED
    BY <1>1, <1>2, <1>3

\* And so is a media key.
LEMMA ConsumerBack ==
    ASSUME NEW code \in Uint16
    PROVE  /\ LookupConsumer(ConsumerName(code)) = Parsed(code)
           /\ ConsumerName(code) \in Text /\ ConsumerName(code) # <<>>
  <1> DEFINE name == ConsumerName(code)
  <1>1. CASE code \in Range(consumerCodes)
    <2>1. name = NameIn(consumerCodes, code)
      BY <1>1 DEF ConsumerName
    <2>2. name \in DOMAIN consumerCodes /\ consumerCodes[name] = code
      BY <1>1, <2>1, NameFound
    <2> QED
      BY <2>2, NamesAssumption DEF LookupConsumer, Lookup, TableOfNames
  <1>2. CASE code \notin Range(consumerCodes)
    <2> DEFINE s == <<High(code \div 256), Low(code \div 256), High(code % 256), Low(code % 256)>>
    <2>1. /\ ParseUint(s, 16, Uint16) = Parsed(code)
          /\ High(code \div 256) \in Character /\ Low(code \div 256) \in Character
          /\ High(code % 256) \in Character /\ Low(code % 256) \in Character
      BY WordComesBack
    <2>2. s \in Seq(Character) /\ s # <<>>
      BY <2>1
    <2>3. name = <<"0", "x">> \o s
      BY <1>2 DEF ConsumerName
    <2> HIDE DEF s, name
    <2>4. name \in Text /\ name # <<>> /\ Hexadecimal(name) /\ parseNumeric(name, Uint16) = Parsed(code)
      BY <2>1, <2>2, <2>3, HexTail
    <2>5. name \notin DOMAIN consumerCodes
      BY <2>4, NamesAssumption DEF TableOfNames
    <2> QED
      BY <2>4, <2>5 DEF LookupConsumer, Lookup, name
  <1> QED
    BY <1>1, <1>2

-----------------------------------------------------------------------------
(* Modifiers.                                                              *)

\* The modifiers, by the place of their bit.
Bits == 1 .. 8

\* The eight names are different from each other and from the other names.
LEMMA ModNameOfBit ==
    ASSUME NEW b \in Bits, NEW k \in Bits
    PROVE  Names(b, <<modOrder[k]>>) <=> b = k
  <1>1. /\ modOrder[1] = "CTRL" /\ modOrder[2] = "SHIFT" /\ modOrder[3] = "ALT" /\ modOrder[4] = "GUI"
        /\ modOrder[5] = "RCTRL" /\ modOrder[6] = "RSHIFT" /\ modOrder[7] = "RALT" /\ modOrder[8] = "RGUI"
    BY DEF modOrder
  <1>2. /\ modAliases[1] = {"CONTROL", "LCTRL"} /\ modAliases[2] = {"LSHIFT"}
        /\ modAliases[3] = {"LALT", "OPTION"} /\ modAliases[4] = {"LGUI", "WIN", "CMD", "COMMAND"}
        /\ modAliases[5] = {} /\ modAliases[6] = {} /\ modAliases[7] = {"ALTGR"} /\ modAliases[8] = {}
    BY DEF modAliases
  <1>3. \A word : <<modOrder[k]>> = <<word>> <=> word = modOrder[k]
    OBVIOUS
  <1>4. Names(b, <<modOrder[k]>>) <=> modOrder[k] \in {modOrder[b]} \cup modAliases[b]
    BY <1>3, Zenon DEF Names
  <1>5. modOrder[b] = modOrder[k] => b = k
    BY <1>1 DEF Bits
  <1>6. modOrder[k] \notin modAliases[b]
    <2>1. modAliases[b] \in { {"CONTROL", "LCTRL"}, {"LSHIFT"}, {"LALT", "OPTION"}, {"LGUI", "WIN", "CMD", "COMMAND"}, {}, {"ALTGR"} }
      BY <1>2 DEF Bits
    <2>2. modOrder[k] \in {"CTRL", "SHIFT", "ALT", "GUI", "RCTRL", "RSHIFT", "RALT", "RGUI"}
      BY <1>1 DEF Bits
    <2> QED
      BY <2>1, <2>2
  <1> QED
    BY <1>4, <1>5, <1>6

\* The name of one modifier, or none.
NameOf(mods, bit) == IF (mods \div modBits[bit]) % 2 = 1 THEN << <<modOrder[bit]>> >> ELSE <<>>

\* What is in a list of names that holds only names of modifiers, of those in a set of bits.
Listed(names, bits) ==
    /\ names \in Seq(Text)
    /\ \A i \in DOMAIN names : \E b \in bits : names[i] = <<modOrder[b]>>
    /\ \A b \in bits : \E i \in DOMAIN names : names[i] = <<modOrder[b]>>

\* One name, or none, lists one bit, if it is set.
LEMMA ListedOne ==
    ASSUME NEW mods, NEW b \in Bits
    PROVE  Listed(NameOf(mods, b), {x \in {b} : (mods \div modBits[x]) % 2 = 1})
  <1>1. <<modOrder[b]>> \in Text
    <2>1. DOMAIN modOrder = 1 .. 8
      BY DEF modOrder
    <2>2. modOrder[b] \in Range(modOrder)
      BY <2>1, Zenon DEF Range, Bits
    <2>3. modOrder[b] \in Character
      BY <2>2, NamesAssumption, Zenon
    <2> QED
      BY <2>3 DEF Text
  <1>2. CASE (mods \div modBits[b]) % 2 = 1
    <2> DEFINE s == << <<modOrder[b]>> >>
    <2>1. s \in Seq(Text) /\ DOMAIN s = {1} /\ s[1] = <<modOrder[b]>>
      BY <1>1
    <2>2. NameOf(mods, b) = s
      BY <1>2 DEF NameOf
    <2> HIDE DEF s
    <2>3. {x \in {b} : (mods \div modBits[x]) % 2 = 1} = {b}
      BY <1>2
    <2> QED
      BY <2>1, <2>2, <2>3 DEF Listed
  <1>3. CASE (mods \div modBits[b]) % 2 # 1
    <2>1. NameOf(mods, b) = <<>>
      BY <1>3 DEF NameOf
    <2>2. <<>> \in Seq(Text) /\ DOMAIN <<>> = {}
      OBVIOUS
    <2>3. {x \in {b} : (mods \div modBits[x]) % 2 = 1} = {}
      BY <1>3
    <2> QED
      BY <2>1, <2>2, <2>3 DEF Listed
  <1> QED
    BY <1>2, <1>3

\* Two lists one behind the other list the bits of both.
LEMMA ListedBoth ==
    ASSUME NEW s, NEW t, NEW U, NEW V, Listed(s, U), Listed(t, V)
    PROVE  Listed(s \o t, U \cup V)
  <1>1. s \in Seq(Text) /\ t \in Seq(Text)
    BY DEF Listed
  <1>2. PICK m \in Nat, n \in Nat : m = Len(s) /\ n = Len(t) /\ DOMAIN s = 1 .. m /\ DOMAIN t = 1 .. n
    BY <1>1, LenProperties
  <1> DEFINE st == s \o t
  <1>3. st \in Seq(Text) /\ DOMAIN st = 1 .. m + n /\ \A i \in 1 .. m + n : st[i] = IF i <= m THEN s[i] ELSE t[i - m]
    BY <1>1, <1>2, ConcatProperties
  <1> HIDE DEF st
  <1>4. ASSUME NEW i \in DOMAIN st PROVE \E b \in U \cup V : st[i] = <<modOrder[b]>>
    <2>1. CASE i <= m
      <3>1. i \in DOMAIN s /\ st[i] = s[i]
        BY <1>2, <1>3, <2>1
      <3> QED
        BY <3>1 DEF Listed
    <2>2. CASE ~(i <= m)
      <3>1. i - m \in DOMAIN t /\ st[i] = t[i - m]
        BY <1>2, <1>3, <2>2
      <3>2. PICK b \in V : t[i - m] = <<modOrder[b]>>
        BY <3>1, Zenon DEF Listed
      <3> QED
        BY <3>1, <3>2
    <2> QED
      BY <2>1, <2>2
  <1>5. ASSUME NEW b \in U \cup V PROVE \E i \in DOMAIN st : st[i] = <<modOrder[b]>>
    <2>1. CASE b \in U
      <3>1. PICK i \in DOMAIN s : s[i] = <<modOrder[b]>>
        BY <2>1 DEF Listed
      <3>2. i \in DOMAIN st /\ st[i] = s[i]
        BY <1>2, <1>3
      <3> QED
        BY <3>1, <3>2
    <2>2. CASE b \in V
      <3>1. PICK i \in DOMAIN t : t[i] = <<modOrder[b]>>
        BY <2>2 DEF Listed
      <3>2. i + m \in DOMAIN st /\ st[i + m] = t[i]
        BY <1>2, <1>3
      <3> QED
        BY <3>1, <3>2
    <2> QED
      BY <2>1, <2>2
  <1>6. Listed(st, U \cup V)
    BY <1>3, <1>4, <1>5 DEF Listed
  <1> QED
    BY <1>6 DEF st

\* The names rendered are those of the bits that are set.
BitsOf(mods) == {b \in Bits : (mods \div modBits[b]) % 2 = 1}

\* ModNames lists the bits that are set.
LEMMA ModNamesListed ==
    ASSUME NEW mods
    PROVE  Listed(ModNames(mods), BitsOf(mods))
  <1> DEFINE N(b) == NameOf(mods, b)
             S(b) == {x \in {b} : (mods \div modBits[x]) % 2 = 1}
  <1>1. \A b \in Bits : Listed(N(b), S(b))
    BY ListedOne
  <1> HIDE DEF N, S
  <1>2. /\ 1 \in Bits /\ 2 \in Bits /\ 3 \in Bits /\ 4 \in Bits /\ 5 \in Bits /\ 6 \in Bits
        /\ 7 \in Bits /\ 8 \in Bits
    BY DEF Bits
  <1>3. Listed(N(1) \o N(2), S(1) \cup S(2))
    BY <1>1, <1>2, ListedBoth
  <1>4. Listed(N(1) \o N(2) \o N(3), S(1) \cup S(2) \cup S(3))
    BY <1>1, <1>2, <1>3, ListedBoth
  <1>5. Listed(N(1) \o N(2) \o N(3) \o N(4), S(1) \cup S(2) \cup S(3) \cup S(4))
    BY <1>1, <1>2, <1>4, ListedBoth
  <1>6. Listed(N(1) \o N(2) \o N(3) \o N(4) \o N(5), S(1) \cup S(2) \cup S(3) \cup S(4) \cup S(5))
    BY <1>1, <1>2, <1>5, ListedBoth
  <1>7. Listed(N(1) \o N(2) \o N(3) \o N(4) \o N(5) \o N(6), S(1) \cup S(2) \cup S(3) \cup S(4) \cup S(5) \cup S(6))
    BY <1>1, <1>2, <1>6, ListedBoth
  <1>8. Listed(N(1) \o N(2) \o N(3) \o N(4) \o N(5) \o N(6) \o N(7),
               S(1) \cup S(2) \cup S(3) \cup S(4) \cup S(5) \cup S(6) \cup S(7))
    BY <1>1, <1>2, <1>7, ListedBoth
  <1>9. Listed(N(1) \o N(2) \o N(3) \o N(4) \o N(5) \o N(6) \o N(7) \o N(8),
               S(1) \cup S(2) \cup S(3) \cup S(4) \cup S(5) \cup S(6) \cup S(7) \cup S(8))
    BY <1>1, <1>2, <1>8, ListedBoth
  <1>10. ModNames(mods) = N(1) \o N(2) \o N(3) \o N(4) \o N(5) \o N(6) \o N(7) \o N(8)
    BY Zenon DEF ModNames, N, NameOf
  <1>11. BitsOf(mods) = S(1) \cup S(2) \cup S(3) \cup S(4) \cup S(5) \cup S(6) \cup S(7) \cup S(8)
    <2>1. \A x : x \in Bits <=> x = 1 \/ x = 2 \/ x = 3 \/ x = 4 \/ x = 5 \/ x = 6 \/ x = 7 \/ x = 8
      BY DEF Bits
    <2>2. \A b, x : x \in S(b) <=> x = b /\ (mods \div modBits[x]) % 2 = 1
      BY Zenon DEF S
    <2>3. \A x : x \in BitsOf(mods) <=> x \in Bits /\ (mods \div modBits[x]) % 2 = 1
      BY Zenon DEF BitsOf
    <2>4. \A x : x \in S(1) \cup S(2) \cup S(3) \cup S(4) \cup S(5) \cup S(6) \cup S(7) \cup S(8)
                   <=> x \in Bits /\ (mods \div modBits[x]) % 2 = 1
      BY <2>1, <2>2
    <2> QED
      BY <2>3, <2>4, Zenon
  <1> QED
    BY <1>9, <1>10, <1>11, Zenon

\* A byte is the sum of its bits.
LEMMA SumOfBits ==
    ASSUME NEW mods \in Byte
    PROVE  LET bit(b) == IF (mods \div modBits[b]) % 2 = 1 THEN modBits[b] ELSE 0
           IN  mods = bit(1) + bit(2) + bit(3) + bit(4) + bit(5) + bit(6) + bit(7) + bit(8)
  <1>1. /\ modBits[1] = 1 /\ modBits[2] = 2 /\ modBits[3] = 4 /\ modBits[4] = 8
        /\ modBits[5] = 16 /\ modBits[6] = 32 /\ modBits[7] = 64 /\ modBits[8] = 128
    BY DEF modBits
  <1> DEFINE B(k) == IF (mods \div k) % 2 = 1 THEN k ELSE 0
  <1>2. mods \in 0 .. 255
    BY DEF Byte
  <1>3. mods = B(1) + B(2) + B(4) + B(8) + B(16) + B(32) + B(64) + B(128)
    BY <1>2, SMTT(60)
  <1> HIDE DEF B
  <1> DEFINE bit(b) == IF (mods \div modBits[b]) % 2 = 1 THEN modBits[b] ELSE 0
  <1>4. /\ bit(1) = B(1) /\ bit(2) = B(2) /\ bit(3) = B(4) /\ bit(4) = B(8)
        /\ bit(5) = B(16) /\ bit(6) = B(32) /\ bit(7) = B(64) /\ bit(8) = B(128)
    BY <1>1 DEF B
  <1> HIDE DEF bit
  <1>5. mods = bit(1) + bit(2) + bit(3) + bit(4) + bit(5) + bit(6) + bit(7) + bit(8)
    BY <1>3, <1>4, Zenon
  <1> QED
    BY <1>5, Zenon DEF bit

\* Modifiers come back as they were.
LEMMA ModsBack ==
    ASSUME NEW mods \in Byte
    PROVE  LookupMods(ModNames(mods)) = Parsed(mods) /\ ModNames(mods) \in Seq(Text)
  <1> DEFINE names == ModNames(mods)
  <1>1. Listed(names, BitsOf(mods))
    BY ModNamesListed
  <1>2. \A b \in Bits : (\E i \in DOMAIN names : Names(b, names[i])) <=> (mods \div modBits[b]) % 2 = 1
    <2> SUFFICES ASSUME NEW b \in Bits
                 PROVE  (\E i \in DOMAIN names : Names(b, names[i])) <=> b \in BitsOf(mods)
      BY Zenon DEF BitsOf
    <2>1. ASSUME NEW i \in DOMAIN names, Names(b, names[i]) PROVE b \in BitsOf(mods)
      <3>1. PICK k \in BitsOf(mods) : names[i] = <<modOrder[k]>>
        BY <1>1, Zenon DEF Listed
      <3>2. b = k
        BY <2>1, <3>1, ModNameOfBit DEF BitsOf
      <3> QED
        BY <3>2
    <2>2. ASSUME b \in BitsOf(mods) PROVE \E i \in DOMAIN names : Names(b, names[i])
      <3>1. PICK i \in DOMAIN names : names[i] = <<modOrder[b]>>
        BY <1>1, <2>2, Zenon DEF Listed
      <3> QED
        BY <3>1, ModNameOfBit
    <2> QED
      BY <2>1, <2>2
  <1>3. \A i \in DOMAIN names : \E b \in Bits : Names(b, names[i])
    <2> SUFFICES ASSUME NEW i \in DOMAIN names PROVE \E b \in Bits : Names(b, names[i])
      OBVIOUS
    <2>1. PICK k \in BitsOf(mods) : names[i] = <<modOrder[k]>>
      BY <1>1, Zenon DEF Listed
    <2> QED
      BY <2>1, ModNameOfBit DEF BitsOf
  <1>4. names \in Seq(Text)
    BY <1>1 DEF Listed
  <1> HIDE DEF names
  <1> DEFINE named(b) == IF \E i \in DOMAIN names : Names(b, names[i]) THEN modBits[b] ELSE 0
             bit(b) == IF (mods \div modBits[b]) % 2 = 1 THEN modBits[b] ELSE 0
  <1>5. LookupMods(names) =
          Parsed(named(1) + named(2) + named(3) + named(4) + named(5) + named(6) + named(7) + named(8))
    BY <1>3, Zenon DEF LookupMods, Bits
  <1>6. \A b \in Bits : named(b) = bit(b)
    BY <1>2, Zenon
  <1>7. mods = bit(1) + bit(2) + bit(3) + bit(4) + bit(5) + bit(6) + bit(7) + bit(8)
    BY SumOfBits
  <1> HIDE DEF named, bit
  <1>8. /\ 1 \in Bits /\ 2 \in Bits /\ 3 \in Bits /\ 4 \in Bits /\ 5 \in Bits /\ 6 \in Bits
        /\ 7 \in Bits /\ 8 \in Bits
    BY DEF Bits
  <1>9. LookupMods(names) = Parsed(mods)
    BY <1>5, <1>6, <1>7, <1>8, Zenon
  <1> QED
    BY <1>4, <1>9 DEF names

\* Modifiers are a byte, whatever names they are given by.
LEMMA ModsType ==
    ASSUME NEW names, LookupMods(names).ok
    PROVE  LookupMods(names).val \in Byte
  <1> DEFINE named(b) == IF \E i \in DOMAIN names : Names(b, names[i]) THEN modBits[b] ELSE 0
  <1>1. LookupMods(names).val = named(1) + named(2) + named(3) + named(4) + named(5) + named(6) + named(7) + named(8)
    BY DEF LookupMods, Parsed, Refuse
  <1>2. /\ modBits[1] = 1 /\ modBits[2] = 2 /\ modBits[3] = 4 /\ modBits[4] = 8
        /\ modBits[5] = 16 /\ modBits[6] = 32 /\ modBits[7] = 64 /\ modBits[8] = 128
    BY DEF modBits
  <1>3. /\ named(1) \in {0, 1} /\ named(2) \in {0, 2} /\ named(3) \in {0, 4} /\ named(4) \in {0, 8}
        /\ named(5) \in {0, 16} /\ named(6) \in {0, 32} /\ named(7) \in {0, 64} /\ named(8) \in {0, 128}
    BY <1>2
  <1> HIDE DEF named
  <1> QED
    BY <1>1, <1>3 DEF Byte

-----------------------------------------------------------------------------
(* Modes and colours.                                                      *)

\* The names of the modes are different, and none is empty.
ModeTable(names, last) ==
    /\ DOMAIN names = 1 .. last + 1
    /\ \A i \in DOMAIN names : names[i] \in Text /\ names[i] # <<>>
    /\ \A i, j \in DOMAIN names : names[i] = names[j] => i = j

\* Both tables of modes are such tables.
LEMMA ModeTables == ModeTable(overflowNames, OVERFLOW_CLAMP) /\ ModeTable(idleModeNames, IDLE_RAINBOW)
  <1>1. /\ DOMAIN overflowNames = 1 .. 3
        /\ overflowNames[1] = <<"wrap">> /\ overflowNames[2] = <<"wrap_cancel">> /\ overflowNames[3] = <<"clamp">>
    BY DEF overflowNames
  <1>2. /\ DOMAIN idleModeNames = 1 .. 4
        /\ idleModeNames[1] = <<"off">> /\ idleModeNames[2] = <<"solid">>
        /\ idleModeNames[3] = <<"breathe">> /\ idleModeNames[4] = <<"rainbow">>
    BY DEF idleModeNames
  <1>3. \A i \in DOMAIN overflowNames : overflowNames[i] \in Text
    BY NamesAssumption, Zenon DEF Range
  <1>4. \A i \in DOMAIN idleModeNames : idleModeNames[i] \in Text
    BY NamesAssumption, Zenon DEF Range
  <1>5. ModeTable(overflowNames, OVERFLOW_CLAMP)
    <2>1. \A i \in 1 .. 3 : i = 1 \/ i = 2 \/ i = 3
      OBVIOUS
    <2>2. /\ <<"wrap">> # <<>> /\ <<"wrap_cancel">> # <<>> /\ <<"clamp">> # <<>>
          /\ <<"wrap">> # <<"wrap_cancel">> /\ <<"wrap">> # <<"clamp">> /\ <<"wrap_cancel">> # <<"clamp">>
      OBVIOUS
    <2>3. \A i \in DOMAIN overflowNames : overflowNames[i] # <<>>
      BY <1>1, <2>1, <2>2
    <2>4. \A i, j \in DOMAIN overflowNames : overflowNames[i] = overflowNames[j] => i = j
      BY <1>1, <2>1, <2>2
    <2>5. DOMAIN overflowNames = 1 .. OVERFLOW_CLAMP + 1
      BY <1>1 DEF OVERFLOW_CLAMP
    <2> QED
      BY <1>3, <2>3, <2>4, <2>5 DEF ModeTable
  <1>6. ModeTable(idleModeNames, IDLE_RAINBOW)
    <2>1. \A i \in 1 .. 4 : i = 1 \/ i = 2 \/ i = 3 \/ i = 4
      OBVIOUS
    <2>2. /\ <<"off">> # <<>> /\ <<"solid">> # <<>> /\ <<"breathe">> # <<>> /\ <<"rainbow">> # <<>>
          /\ <<"off">> # <<"solid">> /\ <<"off">> # <<"breathe">> /\ <<"off">> # <<"rainbow">>
          /\ <<"solid">> # <<"breathe">> /\ <<"solid">> # <<"rainbow">> /\ <<"breathe">> # <<"rainbow">>
      OBVIOUS
    <2>3. \A i \in DOMAIN idleModeNames : idleModeNames[i] # <<>>
      BY <1>2, <2>1, <2>2
    <2>4. \A i, j \in DOMAIN idleModeNames : idleModeNames[i] = idleModeNames[j] => i = j
      BY <1>2, <2>1, <2>2
    <2>5. DOMAIN idleModeNames = 1 .. IDLE_RAINBOW + 1
      BY <1>2 DEF IDLE_RAINBOW
    <2> QED
      BY <1>4, <2>3, <2>4, <2>5 DEF ModeTable
  <1> QED
    BY <1>5, <1>6

\* A mode that has a name comes back; one that has none is a text all the same.
LEMMA ModeBack ==
    ASSUME NEW names, NEW last \in Nat, ModeTable(names, last), NEW mode \in Nat
    PROVE  /\ ModeName(names, mode) \in Text
           /\ mode <= last => parseMode(names, ModeName(names, mode)) = Parsed(mode)
  <1>1. CASE mode <= last
    <2>1. mode + 1 \in DOMAIN names
      BY <1>1 DEF ModeTable
    <2>2. ModeName(names, mode) = names[mode + 1]
      BY <2>1 DEF ModeName
    <2>3. names[mode + 1] \in Text /\ names[mode + 1] # <<>>
      BY <2>1 DEF ModeTable
    <2>4. \A i \in DOMAIN names : names[i] = names[mode + 1] <=> i = mode + 1
      BY <2>1 DEF ModeTable
    <2>5. (CHOOSE i \in DOMAIN names : names[i] = names[mode + 1]) = mode + 1
      BY <2>1, <2>4
    <2>6. parseMode(names, names[mode + 1]) = Parsed((mode + 1) - 1)
      BY <2>1, <2>3, <2>5 DEF parseMode
    <2> QED
      BY <2>2, <2>3, <2>6
  <1>2. CASE ~(mode <= last)
    <2>1. mode + 1 \notin DOMAIN names
      BY <1>2 DEF ModeTable
    <2> QED
      BY <1>2, <2>1 DEF ModeName, Text
  <1> QED
    BY <1>1, <1>2

\* A mode that is read has a name.
LEMMA ModeType ==
    ASSUME NEW names, NEW last \in Nat, ModeTable(names, last), NEW s, parseMode(names, s).ok
    PROVE  parseMode(names, s).val \in 0 .. last
  <1>1. CASE s = <<>>
    <2>1. ~ \E i \in DOMAIN names : names[i] = s
      BY <1>1 DEF ModeTable
    <2>2. parseMode(names, s) = Parsed(0)
      BY <1>1, <2>1, Zenon DEF parseMode
    <2> QED
      BY <2>2 DEF Parsed
  <1>2. CASE s # <<>> /\ \E i \in DOMAIN names : names[i] = s
    <2>1. PICK i \in DOMAIN names : i = CHOOSE j \in DOMAIN names : names[j] = s
      BY <1>2
    <2>2. parseMode(names, s) = Parsed(i - 1)
      BY <1>2, <2>1, Zenon DEF parseMode
    <2> QED
      BY <2>1, <2>2 DEF Parsed, ModeTable
  <1>3. CASE s # <<>> /\ ~ \E i \in DOMAIN names : names[i] = s
    BY <1>3 DEF parseMode, Refuse
  <1> QED
    BY <1>1, <1>2, <1>3

\* A colour comes back as it was.
LEMMA ColourBack ==
    ASSUME NEW c \in RGB
    PROVE  ParseRGB(formatRGB(c)) = Parsed(c) /\ formatRGB(c) \in Text
  <1> DEFINE s == formatRGB(c)
             h == <<High(c[1]), Low(c[1]), High(c[2]), Low(c[2]), High(c[3]), Low(c[3])>>
  <1>1. c[1] \in Byte /\ c[2] \in Byte /\ c[3] \in Byte /\ c = [i \in 1 .. 3 |-> c[i]]
    BY DEF RGB
  <1>2. /\ High(c[1]) \in Character /\ Low(c[1]) \in Character
        /\ High(c[2]) \in Character /\ Low(c[2]) \in Character
        /\ High(c[3]) \in Character /\ Low(c[3]) \in Character
    BY <1>1, ByteComesBack
  <1>3. "#" \in Character
    BY NamesAssumption
  <1>4. h \in Seq(Character)
    BY <1>2
  <1>5. Len(h) = 6
    OBVIOUS
  <1>6. /\ h[1] = High(c[1]) /\ h[2] = Low(c[1]) /\ h[3] = High(c[2])
        /\ h[4] = Low(c[2]) /\ h[5] = High(c[3]) /\ h[6] = Low(c[3])
    OBVIOUS
  <1>7. s \in Seq(Character)
    BY <1>2, <1>3 DEF formatRGB
  <1>8. s # <<>> /\ s[1] = "#" /\ Len(s) = 7
    BY DEF formatRGB
  <1>9. /\ s[2] = High(c[1]) /\ s[3] = Low(c[1]) /\ s[4] = High(c[2])
        /\ s[5] = Low(c[2]) /\ s[6] = High(c[3]) /\ s[7] = Low(c[3])
    BY DEF formatRGB
  <1> HIDE DEF s, h
  <1>10. Tail(s) = h
    <2>1. Tail(s) \in Seq(Character) /\ Len(Tail(s)) = Len(s) - 1 /\ \A i \in 1 .. Len(Tail(s)) : Tail(s)[i] = s[i + 1]
      BY <1>7, <1>8, HeadTailProperties
    <2>2. Len(Tail(s)) = 6
      BY <1>8, <2>1
    <2>3. \A i \in 1 .. 6 : Tail(s)[i] = h[i]
      <3> SUFFICES ASSUME NEW i \in 1 .. 6 PROVE Tail(s)[i] = h[i]
        OBVIOUS
      <3>1. Tail(s)[i] = s[i + 1]
        BY <2>1, <2>2
      <3>2. i = 1 \/ i = 2 \/ i = 3 \/ i = 4 \/ i = 5 \/ i = 6
        OBVIOUS
      <3>3. /\ s[1 + 1] = h[1] /\ s[2 + 1] = h[2] /\ s[3 + 1] = h[3] /\ s[4 + 1] = h[4]
            /\ s[5 + 1] = h[5] /\ s[6 + 1] = h[6]
        BY <1>6, <1>9
      <3> QED
        BY <3>1, <3>2, <3>3, Zenon
    <2> QED
      BY <1>4, <1>5, <2>1, <2>2, <2>3, SeqEqual
  <1> DEFINE part(i) == ParseUint(<<h[2 * i - 1], h[2 * i]>>, 16, Byte)
  <1>11. part(1) = Parsed(c[1]) /\ part(2) = Parsed(c[2]) /\ part(3) = Parsed(c[3])
    <2>1. ParseUint(<<High(c[1]), Low(c[1])>>, 16, Byte) = Parsed(c[1])
      BY <1>1, ByteComesBack
    <2>2. ParseUint(<<High(c[2]), Low(c[2])>>, 16, Byte) = Parsed(c[2])
      BY <1>1, ByteComesBack
    <2>3. ParseUint(<<High(c[3]), Low(c[3])>>, 16, Byte) = Parsed(c[3])
      BY <1>1, ByteComesBack
    <2>4. 2 * 1 - 1 = 1 /\ 2 * 1 = 2 /\ 2 * 2 - 1 = 3 /\ 2 * 2 = 4 /\ 2 * 3 - 1 = 5 /\ 2 * 3 = 6
      OBVIOUS
    <2> QED
      BY <1>6, <2>1, <2>2, <2>3, <2>4
  <1> HIDE DEF part
  <1>12. \A i \in 1 .. 3 : part(i) = Parsed(c[i])
    BY <1>11
  <1> DEFINE parts == [i \in 1 .. 3 |-> part(i)]
  <1>13. Each(parts) = Parsed(c)
    <2>1. DOMAIN parts = 1 .. 3 /\ \A i \in 1 .. 3 : parts[i] = Parsed(c[i])
      BY <1>12
    <2> HIDE DEF parts
    <2>2. \A i \in DOMAIN parts : parts[i].ok /\ parts[i].val = c[i]
      BY <2>1 DEF Parsed
    <2>3. [i \in DOMAIN parts |-> parts[i].val] = [i \in 1 .. 3 |-> c[i]]
      BY <2>1, <2>2
    <2> QED
      BY <1>1, <2>2, <2>3 DEF Each
  <1>14. ParseRGB(s) = Each(parts)
    <2>1. (IF s # <<>> /\ s[1] = "#" THEN Tail(s) ELSE s) = h
      BY <1>8, <1>10
    <2> QED
      BY <1>5, <2>1 DEF ParseRGB, part
  <1>15. ParseRGB(s) = Parsed(c) /\ s \in Text
    BY <1>7, <1>13, <1>14 DEF Text
  <1> QED
    BY <1>15 DEF s

\* A colour that is read is three bytes.
LEMMA ColourType ==
    ASSUME NEW s, ParseRGB(s).ok
    PROVE  ParseRGB(s).val \in RGB
  <1> DEFINE h == IF s # <<>> /\ s[1] = "#" THEN Tail(s) ELSE s
             parts == [i \in 1 .. 3 |-> ParseUint(<<h[2 * i - 1], h[2 * i]>>, 16, Byte)]
  <1>1. ParseRGB(s) = Each(parts)
    BY DEF ParseRGB, Refuse
  <1>2. \A i \in 1 .. 3 : parts[i].ok => parts[i].val \in Byte
    BY ParseType
  <1>3. DOMAIN parts = 1 .. 3
    OBVIOUS
  <1> HIDE DEF parts
  <1>4. \A i \in 1 .. 3 : parts[i].ok
    BY <1>1, <1>3 DEF Each, Refuse
  <1>5. ParseRGB(s).val = [i \in 1 .. 3 |-> parts[i].val]
    BY <1>1, <1>3, <1>4 DEF Each, Parsed
  <1> QED
    BY <1>2, <1>4, <1>5 DEF RGB

-----------------------------------------------------------------------------
(* Parts, and steps.                                                       *)

\* What is parsed from what was rendered is what it was, or is refused.
Back(r, v) == r.ok => r.val = v

\* The parts of a list are parsed one by one.
LEMMA EachSeq ==
    ASSUME NEW parts, NEW n \in Nat, DOMAIN parts = 1 .. n, NEW S,
           \A i \in 1 .. n : parts[i].ok => parts[i].val \in S,
           Each(parts).ok
    PROVE  /\ Each(parts).val \in Seq(S) /\ Len(Each(parts).val) = n /\ DOMAIN Each(parts).val = 1 .. n
           /\ \A i \in 1 .. n : parts[i].ok /\ Each(parts).val[i] = parts[i].val
  <1>1. \A i \in DOMAIN parts : parts[i].ok
    BY DEF Each, Refuse
  <1>2. Each(parts).val = [i \in 1 .. n |-> parts[i].val]
    BY <1>1 DEF Each, Parsed
  <1>3. [i \in 1 .. n |-> parts[i].val] \in [1 .. n -> S]
    BY <1>1
  <1> QED
    BY <1>1, <1>2, <1>3

\* A list comes back, or is refused, if its parts do.
LEMMA EachBack ==
    ASSUME NEW parts, NEW S, NEW s \in Seq(S), DOMAIN parts = DOMAIN s,
           \A i \in DOMAIN s : Back(parts[i], s[i])
    PROVE  /\ Back(Each(parts), s)
           /\ (\A i \in DOMAIN s : parts[i].ok) => Each(parts).ok
  <1>1. s = [i \in DOMAIN s |-> s[i]]
    BY LenProperties
  <1>2. ASSUME \A i \in DOMAIN s : parts[i].ok PROVE Each(parts) = Parsed(s)
    <2>1. [i \in DOMAIN parts |-> parts[i].val] = [i \in DOMAIN s |-> s[i]]
      BY <1>2 DEF Back
    <2> QED
      BY <1>1, <1>2, <2>1 DEF Each
  <1>3. Each(parts).ok => \A i \in DOMAIN s : parts[i].ok
    BY DEF Each, Refuse
  <1> QED
    BY <1>2, <1>3 DEF Back, Parsed

\* A list of nodes is a list.
LEMMA ListContent ==
    ASSUME NEW n \in Nat, NEW nodes, nodes = [i \in 1 .. n |-> nodes[i]]
    PROVE  nodes \in Seq(Range(nodes))
  <1>1. \A i \in 1 .. n : nodes[i] \in Range(nodes)
    BY DEF Range
  <1> HIDE DEF Range
  <1>2. nodes \in [1 .. n -> Range(nodes)]
    BY <1>1
  <1> QED
    BY <1>2

\* The four kinds of steps.
LEMMA StepKinds ==
    ASSUME NEW s \in Step
    PROVE  \/ s.type = STEP_KEY /\ s.keycode \in Byte /\ s.mods \in Byte
                /\ s = [type |-> STEP_KEY, keycode |-> s.keycode, mods |-> s.mods]
           \/ s.type = STEP_TEXT /\ s.text \in Text /\ s = TextStep(s.text)
           \/ s.type = STEP_CONSUMER /\ s.consumer \in Uint16
                /\ s = [type |-> STEP_CONSUMER, consumer |-> s.consumer]
           \/ s.type = STEP_DELAY /\ s.delay_ms \in Uint16 /\ s = DelayStep(s.delay_ms)
  BY DEF Step, TextStep, DelayStep

\* The four types of steps are different.
LEMMA StepTypes ==
    /\ STEP_KEY # STEP_TEXT /\ STEP_KEY # STEP_CONSUMER /\ STEP_KEY # STEP_DELAY
    /\ STEP_TEXT # STEP_CONSUMER /\ STEP_TEXT # STEP_DELAY /\ STEP_CONSUMER # STEP_DELAY
  BY DEF STEP_KEY, STEP_TEXT, STEP_CONSUMER, STEP_DELAY

\* What Each makes of the parts of a step.
LEMMA EachKey ==
    ASSUME NEW k, NEW m
    PROVE  LET r == Each([type |-> Parsed(STEP_KEY), keycode |-> k, mods |-> m])
           IN  /\ k.ok /\ m.ok => r = Parsed([type |-> STEP_KEY, keycode |-> k.val, mods |-> m.val])
               /\ r.ok => k.ok /\ m.ok
  <1> DEFINE parts == [type |-> Parsed(STEP_KEY), keycode |-> k, mods |-> m]
  <1>1. /\ DOMAIN parts = {"type", "keycode", "mods"}
        /\ parts["type"] = Parsed(STEP_KEY) /\ parts["keycode"] = k /\ parts["mods"] = m
    OBVIOUS
  <1> HIDE DEF parts
  <1>2. Parsed(STEP_KEY).ok /\ Parsed(STEP_KEY).val = STEP_KEY
    BY DEF Parsed
  <1>3. (\A i \in DOMAIN parts : parts[i].ok) <=> k.ok /\ m.ok
    BY <1>1, <1>2
  <1>4. [i \in DOMAIN parts |-> parts[i].val] = [type |-> STEP_KEY, keycode |-> k.val, mods |-> m.val]
    BY <1>1, <1>2
  <1>5. /\ k.ok /\ m.ok => Each(parts) = Parsed([type |-> STEP_KEY, keycode |-> k.val, mods |-> m.val])
        /\ Each(parts).ok => k.ok /\ m.ok
    BY <1>3, <1>4 DEF Each, Refuse
  <1> QED
    BY <1>5 DEF parts

\* What Each makes of the parts of a media key.
LEMMA EachConsumer ==
    ASSUME NEW k
    PROVE  LET r == Each([type |-> Parsed(STEP_CONSUMER), consumer |-> k])
           IN  /\ k.ok => r = Parsed([type |-> STEP_CONSUMER, consumer |-> k.val])
               /\ r.ok => k.ok
  <1> DEFINE parts == [type |-> Parsed(STEP_CONSUMER), consumer |-> k]
  <1>1. /\ DOMAIN parts = {"type", "consumer"}
        /\ parts["type"] = Parsed(STEP_CONSUMER) /\ parts["consumer"] = k
    OBVIOUS
  <1> HIDE DEF parts
  <1>2. Parsed(STEP_CONSUMER).ok /\ Parsed(STEP_CONSUMER).val = STEP_CONSUMER
    BY DEF Parsed
  <1>3. (\A i \in DOMAIN parts : parts[i].ok) <=> k.ok
    BY <1>1, <1>2
  <1>4. [i \in DOMAIN parts |-> parts[i].val] = [type |-> STEP_CONSUMER, consumer |-> k.val]
    BY <1>1, <1>2
  <1>5. /\ k.ok => Each(parts) = Parsed([type |-> STEP_CONSUMER, consumer |-> k.val])
        /\ Each(parts).ok => k.ok
    BY <1>3, <1>4 DEF Each, Refuse
  <1> QED
    BY <1>5 DEF parts

\* A step is read by the one form it has.
LEMMA StepRead ==
    ASSUME NEW js
    PROVE  /\ OnlyForm(js, "key") => stepFromJSON(js) =
                Each([type |-> Parsed(STEP_KEY), keycode |-> LookupKeycode(js.content.key.content), mods |-> ModsOf(js)])
           /\ OnlyForm(js, "text") => stepFromJSON(js) = Parsed(TextStep(js.content.text.content))
           /\ OnlyForm(js, "consumer") => stepFromJSON(js) =
                Each([type |-> Parsed(STEP_CONSUMER), consumer |-> LookupConsumer(js.content.consumer.content)])
           /\ OnlyForm(js, "delay_ms") => stepFromJSON(js) = Parsed(DelayStep(js.content.delay_ms.content))
           /\ \/ OnlyForm(js, "key") \/ OnlyForm(js, "text") \/ OnlyForm(js, "consumer") \/ OnlyForm(js, "delay_ms")
              \/ stepFromJSON(js) = Refuse
  <1>1. /\ OnlyForm(js, "key") => ~OnlyForm(js, "text") /\ ~OnlyForm(js, "consumer") /\ ~OnlyForm(js, "delay_ms")
        /\ OnlyForm(js, "text") => ~OnlyForm(js, "consumer") /\ ~OnlyForm(js, "delay_ms")
        /\ OnlyForm(js, "consumer") => ~OnlyForm(js, "delay_ms")
    <2>1. \A f, g : OnlyForm(js, f) /\ OnlyForm(js, g) => f = g
      <3> SUFFICES ASSUME NEW f, NEW g, OnlyForm(js, f), OnlyForm(js, g) PROVE f = g
        OBVIOUS
      <3>1. {f} = {g}
        BY DEF OnlyForm
      <3> QED
        BY <3>1
    <2>2. "key" # "text" /\ "key" # "consumer" /\ "key" # "delay_ms" /\ "text" # "consumer"
            /\ "text" # "delay_ms" /\ "consumer" # "delay_ms"
      OBVIOUS
    <2> QED
      BY <2>1, <2>2, Zenon
  <1> QED
    BY <1>1, Zenon DEF stepFromJSON

\* The fields of a step.
LEMMA StepForms ==
    ASSUME NEW js
    PROVE  /\ "key" \in Forms(js) <=> Field(js, "key", <<>>) # <<>>
           /\ "text" \in Forms(js) <=> Field(js, "text", <<>>) # <<>>
           /\ "consumer" \in Forms(js) <=> Field(js, "consumer", <<>>) # <<>>
           /\ "delay_ms" \in Forms(js) <=> Present(js, "delay_ms")
           /\ \A f \in Forms(js) : f \in {"key", "text", "consumer", "delay_ms"}
  BY DEF Forms

\* A document of the shape of a step gives a step, if it gives anything.
LEMMA StepFields ==
    ASSUME NEW js, IsStep(js), NEW f, Present(js, f)
    PROVE  /\ f \in {"key", "text", "consumer"} => js.content[f].content \in Text
           /\ f = "delay_ms" => js.content[f].content \in Uint16
  <1>1. StepField(f, js.content[f]) /\ ~IsNull(js.content[f])
    BY Zenon DEF IsStep, IsStruct, Present, IsNull
  <1> QED
    BY <1>1 DEF StepField, IsList, IsString, IsNumber

\* What is parsed of such a document is a step.
LEMMA StepParsed ==
    ASSUME NEW js, IsStep(js), stepFromJSON(js).ok
    PROVE  stepFromJSON(js).val \in Step
  <1>2. \A f : Field(js, f, <<>>) # <<>> => Present(js, f)
    BY DEF Field
  <1>4. CASE OnlyForm(js, "key")
    <2>0. PICK k, m : k = LookupKeycode(js.content.key.content) /\ m = ModsOf(js)
      OBVIOUS
    <2>1. stepFromJSON(js) = Each([type |-> Parsed(STEP_KEY), keycode |-> k, mods |-> m])
      BY <1>4, <2>0, StepRead
    <2>2. k.ok /\ m.ok /\ stepFromJSON(js).val = [type |-> STEP_KEY, keycode |-> k.val, mods |-> m.val]
      <3>1. k.ok /\ m.ok /\ stepFromJSON(js) = Parsed([type |-> STEP_KEY, keycode |-> k.val, mods |-> m.val])
        BY <2>1, EachKey, Zenon
      <3> QED
        BY <3>1 DEF Parsed
    <2>3. k.val \in Byte
      BY <2>0, <2>2, LookupType, NamesAssumption DEF LookupKeycode
    <2>4. m.val \in Byte
      BY <2>0, <2>2, ModsType DEF ModsOf
    <2> QED
      BY <2>2, <2>3, <2>4 DEF Step
  <1>5. CASE OnlyForm(js, "text")
    <2>1. Present(js, "text")
      BY <1>2, <1>5, StepForms DEF OnlyForm
    <2>2. js.content.text.content \in Text
      BY <2>1, StepFields
    <2>3. stepFromJSON(js) = Parsed(TextStep(js.content.text.content))
      BY <1>5, StepRead
    <2> QED
      BY <2>2, <2>3 DEF Step, TextStep, Parsed
  <1>6. CASE OnlyForm(js, "consumer")
    <2>0. PICK k : k = LookupConsumer(js.content.consumer.content)
      OBVIOUS
    <2>1. stepFromJSON(js) = Each([type |-> Parsed(STEP_CONSUMER), consumer |-> k])
      BY <1>6, <2>0, StepRead
    <2>2. k.ok /\ stepFromJSON(js).val = [type |-> STEP_CONSUMER, consumer |-> k.val]
      <3>1. k.ok /\ stepFromJSON(js) = Parsed([type |-> STEP_CONSUMER, consumer |-> k.val])
        BY <2>1, EachConsumer, Zenon
      <3> QED
        BY <3>1 DEF Parsed
    <2>3. k.val \in Uint16
      BY <2>0, <2>2, LookupType, NamesAssumption DEF LookupConsumer
    <2> QED
      BY <2>2, <2>3 DEF Step
  <1>7. CASE OnlyForm(js, "delay_ms")
    <2>1. Present(js, "delay_ms")
      BY <1>7, StepForms DEF OnlyForm
    <2>2. js.content.delay_ms.content \in Uint16
      BY <2>1, StepFields
    <2>3. stepFromJSON(js) = Parsed(DelayStep(js.content.delay_ms.content))
      BY <1>7, StepRead
    <2> QED
      BY <2>2, <2>3 DEF Step, DelayStep, Parsed
  <1>8. stepFromJSON(js) # Refuse
    BY DEF Refuse
  <1> QED
    BY <1>4, <1>5, <1>6, <1>7, <1>8, StepRead, Zenon

\* The texts of a list of modifiers come back.
LEMMA TextsBack ==
    ASSUME NEW texts \in Seq(Text)
    PROVE  LET nodes == NodesOf(Str, texts)
           IN  /\ NodesOf(TextOf, nodes) = texts
               /\ nodes \in Seq(Range(nodes)) /\ DOMAIN nodes = DOMAIN texts
               /\ \A i \in DOMAIN nodes : IsString(nodes[i]) /\ nodes[i] = Str(texts[i])
               /\ texts # <<>> => nodes # <<>>
  <1> DEFINE nodes == NodesOf(Str, texts)
  <1>1. PICK n \in Nat : n = Len(texts) /\ DOMAIN texts = 1 .. n
    BY LenProperties
  <1>2. texts = [i \in 1 .. n |-> texts[i]]
    BY <1>1, LenProperties
  <1>3. nodes = [i \in 1 .. n |-> Str(texts[i])]
    BY <1>1, Zenon DEF NodesOf
  <1> HIDE DEF nodes
  <1>4. DOMAIN nodes = 1 .. n /\ \A i \in 1 .. n : nodes[i] = Str(texts[i])
    BY <1>3
  <1>5. \A i \in 1 .. n : TextOf(nodes[i]) = texts[i]
    BY <1>4 DEF TextOf, IsNull, Str
  <1>6. \A i \in 1 .. n : texts[i] \in Text
    BY <1>1, ElementOfSeq
  <1>7. \A i \in 1 .. n : IsString(nodes[i])
    BY <1>4, <1>6 DEF IsString, Str
  <1>8. NodesOf(TextOf, nodes) = texts
    <2>1. NodesOf(TextOf, nodes) = [i \in 1 .. n |-> TextOf(nodes[i])]
      BY <1>4, Zenon DEF NodesOf
    <2> QED
      BY <1>2, <1>5, <2>1
  <1>9. nodes \in Seq(Range(nodes))
    <2>1. nodes = [i \in 1 .. n |-> nodes[i]]
      BY <1>3
    <2> QED
      BY <2>1, ListContent, Zenon
  <1>10. texts # <<>> => nodes # <<>>
    <2> SUFFICES ASSUME nodes = <<>> PROVE n = 0
      BY <1>1
    <2> QED
      BY <1>4
  <1> QED
    BY <1>1, <1>4, <1>7, <1>8, <1>9, <1>10, Zenon DEF nodes

\* Which fields an object has, and what they say.
LEMMA ObjFields ==
    ASSUME NEW fields, NEW f
    PROVE  /\ Present(Obj(fields), f) <=> f \in DOMAIN fields /\ fields[f].kind # "null"
           /\ Present(Obj(fields), f) => \A zero : Field(Obj(fields), f, zero) = fields[f].content
           /\ ~Present(Obj(fields), f) => \A zero : Field(Obj(fields), f, zero) = zero
           /\ Obj(fields).content = fields /\ Obj(fields).kind = "obj"
  BY DEF Present, Field, Obj, IsNull

\* A key comes back.
LEMMA KeyBack ==
    ASSUME NEW k \in Byte, NEW m \in Byte
    PROVE  LET js == Obj(KeyFields(KeycodeName(k), ModNames(m)))
           IN  IsStep(js) /\ stepFromJSON(js) = Parsed([type |-> STEP_KEY, keycode |-> k, mods |-> m])
  <1>1. PICK name : name = KeycodeName(k)
    OBVIOUS
  <1>2. LookupKeycode(name) = Parsed(k) /\ name \in Text /\ name # <<>>
    BY <1>1, KeycodeBack
  <1>3. PICK names : names = ModNames(m)
    OBVIOUS
  <1>4. LookupMods(names) = Parsed(m) /\ names \in Seq(Text)
    BY <1>3, ModsBack
  <1>5. PICK nodes : nodes = NodesOf(Str, names)
    OBVIOUS
  <1>6. /\ NodesOf(TextOf, nodes) = names /\ nodes \in Seq(Range(nodes))
        /\ \A i \in DOMAIN nodes : IsString(nodes[i])
        /\ names # <<>> => nodes # <<>>
    BY <1>4, <1>5, TextsBack, Zenon
  <1>7. PICK fields : fields = KeyFields(name, names)
    OBVIOUS
  <1>8. /\ "key" \in DOMAIN fields /\ fields["key"] = Str(name)
        /\ "text" \notin DOMAIN fields /\ "consumer" \notin DOMAIN fields /\ "delay_ms" \notin DOMAIN fields
        /\ names = <<>> => DOMAIN fields = {"key"}
        /\ names # <<>> => DOMAIN fields = {"key", "mods"} /\ fields["mods"] = List(nodes)
    BY <1>5, <1>7, Zenon DEF KeyFields
  <1> DEFINE js == Obj(fields)
  <1>9. js.kind = "obj" /\ js.content = fields
    BY DEF Obj
  <1>10. Field(js, "mods", <<>>) = IF names = <<>> THEN <<>> ELSE nodes
    <2>1. CASE names = <<>>
      <3>1. ~Present(js, "mods")
        BY <1>8, <2>1, ObjFields
      <3> QED
        BY <2>1, <3>1, ObjFields
    <2>2. CASE names # <<>>
      <3>1. List(nodes).kind # "null" /\ List(nodes).content = nodes
        BY DEF List
      <3>2. Present(js, "mods")
        BY <1>8, <2>2, <3>1, ObjFields
      <3> QED
        BY <1>8, <2>2, <3>1, <3>2, ObjFields
    <2> QED
      BY <2>1, <2>2
  <1>11. Field(js, "key", <<>>) = name /\ js.content.key.content = name
    BY <1>8, <1>9, ObjFields DEF Str
  <1>12. ~Present(js, "text") /\ ~Present(js, "consumer") /\ ~Present(js, "delay_ms")
    BY <1>8, ObjFields
  <1>13. IsStep(js)
    <2>1. StepField("key", Str(name))
      BY <1>2 DEF StepField, IsString, IsList, Str
    <2>2. StepField("mods", List(nodes))
      BY <1>6 DEF StepField, IsList, IsString, List
    <2>3. \A f \in DOMAIN fields : StepField(f, fields[f])
      BY <1>8, <2>1, <2>2
    <2> QED
      BY <1>9, <2>3, Zenon DEF IsStep, IsStruct
  <1> HIDE DEF js
  <1>14. OnlyForm(js, "key")
    <2>1. "key" \in Forms(js)
      BY <1>2, <1>11, StepForms
    <2>2. Field(js, "text", <<>>) = <<>> /\ Field(js, "consumer", <<>>) = <<>>
      BY <1>12 DEF Field
    <2>3. "text" \notin Forms(js) /\ "consumer" \notin Forms(js) /\ "delay_ms" \notin Forms(js)
      BY <1>12, <2>2, StepForms
    <2>4. Forms(js) = {"key"}
      BY <2>1, <2>3, StepForms
    <2> QED
      BY <2>4 DEF OnlyForm
  <1>15. ModsOf(js) = Parsed(m)
    <2>1. NodesOf(TextOf, Field(js, "mods", <<>>)) = names
      <3>1. CASE names = <<>>
        <4>1. Field(js, "mods", <<>>) = <<>>
          BY <1>10, <3>1
        <4>2. NodesOf(TextOf, <<>>) = <<>>
          BY DEF NodesOf
        <4> QED
          BY <3>1, <4>1, <4>2, Zenon
      <3>2. CASE names # <<>>
        BY <1>6, <1>10, <3>2, Zenon
      <3> QED
        BY <3>1, <3>2
    <2> QED
      BY <1>4, <2>1, Zenon DEF ModsOf
  <1>16. stepFromJSON(js) = Each([type |-> Parsed(STEP_KEY), keycode |-> Parsed(k), mods |-> Parsed(m)])
    BY <1>2, <1>11, <1>14, <1>15, StepRead, Zenon
  <1>17. stepFromJSON(js) = Parsed([type |-> STEP_KEY, keycode |-> k, mods |-> m])
    <2>1. Parsed(k).ok /\ Parsed(m).ok /\ Parsed(k).val = k /\ Parsed(m).val = m
      BY DEF Parsed
    <2>2. Each([type |-> Parsed(STEP_KEY), keycode |-> Parsed(k), mods |-> Parsed(m)])
            = Parsed([type |-> STEP_KEY, keycode |-> Parsed(k).val, mods |-> Parsed(m).val])
      BY <2>1, EachKey, Zenon
    <2> QED
      BY <1>16, <2>1, <2>2, Zenon
  <1> QED
    BY <1>1, <1>3, <1>7, <1>13, <1>17, Zenon DEF js

\* So does a step of one field.
LEMMA OneFormOf ==
    ASSUME NEW f \in {"text", "consumer"}, NEW text \in Text, text # <<>>
    PROVE  LET js == Obj([x \in {f} |-> Str(text)])
           IN  IsStep(js) /\ OnlyForm(js, f) /\ js.content[f].content = text
  <1> DEFINE fields == [x \in {f} |-> Str(text)]
             js == Obj(fields)
  <1>1. DOMAIN fields = {f} /\ fields[f] = Str(text) /\ Str(text).kind = "str" /\ Str(text).content = text
    BY DEF Str
  <1> HIDE DEF fields
  <1>2. js.kind = "obj" /\ js.content = fields
    BY DEF Obj
  <1>3. Field(js, f, <<>>) = text
    BY <1>1, ObjFields
  <1>4. \A g : g # f => ~Present(js, g)
    BY <1>1, ObjFields
  <1>5. StepField(f, Str(text))
    BY <1>1 DEF StepField, IsString, IsList
  <1> HIDE DEF js
  <1>6. IsStep(js)
    BY <1>1, <1>2, <1>5, Zenon DEF IsStep, IsStruct
  <1>7. \A g : g # f => Field(js, g, <<>>) = <<>>
    BY <1>4 DEF Field
  <1>8. f \in Forms(js)
    BY <1>3, StepForms
  <1>9. \A g \in Forms(js) : g = f
    <2> SUFFICES ASSUME NEW g \in Forms(js), g # f PROVE FALSE
      OBVIOUS
    <2>1. Field(js, g, <<>>) = <<>> /\ ~Present(js, g)
      BY <1>4, <1>7
    <2>2. g \in {"key", "text", "consumer", "delay_ms"}
      BY StepForms
    <2> QED
      BY <2>1, <2>2, StepForms
  <1>10. OnlyForm(js, f)
    <2>1. Forms(js) = {f}
      BY <1>8, <1>9
    <2>2. f # "mods"
      OBVIOUS
    <2> QED
      BY <1>7, <2>1, <2>2 DEF OnlyForm
  <1>11. js.content[f].content = text
    BY <1>1, <1>2
  <1> QED
    BY <1>6, <1>10, <1>11 DEF js, fields

\* A delay comes back.
LEMMA DelayBack ==
    ASSUME NEW ms \in Uint16
    PROVE  LET js == Obj([delay_ms |-> Num(ms)])
           IN  IsStep(js) /\ stepFromJSON(js) = Parsed(DelayStep(ms))
  <1> DEFINE fields == [delay_ms |-> Num(ms)]
             js == Obj(fields)
  <1>1. /\ DOMAIN fields = {"delay_ms"} /\ fields["delay_ms"] = Num(ms)
        /\ Num(ms).kind = "num" /\ Num(ms).content = ms
    BY DEF Num
  <1> HIDE DEF fields
  <1>2. js.kind = "obj" /\ js.content = fields
    BY DEF Obj
  <1>3. Present(js, "delay_ms") /\ \A g : g # "delay_ms" => ~Present(js, g)
    BY <1>1, ObjFields
  <1>4. StepField("delay_ms", Num(ms))
    BY <1>1 DEF StepField, IsString, IsList, IsNumber
  <1> HIDE DEF js
  <1>5. IsStep(js)
    BY <1>1, <1>2, <1>4, Zenon DEF IsStep, IsStruct
  <1>6. \A g : g # "delay_ms" => Field(js, g, <<>>) = <<>>
    BY <1>3 DEF Field
  <1>7. OnlyForm(js, "delay_ms")
    <2>1. "delay_ms" \in Forms(js) /\ \A g \in Forms(js) : g = "delay_ms"
      BY <1>3, <1>6, StepForms
    <2>2. Forms(js) = {"delay_ms"}
      BY <2>1
    <2> QED
      BY <1>6, <2>2 DEF OnlyForm
  <1>8. js.content.delay_ms.content = ms
    BY <1>1, <1>2
  <1>9. stepFromJSON(js) = Parsed(DelayStep(ms))
    BY <1>7, <1>8, StepRead
  <1> QED
    BY <1>5, <1>9 DEF js, fields

\* Every step comes back, or is refused; only a text that is empty is refused.
LEMMA StepBack ==
    ASSUME NEW s \in Step
    PROVE  /\ IsStep(stepToJSON(s))
           /\ Back(stepFromJSON(stepToJSON(s)), s)
           /\ ValidStep(s) => stepFromJSON(stepToJSON(s)).ok
  <1> DEFINE js == stepToJSON(s)
  <1>1. CASE /\ s.type = STEP_KEY /\ s.keycode \in Byte /\ s.mods \in Byte
             /\ s = [type |-> STEP_KEY, keycode |-> s.keycode, mods |-> s.mods]
    <2>1. js = Obj(KeyFields(KeycodeName(s.keycode), ModNames(s.mods)))
      BY <1>1, StepTypes, Zenon DEF stepToJSON
    <2>2. IsStep(js) /\ stepFromJSON(js) = Parsed([type |-> STEP_KEY, keycode |-> s.keycode, mods |-> s.mods])
      BY <1>1, <2>1, KeyBack, Zenon
    <2>3. stepFromJSON(js) = Parsed(s)
      BY <1>1, <2>2, Zenon
    <2> QED
      BY <2>2, <2>3 DEF Back, Parsed
  <1>2. CASE s.type = STEP_TEXT /\ s.text \in Text /\ s = TextStep(s.text)
    <2>1. js = Obj(IF s.text = <<>> THEN <<>> ELSE [text |-> Str(s.text)])
      BY <1>2, StepTypes, Zenon DEF stepToJSON
    <2>2. CASE s.text # <<>>
      <3>1. js = Obj([x \in {"text"} |-> Str(s.text)])
        BY <2>1, <2>2
      <3>2. IsStep(js) /\ OnlyForm(js, "text") /\ js.content["text"].content = s.text
        BY <1>2, <2>2, <3>1, OneFormOf
      <3>3. stepFromJSON(js) = Parsed(TextStep(s.text))
        BY <3>2, StepRead
      <3> QED
        BY <1>2, <3>2, <3>3 DEF Back, Parsed
    <2>3. CASE s.text = <<>>
      <3>1. js.kind = "obj" /\ js.content = <<>>
        BY <2>1, <2>3 DEF Obj
      <3>2. IsStep(js)
        BY <3>1 DEF IsStep, IsStruct
      <3>3. \A f : ~Present(js, f)
        BY <3>1 DEF Present
      <3>4. \A f : Field(js, f, <<>>) = <<>>
        BY <3>3 DEF Field
      <3>5. \A f : f \notin Forms(js)
        BY <3>3, <3>4, StepForms
      <3>6. stepFromJSON(js) = Refuse
        <4>1. \A f : ~OnlyForm(js, f)
          BY <3>5 DEF OnlyForm
        <4> QED
          BY <4>1, StepRead
      <3>7. ~ValidStep(s)
        <4>1. Len(s.text) = 0
          BY <2>3
        <4>2. Len(s.text) \notin 1 .. MAX_TEXT_LEN
          BY <4>1
        <4> QED
          BY <1>2, <4>2, StepTypes, Zenon DEF ValidStep
      <3> QED
        BY <3>2, <3>6, <3>7 DEF Back, Refuse
    <2> QED
      BY <2>2, <2>3
  <1>3. CASE s.type = STEP_CONSUMER /\ s.consumer \in Uint16 /\ s = [type |-> STEP_CONSUMER, consumer |-> s.consumer]
    <2>1. PICK name : name = ConsumerName(s.consumer)
      OBVIOUS
    <2>2. js = Obj([consumer |-> Str(name)])
      BY <1>3, <2>1, StepTypes, Zenon DEF stepToJSON
    <2>3. LookupConsumer(name) = Parsed(s.consumer) /\ name \in Text /\ name # <<>>
      BY <1>3, <2>1, ConsumerBack
    <2>4. js = Obj([x \in {"consumer"} |-> Str(name)])
      BY <2>2
    <2>5. IsStep(js) /\ OnlyForm(js, "consumer") /\ js.content["consumer"].content = name
      BY <2>3, <2>4, OneFormOf
    <2>6. stepFromJSON(js) = Each([type |-> Parsed(STEP_CONSUMER), consumer |-> Parsed(s.consumer)])
      BY <2>3, <2>5, StepRead
    <2>7. Parsed(s.consumer).ok /\ Parsed(s.consumer).val = s.consumer
      BY DEF Parsed
    <2>8. Each([type |-> Parsed(STEP_CONSUMER), consumer |-> Parsed(s.consumer)])
            = Parsed([type |-> STEP_CONSUMER, consumer |-> Parsed(s.consumer).val])
      BY <2>7, EachConsumer, Zenon
    <2>9. stepFromJSON(js) = Parsed(s)
      BY <1>3, <2>6, <2>7, <2>8, Zenon
    <2> QED
      BY <2>5, <2>9 DEF Back, Parsed
  <1>4. CASE s.type = STEP_DELAY /\ s.delay_ms \in Uint16 /\ s = DelayStep(s.delay_ms)
    <2>1. js = Obj([delay_ms |-> Num(s.delay_ms)])
      BY <1>4, StepTypes, Zenon DEF stepToJSON, DelayField
    <2>2. IsStep(js) /\ stepFromJSON(js) = Parsed(DelayStep(s.delay_ms))
      BY <1>4, <2>1, DelayBack, Zenon
    <2> QED
      BY <1>4, <2>2 DEF Back, Parsed
  <1> QED
    BY <1>1, <1>2, <1>3, <1>4, StepKinds

-----------------------------------------------------------------------------
(* Bindings.                                                               *)

\* What Each makes of the parts of a binding.
LEMMA EachBinding ==
    ASSUME NEW c, NEW s
    PROVE  LET r == Each([color |-> c, steps |-> s])
           IN  /\ c.ok /\ s.ok => r = Parsed([color |-> c.val, steps |-> s.val])
               /\ r.ok => c.ok /\ s.ok
  <1> DEFINE parts == [color |-> c, steps |-> s]
  <1>1. DOMAIN parts = {"color", "steps"} /\ parts["color"] = c /\ parts["steps"] = s
    OBVIOUS
  <1> HIDE DEF parts
  <1>2. (\A i \in DOMAIN parts : parts[i].ok) <=> c.ok /\ s.ok
    BY <1>1
  <1>3. [i \in DOMAIN parts |-> parts[i].val] = [color |-> c.val, steps |-> s.val]
    BY <1>1
  <1>4. /\ c.ok /\ s.ok => Each(parts) = Parsed([color |-> c.val, steps |-> s.val])
        /\ Each(parts).ok => c.ok /\ s.ok
    BY <1>2, <1>3 DEF Each, Refuse
  <1> QED
    BY <1>4 DEF parts

\* Parsing a list of steps.
Steps(nodes) == EachOf(stepFromJSON, nodes)
\* The steps of a binding's document, none where there is no such field.
StepsField(jb) == Field(jb, "steps", <<>>)

\* How a binding is read.
LEMMA BindingRead ==
    ASSUME NEW jb
    PROVE  bindingFromJSON(jb) = Each([color |-> ParseRGB(Field(jb, "color", <<>>)), steps |-> Steps(StepsField(jb))])
  BY Zenon DEF bindingFromJSON, Steps, StepsField

\* Steps that are parsed are steps.
LEMMA StepsParsed ==
    ASSUME NEW nodes, NEW n \in Nat, DOMAIN nodes = 1 .. n, \A i \in 1 .. n : IsStep(nodes[i]), Steps(nodes).ok
    PROVE  Steps(nodes).val \in Seq(Step)
  <1> DEFINE parts == [i \in DOMAIN nodes |-> stepFromJSON(nodes[i])]
  <1>1. DOMAIN parts = 1 .. n /\ \A i \in 1 .. n : parts[i] = stepFromJSON(nodes[i])
    OBVIOUS
  <1>2. Steps(nodes) = Each(parts)
    BY Zenon DEF Steps, EachOf
  <1> HIDE DEF parts
  <1>3. \A i \in 1 .. n : parts[i].ok => parts[i].val \in Step
    BY <1>1, StepParsed
  <1> QED
    BY <1>1, <1>2, <1>3, EachSeq

\* The field of a binding that holds its steps is a list of documents of steps.
LEMMA StepsFieldShape ==
    ASSUME NEW jb, IsBinding(jb)
    PROVE  \E n \in Nat : DOMAIN StepsField(jb) = 1 .. n /\ \A i \in 1 .. n : IsStep(StepsField(jb)[i])
  <1>1. CASE Present(jb, "steps")
    <2>1. BindingField("steps", jb.content["steps"]) /\ ~IsNull(jb.content["steps"])
      BY <1>1, Zenon DEF IsBinding, IsStruct, Present, IsNull
    <2>2. PICK nodes : nodes = jb.content["steps"].content
      OBVIOUS
    <2>3. nodes \in Seq(Range(nodes)) /\ \A i \in DOMAIN nodes : IsStep(nodes[i])
      BY <2>1, <2>2, Zenon DEF BindingField, IsList
    <2>4. StepsField(jb) = nodes
      BY <1>1, <2>2 DEF StepsField, Field
    <2>5. PICK n \in Nat : DOMAIN nodes = 1 .. n
      BY <2>3, LenProperties
    <2> QED
      BY <2>3, <2>4, <2>5
  <1>2. CASE ~Present(jb, "steps")
    <2>1. StepsField(jb) = <<>>
      BY <1>2 DEF StepsField, Field
    <2>2. DOMAIN <<>> = 1 .. 0
      OBVIOUS
    <2> QED
      BY <2>1, <2>2
  <1> QED
    BY <1>1, <1>2

\* A binding that is parsed is a binding.
LEMMA BindingParsed ==
    ASSUME NEW jb, IsBinding(jb), bindingFromJSON(jb).ok
    PROVE  bindingFromJSON(jb).val \in Binding
  <1>1. PICK c, s : c = ParseRGB(Field(jb, "color", <<>>)) /\ s = Steps(StepsField(jb))
    OBVIOUS
  <1>2. bindingFromJSON(jb) = Each([color |-> c, steps |-> s])
    BY <1>1, BindingRead, Zenon
  <1>3. c.ok /\ s.ok /\ bindingFromJSON(jb) = Parsed([color |-> c.val, steps |-> s.val])
    BY <1>2, EachBinding, Zenon
  <1>4. c.val \in RGB
    BY <1>1, <1>3, ColourType
  <1>5. s.val \in Seq(Step)
    <2>1. PICK n \in Nat : DOMAIN StepsField(jb) = 1 .. n /\ \A i \in 1 .. n : IsStep(StepsField(jb)[i])
      BY StepsFieldShape
    <2> QED
      BY <1>1, <1>3, <2>1, StepsParsed
  <1> QED
    BY <1>3, <1>4, <1>5 DEF Parsed, Binding

\* Steps come back.
LEMMA StepsBack ==
    ASSUME NEW steps \in Seq(Step)
    PROVE  LET nodes == NodesOf(stepToJSON, steps)
           IN  /\ nodes \in Seq(Range(nodes)) /\ DOMAIN nodes = DOMAIN steps
               /\ \A i \in DOMAIN nodes : IsStep(nodes[i])
               /\ Back(Steps(nodes), steps)
               /\ (\A i \in DOMAIN steps : ValidStep(steps[i])) => Steps(nodes).ok
  <1> DEFINE nodes == NodesOf(stepToJSON, steps)
  <1>1. PICK n \in Nat : DOMAIN steps = 1 .. n /\ n = Len(steps)
    BY LenProperties
  <1>2. \A i \in 1 .. n : steps[i] \in Step
    BY <1>1, ElementOfSeq
  <1>3. nodes = [i \in 1 .. n |-> stepToJSON(steps[i])]
    BY <1>1, Zenon DEF NodesOf
  <1> HIDE DEF nodes
  <1>4. DOMAIN nodes = 1 .. n /\ \A i \in 1 .. n : nodes[i] = stepToJSON(steps[i])
    BY <1>3
  <1>5. nodes \in Seq(Range(nodes))
    <2>1. nodes = [i \in 1 .. n |-> nodes[i]]
      BY <1>3
    <2> QED
      BY <2>1, ListContent, Zenon
  <1>6. \A i \in 1 .. n : /\ IsStep(nodes[i])
                          /\ Back(stepFromJSON(nodes[i]), steps[i])
                          /\ ValidStep(steps[i]) => stepFromJSON(nodes[i]).ok
    BY <1>2, <1>4, StepBack, Zenon
  <1> DEFINE parts == [i \in DOMAIN nodes |-> stepFromJSON(nodes[i])]
  <1>7. Steps(nodes) = Each(parts)
    BY Zenon DEF Steps, EachOf
  <1>8. DOMAIN parts = DOMAIN steps /\ \A i \in DOMAIN steps : parts[i] = stepFromJSON(nodes[i])
    BY <1>1, <1>4
  <1> HIDE DEF parts
  <1>9. /\ Back(Each(parts), steps)
        /\ (\A i \in DOMAIN steps : parts[i].ok) => Each(parts).ok
    <2>1. \A i \in DOMAIN steps : Back(parts[i], steps[i])
      BY <1>1, <1>6, <1>8
    <2> QED
      BY <1>8, <2>1, EachBack
  <1>10. (\A i \in DOMAIN steps : ValidStep(steps[i])) => \A i \in DOMAIN steps : parts[i].ok
    BY <1>1, <1>6, <1>8
  <1> QED
    BY <1>1, <1>4, <1>5, <1>6, <1>7, <1>9, <1>10, Zenon DEF nodes

\* A binding comes back.
LEMMA BindingBack ==
    ASSUME NEW b \in Binding
    PROVE  /\ IsBinding(bindingToJSON(b))
           /\ Back(bindingFromJSON(bindingToJSON(b)), b)
           /\ ValidBinding(b) => bindingFromJSON(bindingToJSON(b)).ok
  <1>1. b.color \in RGB /\ b.steps \in Seq(Step) /\ b = [color |-> b.color, steps |-> b.steps]
    BY DEF Binding
  <1>2. PICK text, nodes : text = formatRGB(b.color) /\ nodes = NodesOf(stepToJSON, b.steps)
    OBVIOUS
  <1>3. ParseRGB(text) = Parsed(b.color) /\ text \in Text
    BY <1>1, <1>2, ColourBack
  <1>4. /\ nodes \in Seq(Range(nodes)) /\ \A i \in DOMAIN nodes : IsStep(nodes[i])
        /\ Back(Steps(nodes), b.steps)
        /\ (\A i \in DOMAIN b.steps : ValidStep(b.steps[i])) => Steps(nodes).ok
    BY <1>1, <1>2, StepsBack, Zenon
  <1>5. PICK fields : fields = [color |-> Str(text), steps |-> List(nodes)]
    OBVIOUS
  <1>6. DOMAIN fields = {"color", "steps"} /\ fields["color"] = Str(text) /\ fields["steps"] = List(nodes)
    BY <1>5
  <1>7. PICK jb : jb = bindingToJSON(b)
    OBVIOUS
  <1>8. jb = Obj(fields)
    BY <1>2, <1>5, <1>7, Zenon DEF bindingToJSON
  <1>9. /\ Str(text).kind = "str" /\ Str(text).content = text /\ List(nodes).kind = "list"
        /\ List(nodes).content = nodes
    BY DEF Str, List
  <1>10. IsBinding(jb)
    <2>1. BindingField("color", Str(text))
      BY <1>3, <1>9 DEF BindingField, IsString, IsList
    <2>2. BindingField("steps", List(nodes))
      BY <1>4, <1>9, Zenon DEF BindingField, IsList
    <2>3. \A f \in DOMAIN fields : BindingField(f, fields[f])
      BY <1>6, <2>1, <2>2
    <2>4. jb.kind = "obj" /\ jb.content = fields
      BY <1>8 DEF Obj
    <2> QED
      BY <2>3, <2>4, Zenon DEF IsBinding, IsStruct
  <1>11. Field(jb, "color", <<>>) = text
    BY <1>6, <1>8, <1>9, ObjFields
  <1>12. StepsField(jb) = nodes
    BY <1>6, <1>8, <1>9, ObjFields DEF StepsField
  <1>13. PICK s : s = Steps(nodes)
    OBVIOUS
  <1>14. bindingFromJSON(jb) = Each([color |-> Parsed(b.color), steps |-> s])
    BY <1>3, <1>11, <1>12, <1>13, BindingRead, Zenon
  <1>15. Parsed(b.color).ok /\ Parsed(b.color).val = b.color
    BY DEF Parsed
  <1>16. /\ s.ok => bindingFromJSON(jb) = Parsed([color |-> b.color, steps |-> s.val])
         /\ bindingFromJSON(jb).ok => s.ok
    <2>1. /\ s.ok => bindingFromJSON(jb) = Parsed([color |-> Parsed(b.color).val, steps |-> s.val])
          /\ bindingFromJSON(jb).ok => s.ok
      <3>1. PICK c : c = Parsed(b.color)
        OBVIOUS
      <3>2. bindingFromJSON(jb) = Each([color |-> c, steps |-> s]) /\ c.ok
        BY <1>14, <1>15, <3>1, Zenon
      <3>3. /\ s.ok => bindingFromJSON(jb) = Parsed([color |-> c.val, steps |-> s.val])
            /\ bindingFromJSON(jb).ok => s.ok
        BY <3>2, EachBinding, ZenonT(60)
      <3> QED
        BY <3>1, <3>3, Zenon
    <2> QED
      BY <1>15, <2>1, Zenon
  <1>17. s.ok => s.val = b.steps
    BY <1>4, <1>13 DEF Back
  <1>18. s.ok => bindingFromJSON(jb) = Parsed(b)
    BY <1>1, <1>16, <1>17, Zenon
  <1>19. ValidBinding(b) => s.ok
    BY <1>4, <1>13 DEF ValidBinding
  <1> QED
    BY <1>7, <1>10, <1>16, <1>18, <1>19 DEF Back, Parsed

-----------------------------------------------------------------------------
(* Profiles.                                                               *)

\* Parsing a list of bindings.
Bindings(nodes) == EachOf(bindingFromJSON, nodes)
\* The slots of a profile's document, none where there is no such field.
SlotsField(jp) == Field(jp, "slots", <<>>)

\* A list of bindings that is parsed is parsed one by one.
LEMMA BindingsEach ==
    ASSUME NEW nodes, NEW n \in Nat, DOMAIN nodes = 1 .. n, \A i \in 1 .. n : IsBinding(nodes[i]), Bindings(nodes).ok
    PROVE  /\ Bindings(nodes).val \in Seq(Binding) /\ DOMAIN Bindings(nodes).val = 1 .. n
           /\ \A i \in 1 .. n : bindingFromJSON(nodes[i]).ok /\ Bindings(nodes).val[i] = bindingFromJSON(nodes[i]).val
  <1> DEFINE parts == [i \in DOMAIN nodes |-> bindingFromJSON(nodes[i])]
  <1>1. DOMAIN parts = 1 .. n /\ \A i \in 1 .. n : parts[i] = bindingFromJSON(nodes[i])
    OBVIOUS
  <1>2. Bindings(nodes) = Each(parts)
    BY Zenon DEF Bindings, EachOf
  <1> HIDE DEF parts
  <1>3. \A i \in 1 .. n : parts[i].ok => parts[i].val \in Binding
    BY <1>1, BindingParsed
  <1>4. /\ Each(parts).val \in Seq(Binding) /\ DOMAIN Each(parts).val = 1 .. n
        /\ \A i \in 1 .. n : parts[i].ok /\ Each(parts).val[i] = parts[i].val
    BY <1>1, <1>2, <1>3, EachSeq
  <1> QED
    BY <1>1, <1>2, <1>4

\* It is a list of documents of bindings.
LEMMA SlotsFieldShape ==
    ASSUME NEW jp, IsProfile(jp)
    PROVE  \E n \in Nat : DOMAIN SlotsField(jp) = 1 .. n /\ \A i \in 1 .. n : IsBinding(SlotsField(jp)[i])
  <1>1. CASE Present(jp, "slots")
    <2>1. ProfileField("slots", jp.content["slots"]) /\ ~IsNull(jp.content["slots"])
      BY <1>1, Zenon DEF IsProfile, IsStruct, Present, IsNull
    <2>2. PICK nodes : nodes = jp.content["slots"].content
      OBVIOUS
    <2>3. nodes \in Seq(Range(nodes)) /\ \A i \in DOMAIN nodes : IsBinding(nodes[i])
      BY <2>1, <2>2, Zenon DEF ProfileField, IsList
    <2>4. SlotsField(jp) = nodes
      BY <1>1, <2>2 DEF SlotsField, Field
    <2>5. PICK n \in Nat : DOMAIN nodes = 1 .. n
      BY <2>3, LenProperties
    <2> QED
      BY <2>3, <2>4, <2>5
  <1>2. CASE ~Present(jp, "slots")
    <2>1. SlotsField(jp) = <<>>
      BY <1>2 DEF SlotsField, Field
    <2>2. DOMAIN <<>> = 1 .. 0
      OBVIOUS
    <2> QED
      BY <2>1, <2>2
  <1> QED
    BY <1>1, <1>2

\* Bindings come back.
LEMMA BindingsBack ==
    ASSUME NEW bindings \in Seq(Binding)
    PROVE  LET nodes == NodesOf(bindingToJSON, bindings)
           IN  /\ nodes \in Seq(Range(nodes)) /\ DOMAIN nodes = DOMAIN bindings
               /\ \A i \in DOMAIN nodes : IsBinding(nodes[i]) /\ nodes[i] = bindingToJSON(bindings[i])
               /\ Back(Bindings(nodes), bindings)
               /\ (\A i \in DOMAIN bindings : ValidBinding(bindings[i])) => Bindings(nodes).ok
  <1> DEFINE nodes == NodesOf(bindingToJSON, bindings)
  <1>1. PICK n \in Nat : DOMAIN bindings = 1 .. n /\ n = Len(bindings)
    BY LenProperties
  <1>2. \A i \in 1 .. n : bindings[i] \in Binding
    BY <1>1, ElementOfSeq
  <1>3. nodes = [i \in 1 .. n |-> bindingToJSON(bindings[i])]
    BY <1>1, Zenon DEF NodesOf
  <1> HIDE DEF nodes
  <1>4. DOMAIN nodes = 1 .. n /\ \A i \in 1 .. n : nodes[i] = bindingToJSON(bindings[i])
    BY <1>3
  <1>5. nodes \in Seq(Range(nodes))
    <2>1. nodes = [i \in 1 .. n |-> nodes[i]]
      BY <1>3
    <2> QED
      BY <2>1, ListContent, Zenon
  <1>6. \A i \in 1 .. n : /\ IsBinding(nodes[i])
                          /\ Back(bindingFromJSON(nodes[i]), bindings[i])
                          /\ ValidBinding(bindings[i]) => bindingFromJSON(nodes[i]).ok
    BY <1>2, <1>4, BindingBack, Zenon
  <1> DEFINE parts == [i \in DOMAIN nodes |-> bindingFromJSON(nodes[i])]
  <1>7. Bindings(nodes) = Each(parts)
    BY Zenon DEF Bindings, EachOf
  <1>8. DOMAIN parts = DOMAIN bindings /\ \A i \in DOMAIN bindings : parts[i] = bindingFromJSON(nodes[i])
    BY <1>1, <1>4
  <1> HIDE DEF parts
  <1>9. /\ Back(Each(parts), bindings)
        /\ (\A i \in DOMAIN bindings : parts[i].ok) => Each(parts).ok
    <2>1. \A i \in DOMAIN bindings : Back(parts[i], bindings[i])
      BY <1>1, <1>6, <1>8
    <2> QED
      BY <1>8, <2>1, EachBack
  <1>10. (\A i \in DOMAIN bindings : ValidBinding(bindings[i])) => \A i \in DOMAIN bindings : parts[i].ok
    BY <1>1, <1>6, <1>8
  <1> QED
    BY <1>1, <1>4, <1>5, <1>6, <1>7, <1>9, <1>10, Zenon DEF nodes

\* A list rendered as null is empty, and so is what is read of null.
LEMMA NilOrListBack ==
    ASSUME NEW nodes, nodes \in Seq(Range(nodes))
    PROVE  LET node == NilOrList(nodes)
           IN  (IF node.kind = "null" THEN <<>> ELSE node.content) = nodes /\ node.kind \in {"null", "list"}
  BY DEF NilOrList, Null, List

\* What Parsed makes.
LEMMA ParsedIs ==
    ASSUME NEW v
    PROVE  Parsed(v).ok /\ Parsed(v).val = v
  BY DEF Parsed

\* The fields of a profile, and how each is parsed.
ProfileFields ==
    {"name", "dwell_ms", "tap_max_ms", "overflow", "ext_count", "brightness", "idle_mode", "idle_color", "tap", "slots"}

\* What is parsed of the fields of a profile.
ProfileParts(jp) ==
    [name |-> Parsed(Field(jp, "name", <<>>)), dwell_ms |-> Parsed(Field(jp, "dwell_ms", 0)),
     tap_max_ms |-> Parsed(Field(jp, "tap_max_ms", 0)),
     overflow |-> parseMode(overflowNames, Field(jp, "overflow", <<>>)),
     ext_count |-> Parsed(Field(jp, "ext_count", 0)), brightness |-> Parsed(Field(jp, "brightness", 0)),
     idle_mode |-> parseMode(idleModeNames, Field(jp, "idle_mode", <<>>)),
     idle_color |-> ParseRGB(Field(jp, "idle_color", <<>>)),
     tap |-> bindingFromJSON(Part(jp, "tap")),
     slots |-> Bindings(SlotsField(jp))]

\* How a profile is read.
LEMMA ProfileRead ==
    ASSUME NEW jp
    PROVE  profileFromJSON(jp) = Each(ProfileParts(jp))
  BY Zenon DEF profileFromJSON, ProfileParts, Bindings, SlotsField

\* Its parts, one by one.
LEMMA ProfilePartsAre ==
    ASSUME NEW jp
    PROVE  /\ DOMAIN ProfileParts(jp) = ProfileFields
           /\ ProfileParts(jp)["name"] = Parsed(Field(jp, "name", <<>>))
           /\ ProfileParts(jp)["dwell_ms"] = Parsed(Field(jp, "dwell_ms", 0))
           /\ ProfileParts(jp)["tap_max_ms"] = Parsed(Field(jp, "tap_max_ms", 0))
           /\ ProfileParts(jp)["overflow"] = parseMode(overflowNames, Field(jp, "overflow", <<>>))
           /\ ProfileParts(jp)["ext_count"] = Parsed(Field(jp, "ext_count", 0))
           /\ ProfileParts(jp)["brightness"] = Parsed(Field(jp, "brightness", 0))
           /\ ProfileParts(jp)["idle_mode"] = parseMode(idleModeNames, Field(jp, "idle_mode", <<>>))
           /\ ProfileParts(jp)["idle_color"] = ParseRGB(Field(jp, "idle_color", <<>>))
           /\ ProfileParts(jp)["tap"] = bindingFromJSON(Part(jp, "tap"))
           /\ ProfileParts(jp)["slots"] = Bindings(SlotsField(jp))
  BY DEF ProfileParts, ProfileFields

\* What is parsed is parsed field by field.
LEMMA ProfileEach ==
    ASSUME NEW jp, profileFromJSON(jp).ok
    PROVE  /\ DOMAIN profileFromJSON(jp).val = ProfileFields
           /\ profileFromJSON(jp).val = [f \in ProfileFields |-> profileFromJSON(jp).val[f]]
           /\ \A f \in ProfileFields : /\ ProfileParts(jp)[f].ok
                                       /\ profileFromJSON(jp).val[f] = ProfileParts(jp)[f].val
  <1>1. PICK parts : parts = ProfileParts(jp)
    OBVIOUS
  <1>2. DOMAIN parts = ProfileFields
    BY <1>1, ProfilePartsAre
  <1>3. profileFromJSON(jp) = Each(parts)
    BY <1>1, ProfileRead
  <1>4. \A f \in ProfileFields : parts[f].ok
    BY <1>2, <1>3 DEF Each, Refuse
  <1>5. profileFromJSON(jp).val = [f \in ProfileFields |-> parts[f].val]
    BY <1>2, <1>3, <1>4 DEF Each, Parsed
  <1> QED
    BY <1>1, <1>4, <1>5

\* Types of the fields.
LEMMA ProfileContent ==
    ASSUME NEW jp, IsProfile(jp), NEW f, Present(jp, f)
    PROVE  /\ f = "name" => jp.content[f].content \in Text
           /\ f \in {"dwell_ms", "tap_max_ms"} => jp.content[f].content \in Uint16
           /\ f \in {"ext_count", "brightness"} => jp.content[f].content \in Byte
           /\ f = "tap" => IsBinding(jp.content[f])
  <1>1. ProfileField(f, jp.content[f]) /\ ~IsNull(jp.content[f])
    BY Zenon DEF IsProfile, IsStruct, Present, IsNull
  <1>2. f = "name" => IsString(jp.content[f])
    BY <1>1 DEF ProfileField, IsList
  <1>3. f \in {"dwell_ms", "tap_max_ms"} => IsNumber(jp.content[f], Uint16)
    BY <1>1 DEF ProfileField, IsList
  <1>4. f \in {"ext_count", "brightness"} => IsNumber(jp.content[f], Byte)
    BY <1>1 DEF ProfileField, IsList
  <1>5. f = "tap" => IsBinding(jp.content[f])
    BY <1>1 DEF ProfileField, IsList
  <1> QED
    BY <1>1, <1>2, <1>3, <1>4, <1>5 DEF IsString, IsNumber

\* A profile that is parsed is a profile.
LEMMA ProfileParsed ==
    ASSUME NEW jp, IsProfile(jp), profileFromJSON(jp).ok
    PROVE  /\ profileFromJSON(jp).val \in Profile
           /\ profileFromJSON(jp).val.overflow <= OVERFLOW_CLAMP
           /\ profileFromJSON(jp).val.idle_mode <= IDLE_RAINBOW
  <1>1. PICK p : p = profileFromJSON(jp).val
    OBVIOUS
  <1>2. /\ p = [f \in ProfileFields |-> p[f]]
        /\ \A f \in ProfileFields : ProfileParts(jp)[f].ok /\ p[f] = ProfileParts(jp)[f].val
    BY <1>1, ProfileEach
  <1>3. p["name"] \in Text
    <2>1. p["name"] = Field(jp, "name", <<>>)
      <3>1. p["name"] = Parsed(Field(jp, "name", <<>>)).val
        BY <1>2, ProfilePartsAre DEF ProfileFields
      <3> QED
        BY <3>1, ParsedIs
    <2> QED
      BY <2>1, ProfileContent DEF Field, Text
  <1>4. p["dwell_ms"] \in Uint16 /\ p["tap_max_ms"] \in Uint16
    <2>1. p["dwell_ms"] = Field(jp, "dwell_ms", 0) /\ p["tap_max_ms"] = Field(jp, "tap_max_ms", 0)
      <3>1. /\ p["dwell_ms"] = Parsed(Field(jp, "dwell_ms", 0)).val
            /\ p["tap_max_ms"] = Parsed(Field(jp, "tap_max_ms", 0)).val
        BY <1>2, ProfilePartsAre DEF ProfileFields
      <3> QED
        BY <3>1, ParsedIs
    <2>2. 0 \in Uint16
      BY DEF Uint16
    <2> QED
      BY <2>1, <2>2, ProfileContent DEF Field
  <1>5. p["ext_count"] \in Byte /\ p["brightness"] \in Byte
    <2>1. p["ext_count"] = Field(jp, "ext_count", 0) /\ p["brightness"] = Field(jp, "brightness", 0)
      <3>1. /\ p["ext_count"] = Parsed(Field(jp, "ext_count", 0)).val
            /\ p["brightness"] = Parsed(Field(jp, "brightness", 0)).val
        BY <1>2, ProfilePartsAre DEF ProfileFields
      <3> QED
        BY <3>1, ParsedIs
    <2>2. 0 \in Byte
      BY DEF Byte
    <2> QED
      BY <2>1, <2>2, ProfileContent DEF Field
  <1>6. p["overflow"] \in 0 .. OVERFLOW_CLAMP
    <2>1. PICK r : r = parseMode(overflowNames, Field(jp, "overflow", <<>>)) /\ r.ok /\ p["overflow"] = r.val
      BY <1>2, ProfilePartsAre DEF ProfileFields
    <2>2. OVERFLOW_CLAMP \in Nat
      BY DEF OVERFLOW_CLAMP
    <2> QED
      BY <2>1, <2>2, ModeType, ModeTables
  <1>7. p["idle_mode"] \in 0 .. IDLE_RAINBOW
    <2>1. PICK r : r = parseMode(idleModeNames, Field(jp, "idle_mode", <<>>)) /\ r.ok /\ p["idle_mode"] = r.val
      BY <1>2, ProfilePartsAre DEF ProfileFields
    <2>2. IDLE_RAINBOW \in Nat
      BY DEF IDLE_RAINBOW
    <2> QED
      BY <2>1, <2>2, ModeType, ModeTables
  <1>8. p["idle_color"] \in RGB
    BY <1>2, ProfilePartsAre, ColourType DEF ProfileFields
  <1>9. p["tap"] \in Binding
    <2>1. IsBinding(Part(jp, "tap"))
      <3>1. IsBinding(Null)
        BY DEF IsBinding, IsStruct, IsNull, Null
      <3> QED
        BY <3>1, ProfileContent DEF Part
    <2>2. bindingFromJSON(Part(jp, "tap")).ok /\ p["tap"] = bindingFromJSON(Part(jp, "tap")).val
      BY <1>2, ProfilePartsAre DEF ProfileFields
    <2> QED
      BY <2>1, <2>2, BindingParsed
  <1>10. p["slots"] \in Seq(Binding)
    <2>1. PICK n \in Nat : DOMAIN SlotsField(jp) = 1 .. n /\ \A i \in 1 .. n : IsBinding(SlotsField(jp)[i])
      BY SlotsFieldShape
    <2>2. Bindings(SlotsField(jp)).ok /\ p["slots"] = Bindings(SlotsField(jp)).val
      BY <1>2, ProfilePartsAre DEF ProfileFields
    <2> QED
      BY <2>1, <2>2, BindingsEach
  <1>11. p = [name |-> p["name"], dwell_ms |-> p["dwell_ms"], tap_max_ms |-> p["tap_max_ms"],
              overflow |-> p["overflow"], ext_count |-> p["ext_count"], brightness |-> p["brightness"],
              idle_mode |-> p["idle_mode"], idle_color |-> p["idle_color"], tap |-> p["tap"], slots |-> p["slots"]]
    BY <1>2 DEF ProfileFields
  <1>12. p["overflow"] \in Byte /\ p["idle_mode"] \in Byte
    BY <1>6, <1>7 DEF Byte, OVERFLOW_CLAMP, IDLE_RAINBOW
  <1>13. p \in Profile
    BY <1>3, <1>4, <1>5, <1>8, <1>9, <1>10, <1>11, <1>12 DEF Profile
  <1> QED
    BY <1>1, <1>6, <1>7, <1>13 DEF OVERFLOW_CLAMP, IDLE_RAINBOW

\* Bytes and words are numbers.
LEMMA ByteIsNat ==
    ASSUME NEW n \in Byte
    PROVE  n \in Nat
  BY DEF Byte

\* Modes that have names.
ModesNamed(p) == p.overflow <= OVERFLOW_CLAMP /\ p.idle_mode <= IDLE_RAINBOW

\* The fields of a profile's document.
ProfileNodes(p) ==
    [name |-> Str(p.name), dwell_ms |-> Num(p.dwell_ms), tap_max_ms |-> Num(p.tap_max_ms),
     overflow |-> Str(ModeName(overflowNames, p.overflow)), ext_count |-> Num(p.ext_count),
     brightness |-> Num(p.brightness), idle_mode |-> Str(ModeName(idleModeNames, p.idle_mode)),
     idle_color |-> Str(formatRGB(p.idle_color)), tap |-> bindingToJSON(p.tap),
     slots |-> NilOrList(NodesOf(bindingToJSON, p.slots))]

\* Those fields, one by one.
LEMMA ProfileNodesAre ==
    ASSUME NEW p
    PROVE  /\ profileToJSON(p) = Obj(ProfileNodes(p))
           /\ DOMAIN ProfileNodes(p) = ProfileFields
           /\ ProfileNodes(p)["name"] = Str(p.name)
           /\ ProfileNodes(p)["dwell_ms"] = Num(p.dwell_ms)
           /\ ProfileNodes(p)["tap_max_ms"] = Num(p.tap_max_ms)
           /\ ProfileNodes(p)["overflow"] = Str(ModeName(overflowNames, p.overflow))
           /\ ProfileNodes(p)["ext_count"] = Num(p.ext_count)
           /\ ProfileNodes(p)["brightness"] = Num(p.brightness)
           /\ ProfileNodes(p)["idle_mode"] = Str(ModeName(idleModeNames, p.idle_mode))
           /\ ProfileNodes(p)["idle_color"] = Str(formatRGB(p.idle_color))
           /\ ProfileNodes(p)["tap"] = bindingToJSON(p.tap)
           /\ ProfileNodes(p)["slots"] = NilOrList(NodesOf(bindingToJSON, p.slots))
  <1>1. profileToJSON(p) = Obj(ProfileNodes(p))
    BY Zenon DEF profileToJSON, ProfileNodes
  <1> QED
    BY <1>1 DEF ProfileNodes, ProfileFields

\* The fields of a profile, and their types.
LEMMA ProfileIs ==
    ASSUME NEW p \in Profile
    PROVE  /\ p.name \in Text /\ p.dwell_ms \in Uint16 /\ p.tap_max_ms \in Uint16
           /\ p.overflow \in Byte /\ p.ext_count \in Byte /\ p.brightness \in Byte
           /\ p.idle_mode \in Byte /\ p.idle_color \in RGB /\ p.tap \in Binding /\ p.slots \in Seq(Binding)
           /\ DOMAIN p = ProfileFields
           /\ p = [f \in ProfileFields |-> p[f]]
  BY DEF Profile, ProfileFields

\* What a node at a field says.
LEMMA FieldAt ==
    ASSUME NEW jp, jp.kind = "obj", NEW f \in DOMAIN jp.content, NEW node, jp.content[f] = node
    PROVE  /\ node.kind # "null" => Part(jp, f) = node /\ \A zero : Field(jp, f, zero) = node.content
           /\ node.kind = "null" => \A zero : Field(jp, f, zero) = zero
  BY DEF Field, Part, Present, IsNull

\* The node of a text.
LEMMA StrIs ==
    ASSUME NEW s
    PROVE  Str(s).kind = "str" /\ Str(s).content = s /\ (s \in Text => IsString(Str(s)))
  BY DEF Str, IsString

\* The node of a number.
LEMMA NumIs ==
    ASSUME NEW n
    PROVE  Num(n).kind = "num" /\ Num(n).content = n /\ \A width : n \in width => IsNumber(Num(n), width)
  BY DEF Num, IsNumber

\* Which shape a field has.
LEMMA ProfileFieldIs ==
    ASSUME NEW f, NEW node
    PROVE  /\ f \in {"name", "overflow", "idle_mode", "idle_color"} /\ IsString(node) => ProfileField(f, node)
           /\ f \in {"dwell_ms", "tap_max_ms"} /\ IsNumber(node, Uint16) => ProfileField(f, node)
           /\ f \in {"ext_count", "brightness"} /\ IsNumber(node, Byte) => ProfileField(f, node)
           /\ f = "tap" /\ IsBinding(node) => ProfileField(f, node)
           /\ f = "slots" /\ node.kind = "null" => ProfileField(f, node)
           /\ (/\ f = "slots" /\ node.kind = "list" /\ node.content \in Seq(Range(node.content))
               /\ \A i \in DOMAIN node.content : IsBinding(node.content[i])) => ProfileField(f, node)
  BY Zenon DEF ProfileField, IsList, IsNull

\* A field of a profile that is as it was rendered is read as it was.
LEMMA ProfileFieldBack ==
    ASSUME NEW p \in Profile, ModesNamed(p), NEW jp, jp.kind = "obj", NEW f \in ProfileFields,
           f \in DOMAIN jp.content, jp.content[f] = ProfileNodes(p)[f]
    PROVE  /\ Back(ProfileParts(jp)[f], p[f])
           /\ ValidProfile(p) => ProfileParts(jp)[f].ok
           /\ ProfileField(f, jp.content[f])
  <1>1. /\ p.name \in Text /\ p.dwell_ms \in Uint16 /\ p.tap_max_ms \in Uint16
        /\ p.overflow \in Byte /\ p.ext_count \in Byte /\ p.brightness \in Byte
        /\ p.idle_mode \in Byte /\ p.idle_color \in RGB /\ p.tap \in Binding /\ p.slots \in Seq(Binding)
    BY ProfileIs
  <1>2. CASE f = "name"
    <2>1. jp.content[f] = Str(p.name)
      BY <1>2, ProfileNodesAre
    <2>2. Field(jp, "name", <<>>) = p.name
      BY <1>2, <2>1, FieldAt, StrIs
    <2>3. ProfileParts(jp)[f] = Parsed(p.name)
      BY <1>2, <2>2, ProfilePartsAre
    <2>4. ProfileField(f, jp.content[f])
      BY <1>1, <1>2, <2>1, ProfileFieldIs, StrIs
    <2> QED
      BY <1>2, <2>3, <2>4, ParsedIs DEF Back
  <1>3. CASE f = "dwell_ms"
    <2>1. jp.content[f] = Num(p.dwell_ms)
      BY <1>3, ProfileNodesAre
    <2>2. Field(jp, "dwell_ms", 0) = p.dwell_ms
      BY <1>3, <2>1, FieldAt, NumIs
    <2>3. ProfileParts(jp)[f] = Parsed(p.dwell_ms)
      BY <1>3, <2>2, ProfilePartsAre
    <2>4. ProfileField(f, jp.content[f])
      BY <1>1, <1>3, <2>1, ProfileFieldIs, NumIs
    <2> QED
      BY <1>3, <2>3, <2>4, ParsedIs DEF Back
  <1>4. CASE f = "tap_max_ms"
    <2>1. jp.content[f] = Num(p.tap_max_ms)
      BY <1>4, ProfileNodesAre
    <2>2. Field(jp, "tap_max_ms", 0) = p.tap_max_ms
      BY <1>4, <2>1, FieldAt, NumIs
    <2>3. ProfileParts(jp)[f] = Parsed(p.tap_max_ms)
      BY <1>4, <2>2, ProfilePartsAre
    <2>4. ProfileField(f, jp.content[f])
      BY <1>1, <1>4, <2>1, ProfileFieldIs, NumIs
    <2> QED
      BY <1>4, <2>3, <2>4, ParsedIs DEF Back
  <1>5. CASE f = "overflow"
    <2>1. PICK s : s = ModeName(overflowNames, p.overflow)
      OBVIOUS
    <2>2. p.overflow \in Nat /\ OVERFLOW_CLAMP \in Nat /\ p.overflow <= OVERFLOW_CLAMP
      <3>1. p.overflow \in Nat
        BY <1>1, ByteIsNat
      <3>2. OVERFLOW_CLAMP \in Nat
        BY DEF OVERFLOW_CLAMP
      <3>3. p.overflow <= OVERFLOW_CLAMP
        BY DEF ModesNamed
      <3> QED
        BY <3>1, <3>2, <3>3
    <2>3. s \in Text /\ parseMode(overflowNames, s) = Parsed(p.overflow)
      BY <2>1, <2>2, ModeBack, ModeTables
    <2>4. jp.content[f] = Str(s)
      BY <1>5, <2>1, ProfileNodesAre
    <2>5. Field(jp, "overflow", <<>>) = s
      BY <1>5, <2>4, FieldAt, StrIs
    <2>6. ProfileParts(jp)[f] = Parsed(p.overflow)
      BY <1>5, <2>3, <2>5, ProfilePartsAre
    <2>7. ProfileField(f, jp.content[f])
      BY <1>5, <2>3, <2>4, ProfileFieldIs, StrIs
    <2> QED
      BY <1>5, <2>6, <2>7, ParsedIs DEF Back
  <1>6. CASE f = "ext_count"
    <2>1. jp.content[f] = Num(p.ext_count)
      BY <1>6, ProfileNodesAre
    <2>2. Field(jp, "ext_count", 0) = p.ext_count
      BY <1>6, <2>1, FieldAt, NumIs
    <2>3. ProfileParts(jp)[f] = Parsed(p.ext_count)
      BY <1>6, <2>2, ProfilePartsAre
    <2>4. ProfileField(f, jp.content[f])
      BY <1>1, <1>6, <2>1, ProfileFieldIs, NumIs
    <2> QED
      BY <1>6, <2>3, <2>4, ParsedIs DEF Back
  <1>7. CASE f = "brightness"
    <2>1. jp.content[f] = Num(p.brightness)
      BY <1>7, ProfileNodesAre
    <2>2. Field(jp, "brightness", 0) = p.brightness
      BY <1>7, <2>1, FieldAt, NumIs
    <2>3. ProfileParts(jp)[f] = Parsed(p.brightness)
      BY <1>7, <2>2, ProfilePartsAre
    <2>4. ProfileField(f, jp.content[f])
      BY <1>1, <1>7, <2>1, ProfileFieldIs, NumIs
    <2> QED
      BY <1>7, <2>3, <2>4, ParsedIs DEF Back
  <1>8. CASE f = "idle_mode"
    <2>1. PICK s : s = ModeName(idleModeNames, p.idle_mode)
      OBVIOUS
    <2>2. p.idle_mode \in Nat /\ IDLE_RAINBOW \in Nat /\ p.idle_mode <= IDLE_RAINBOW
      <3>1. p.idle_mode \in Nat
        BY <1>1, ByteIsNat
      <3>2. IDLE_RAINBOW \in Nat
        BY DEF IDLE_RAINBOW
      <3>3. p.idle_mode <= IDLE_RAINBOW
        BY DEF ModesNamed
      <3> QED
        BY <3>1, <3>2, <3>3
    <2>3. s \in Text /\ parseMode(idleModeNames, s) = Parsed(p.idle_mode)
      BY <2>1, <2>2, ModeBack, ModeTables
    <2>4. jp.content[f] = Str(s)
      BY <1>8, <2>1, ProfileNodesAre
    <2>5. Field(jp, "idle_mode", <<>>) = s
      BY <1>8, <2>4, FieldAt, StrIs
    <2>6. ProfileParts(jp)[f] = Parsed(p.idle_mode)
      BY <1>8, <2>3, <2>5, ProfilePartsAre
    <2>7. ProfileField(f, jp.content[f])
      BY <1>8, <2>3, <2>4, ProfileFieldIs, StrIs
    <2> QED
      BY <1>8, <2>6, <2>7, ParsedIs DEF Back
  <1>9. CASE f = "idle_color"
    <2>1. PICK s : s = formatRGB(p.idle_color)
      OBVIOUS
    <2>2. s \in Text /\ ParseRGB(s) = Parsed(p.idle_color)
      BY <1>1, <2>1, ColourBack
    <2>3. jp.content[f] = Str(s)
      BY <1>9, <2>1, ProfileNodesAre
    <2>4. Field(jp, "idle_color", <<>>) = s
      BY <1>9, <2>3, FieldAt, StrIs
    <2>5. ProfileParts(jp)[f] = Parsed(p.idle_color)
      BY <1>9, <2>2, <2>4, ProfilePartsAre
    <2>6. ProfileField(f, jp.content[f])
      BY <1>9, <2>2, <2>3, ProfileFieldIs, StrIs
    <2> QED
      BY <1>9, <2>5, <2>6, ParsedIs DEF Back
  <1>10. CASE f = "tap"
    <2>1. PICK jb : jb = bindingToJSON(p.tap)
      OBVIOUS
    <2>2. /\ IsBinding(jb) /\ Back(bindingFromJSON(jb), p.tap)
          /\ ValidBinding(p.tap) => bindingFromJSON(jb).ok
      BY <1>1, <2>1, BindingBack
    <2>3. jb.kind = "obj"
      BY <2>1 DEF bindingToJSON, Obj
    <2>4. jp.content[f] = jb
      BY <1>10, <2>1, ProfileNodesAre
    <2>5. Part(jp, "tap") = jb
      BY <1>10, <2>3, <2>4, FieldAt
    <2>6. ProfileParts(jp)[f] = bindingFromJSON(jb)
      BY <1>10, <2>5, ProfilePartsAre
    <2>7. ProfileField(f, jp.content[f])
      BY <1>10, <2>2, <2>4, ProfileFieldIs
    <2>8. ValidProfile(p) => ValidBinding(p.tap)
      BY DEF ValidProfile
    <2> QED
      BY <1>10, <2>2, <2>6, <2>7, <2>8
  <1>11. CASE f = "slots"
    <2>1. PICK nodes : nodes = NodesOf(bindingToJSON, p.slots)
      OBVIOUS
    <2>2. /\ nodes \in Seq(Range(nodes))
          /\ \A i \in DOMAIN nodes : IsBinding(nodes[i])
          /\ Back(Bindings(nodes), p.slots)
          /\ (\A i \in DOMAIN p.slots : ValidBinding(p.slots[i])) => Bindings(nodes).ok
      BY <1>1, <2>1, BindingsBack, Zenon
    <2>3. PICK node : node = NilOrList(nodes)
      OBVIOUS
    <2>4. (IF node.kind = "null" THEN <<>> ELSE node.content) = nodes /\ node.kind \in {"null", "list"}
      BY <2>2, <2>3, NilOrListBack, Zenon
    <2>5. jp.content[f] = node
      BY <1>11, <2>1, <2>3, ProfileNodesAre
    <2>6. SlotsField(jp) = nodes
      BY <1>11, <2>4, <2>5, FieldAt DEF SlotsField
    <2>7. ProfileParts(jp)[f] = Bindings(nodes)
      BY <1>11, <2>6, ProfilePartsAre
    <2>8. ProfileField(f, jp.content[f])
      BY <1>11, <2>2, <2>4, <2>5, ProfileFieldIs
    <2>9. ValidProfile(p) => \A i \in DOMAIN p.slots : ValidBinding(p.slots[i])
      BY DEF ValidProfile
    <2> QED
      BY <1>11, <2>2, <2>7, <2>8, <2>9
  <1> QED
    BY <1>2, <1>3, <1>4, <1>5, <1>6, <1>7, <1>8, <1>9, <1>10, <1>11 DEF ProfileFields

\* A profile comes back, or is refused; one that is valid is not refused.
LEMMA ProfileBack ==
    ASSUME NEW p \in Profile, ModesNamed(p)
    PROVE  /\ IsProfile(profileToJSON(p))
           /\ Back(profileFromJSON(profileToJSON(p)), p)
           /\ ValidProfile(p) => profileFromJSON(profileToJSON(p)).ok
  <1>1. PICK jp : jp = profileToJSON(p)
    OBVIOUS
  <1>2. jp.kind = "obj" /\ jp.content = ProfileNodes(p) /\ DOMAIN jp.content = ProfileFields
    <2>1. PICK nodes : nodes = ProfileNodes(p)
      OBVIOUS
    <2>2. jp = Obj(nodes) /\ DOMAIN nodes = ProfileFields
      BY <1>1, <2>1, ProfileNodesAre
    <2>3. jp.kind = "obj" /\ jp.content = nodes
      BY <2>2 DEF Obj
    <2> QED
      BY <2>1, <2>2, <2>3
  <1>3. \A f \in ProfileFields : /\ Back(ProfileParts(jp)[f], p[f])
                                 /\ ValidProfile(p) => ProfileParts(jp)[f].ok
                                 /\ ProfileField(f, jp.content[f])
    BY <1>2, ProfileFieldBack
  <1>4. IsProfile(jp)
    BY <1>2, <1>3, Zenon DEF IsProfile, IsStruct
  <1>5. p = [f \in ProfileFields |-> p[f]]
    BY ProfileIs
  <1>6. Back(profileFromJSON(jp), p)
    <2> SUFFICES ASSUME profileFromJSON(jp).ok PROVE profileFromJSON(jp).val = p
      BY DEF Back
    <2>1. PICK v : v = profileFromJSON(jp).val
      OBVIOUS
    <2>2. v = [f \in ProfileFields |-> v[f]]
      BY <2>1, ProfileEach
    <2>3. \A f \in ProfileFields : v[f] = p[f]
      BY <1>3, <2>1, ProfileEach DEF Back
    <2> QED
      BY <1>5, <2>1, <2>2, <2>3
  <1>7. ValidProfile(p) => profileFromJSON(jp).ok
    <2> SUFFICES ASSUME ValidProfile(p) PROVE profileFromJSON(jp).ok
      OBVIOUS
    <2>1. PICK parts : parts = ProfileParts(jp)
      OBVIOUS
    <2>2. \A f \in DOMAIN parts : parts[f].ok
      BY <1>3, <2>1, ProfilePartsAre
    <2> QED
      BY <2>1, <2>2, ProfileRead DEF Each, Parsed
  <1> QED
    BY <1>1, <1>4, <1>6, <1>7

-----------------------------------------------------------------------------
(* Configurations.                                                         *)

\* Parsing a list of profiles.
Profiles(nodes) == EachOf(profileFromJSON, nodes)
\* The profiles of a document, none where there is no such field.
ProfilesField(doc) == Field(doc, "profiles", <<>>)

\* A list of profiles that is parsed is parsed one by one.
LEMMA ProfilesEach ==
    ASSUME NEW nodes, NEW n \in Nat, DOMAIN nodes = 1 .. n, \A i \in 1 .. n : IsProfile(nodes[i]), Profiles(nodes).ok
    PROVE  /\ Profiles(nodes).val \in Seq(Profile) /\ DOMAIN Profiles(nodes).val = 1 .. n
           /\ \A i \in 1 .. n : /\ profileFromJSON(nodes[i]).ok
                                /\ Profiles(nodes).val[i] = profileFromJSON(nodes[i]).val
                                /\ ModesNamed(Profiles(nodes).val[i])
  <1> DEFINE parts == [i \in DOMAIN nodes |-> profileFromJSON(nodes[i])]
  <1>1. DOMAIN parts = 1 .. n /\ \A i \in 1 .. n : parts[i] = profileFromJSON(nodes[i])
    OBVIOUS
  <1>2. Profiles(nodes) = Each(parts)
    BY Zenon DEF Profiles, EachOf
  <1> HIDE DEF parts
  <1>3. \A i \in 1 .. n : parts[i].ok => parts[i].val \in Profile /\ ModesNamed(parts[i].val)
    BY <1>1, ProfileParsed DEF ModesNamed
  <1>4. /\ Each(parts).val \in Seq(Profile) /\ DOMAIN Each(parts).val = 1 .. n
        /\ \A i \in 1 .. n : parts[i].ok /\ Each(parts).val[i] = parts[i].val
    BY <1>1, <1>2, <1>3, EachSeq
  <1> QED
    BY <1>1, <1>2, <1>3, <1>4

\* It is a list of documents of profiles.
LEMMA ProfilesFieldShape ==
    ASSUME NEW doc, IsConfig(doc)
    PROVE  \E n \in Nat : DOMAIN ProfilesField(doc) = 1 .. n /\ \A i \in 1 .. n : IsProfile(ProfilesField(doc)[i])
  <1>1. CASE Present(doc, "profiles")
    <2>1. ConfigField("profiles", doc.content["profiles"]) /\ ~IsNull(doc.content["profiles"])
      BY <1>1, Zenon DEF IsConfig, IsStruct, Present, IsNull
    <2>2. PICK nodes : nodes = doc.content["profiles"].content
      OBVIOUS
    <2>3. nodes \in Seq(Range(nodes)) /\ \A i \in DOMAIN nodes : IsProfile(nodes[i])
      BY <2>1, <2>2, Zenon DEF ConfigField, IsList
    <2>4. ProfilesField(doc) = nodes
      BY <1>1, <2>2 DEF ProfilesField, Field
    <2>5. PICK n \in Nat : DOMAIN nodes = 1 .. n
      BY <2>3, LenProperties
    <2> QED
      BY <2>3, <2>4, <2>5
  <1>2. CASE ~Present(doc, "profiles")
    <2>1. ProfilesField(doc) = <<>>
      BY <1>2 DEF ProfilesField, Field
    <2>2. DOMAIN <<>> = 1 .. 0
      OBVIOUS
    <2> QED
      BY <2>1, <2>2
  <1> QED
    BY <1>1, <1>2

\* Configurations whose modes all have names, of the present format.
Named(c) == c.format_version = FORMAT_VERSION /\ \A i \in DOMAIN c.profiles : ModesNamed(c.profiles[i])

\* Profiles come back.
LEMMA ProfilesBack ==
    ASSUME NEW profiles \in Seq(Profile), \A i \in DOMAIN profiles : ModesNamed(profiles[i])
    PROVE  LET nodes == NodesOf(profileToJSON, profiles)
           IN  /\ nodes \in Seq(Range(nodes)) /\ DOMAIN nodes = DOMAIN profiles
               /\ \A i \in DOMAIN nodes : IsProfile(nodes[i]) /\ nodes[i] = profileToJSON(profiles[i])
               /\ Back(Profiles(nodes), profiles)
               /\ (\A i \in DOMAIN profiles : ValidProfile(profiles[i])) => Profiles(nodes).ok
  <1> DEFINE nodes == NodesOf(profileToJSON, profiles)
  <1>1. PICK n \in Nat : DOMAIN profiles = 1 .. n /\ n = Len(profiles)
    BY LenProperties
  <1>2. \A i \in 1 .. n : profiles[i] \in Profile
    BY <1>1, ElementOfSeq
  <1>3. nodes = [i \in 1 .. n |-> profileToJSON(profiles[i])]
    BY <1>1, Zenon DEF NodesOf
  <1> HIDE DEF nodes
  <1>4. DOMAIN nodes = 1 .. n /\ \A i \in 1 .. n : nodes[i] = profileToJSON(profiles[i])
    BY <1>3
  <1>5. nodes \in Seq(Range(nodes))
    <2>1. nodes = [i \in 1 .. n |-> nodes[i]]
      BY <1>3
    <2> QED
      BY <2>1, ListContent, Zenon
  <1>6. \A i \in 1 .. n : /\ IsProfile(nodes[i])
                          /\ Back(profileFromJSON(nodes[i]), profiles[i])
                          /\ ValidProfile(profiles[i]) => profileFromJSON(nodes[i]).ok
    BY <1>1, <1>2, <1>4, ProfileBack, Zenon
  <1> DEFINE parts == [i \in DOMAIN nodes |-> profileFromJSON(nodes[i])]
  <1>7. Profiles(nodes) = Each(parts)
    BY Zenon DEF Profiles, EachOf
  <1>8. DOMAIN parts = DOMAIN profiles /\ \A i \in DOMAIN profiles : parts[i] = profileFromJSON(nodes[i])
    BY <1>1, <1>4
  <1> HIDE DEF parts
  <1>9. /\ Back(Each(parts), profiles)
        /\ (\A i \in DOMAIN profiles : parts[i].ok) => Each(parts).ok
    <2>1. \A i \in DOMAIN profiles : Back(parts[i], profiles[i])
      BY <1>1, <1>6, <1>8
    <2> QED
      BY <1>8, <2>1, EachBack
  <1>10. (\A i \in DOMAIN profiles : ValidProfile(profiles[i])) => \A i \in DOMAIN profiles : parts[i].ok
    BY <1>1, <1>6, <1>8
  <1> QED
    BY <1>1, <1>4, <1>5, <1>6, <1>7, <1>9, <1>10, Zenon DEF nodes

\* The parts of a configuration, and the names its document has for them.
ConfigParts(doc) ==
    [format_version |-> Parsed(FormatOf(Field(doc, "format", 0))), active |-> Parsed(Field(doc, "active", 0)),
     profiles |-> Profiles(ProfilesField(doc))]

\* The fields of a configuration.
ConfigFields == {"format_version", "active", "profiles"}

\* How a configuration is read.
LEMMA ConfigRead ==
    ASSUME NEW doc
    PROVE  FromJSON(doc) = IF IsConfig(doc) THEN Each(ConfigParts(doc)) ELSE Refuse
  BY Zenon DEF FromJSON, ConfigParts, Profiles, ProfilesField

\* Its parts, one by one.
LEMMA ConfigPartsAre ==
    ASSUME NEW doc
    PROVE  /\ DOMAIN ConfigParts(doc) = ConfigFields
           /\ ConfigParts(doc)["format_version"] = Parsed(FormatOf(Field(doc, "format", 0)))
           /\ ConfigParts(doc)["active"] = Parsed(Field(doc, "active", 0))
           /\ ConfigParts(doc)["profiles"] = Profiles(ProfilesField(doc))
  BY DEF ConfigParts, ConfigFields

\* A configuration that is parsed has been parsed field by field.
LEMMA ConfigEach ==
    ASSUME NEW doc, FromJSON(doc).ok
    PROVE  /\ IsConfig(doc)
           /\ FromJSON(doc).val = [f \in ConfigFields |-> FromJSON(doc).val[f]]
           /\ \A f \in ConfigFields : /\ ConfigParts(doc)[f].ok
                                      /\ FromJSON(doc).val[f] = ConfigParts(doc)[f].val
  <1>1. PICK parts : parts = ConfigParts(doc)
    OBVIOUS
  <1>2. DOMAIN parts = ConfigFields
    BY <1>1, ConfigPartsAre
  <1>3. IsConfig(doc) /\ FromJSON(doc) = Each(parts)
    BY <1>1, ConfigRead DEF Refuse
  <1>4. \A f \in ConfigFields : parts[f].ok
    BY <1>2, <1>3 DEF Each, Refuse
  <1>5. FromJSON(doc).val = [f \in ConfigFields |-> parts[f].val]
    BY <1>2, <1>3, <1>4 DEF Each, Parsed
  <1> QED
    BY <1>1, <1>3, <1>4, <1>5

\* What is parsed is a configuration whose modes have names.
LEMMA ConfigParsed ==
    ASSUME NEW doc, FromJSON(doc).ok
    PROVE  /\ FromJSON(doc).val \in Config
           /\ \A i \in DOMAIN FromJSON(doc).val.profiles : ModesNamed(FromJSON(doc).val.profiles[i])
  <1>1. PICK c : c = FromJSON(doc).val
    OBVIOUS
  <1>2. /\ IsConfig(doc) /\ c = [f \in ConfigFields |-> c[f]]
        /\ \A f \in ConfigFields : ConfigParts(doc)[f].ok /\ c[f] = ConfigParts(doc)[f].val
    BY <1>1, ConfigEach
  <1>3. ASSUME NEW f \in {"format", "active"} PROVE Field(doc, f, 0) \in Byte
    <2>1. 0 \in Byte
      BY DEF Byte
    <2>2. Present(doc, f) => doc.content[f].content \in Byte
      <3> SUFFICES ASSUME Present(doc, f) PROVE doc.content[f].content \in Byte
        OBVIOUS
      <3>1. ConfigField(f, doc.content[f]) /\ ~IsNull(doc.content[f])
        BY <1>2, Zenon DEF IsConfig, IsStruct, Present, IsNull
      <3>2. IsNumber(doc.content[f], Byte)
        BY <3>1, <1>3 DEF ConfigField
      <3> QED
        BY <3>1, <3>2 DEF IsNumber
    <2> QED
      BY <2>1, <2>2 DEF Field
  <1>4. c["format_version"] \in Byte
    <2>1. c["format_version"] = FormatOf(Field(doc, "format", 0))
      <3>1. c["format_version"] = Parsed(FormatOf(Field(doc, "format", 0))).val
        BY <1>2, ConfigPartsAre DEF ConfigFields
      <3> QED
        BY <3>1, ParsedIs
    <2>2. FORMAT_VERSION \in Byte
      BY DEF Byte, FORMAT_VERSION
    <2> QED
      BY <1>3, <2>1, <2>2 DEF FormatOf
  <1>5. c["active"] \in Byte
    <2>1. c["active"] = Field(doc, "active", 0)
      <3>1. c["active"] = Parsed(Field(doc, "active", 0)).val
        BY <1>2, ConfigPartsAre DEF ConfigFields
      <3> QED
        BY <3>1, ParsedIs
    <2> QED
      BY <1>3, <2>1
  <1>6. c["profiles"] \in Seq(Profile) /\ \A i \in DOMAIN c["profiles"] : ModesNamed(c["profiles"][i])
    <2>1. PICK n \in Nat : DOMAIN ProfilesField(doc) = 1 .. n /\ \A i \in 1 .. n : IsProfile(ProfilesField(doc)[i])
      BY <1>2, ProfilesFieldShape
    <2>2. Profiles(ProfilesField(doc)).ok /\ c["profiles"] = Profiles(ProfilesField(doc)).val
      BY <1>2, ConfigPartsAre DEF ConfigFields
    <2> QED
      BY <2>1, <2>2, ProfilesEach
  <1>7. c = [format_version |-> c["format_version"], active |-> c["active"], profiles |-> c["profiles"]]
    BY <1>2 DEF ConfigFields
  <1>8. c \in Config
    BY <1>4, <1>5, <1>6, <1>7 DEF Config
  <1> QED
    BY <1>1, <1>6, <1>8

\* The fields of a configuration's document.
ConfigNodes(c) ==
    [format |-> Num(c.format_version), active |-> Num(c.active),
     profiles |-> NilOrList(NodesOf(profileToJSON, c.profiles))]

\* Those fields, one by one.
LEMMA ConfigNodesAre ==
    ASSUME NEW c
    PROVE  /\ ToJSON(c).kind = "obj" /\ ToJSON(c).content = ConfigNodes(c)
           /\ DOMAIN ConfigNodes(c) = {"format", "active", "profiles"}
           /\ ConfigNodes(c)["format"] = Num(c.format_version)
           /\ ConfigNodes(c)["active"] = Num(c.active)
           /\ ConfigNodes(c)["profiles"] = NilOrList(NodesOf(profileToJSON, c.profiles))
  <1>1. PICK nodes : nodes = ConfigNodes(c)
    OBVIOUS
  <1>2. ToJSON(c) = Obj(nodes)
    BY <1>1, Zenon DEF ToJSON, ConfigNodes
  <1>3. ToJSON(c).kind = "obj" /\ ToJSON(c).content = nodes
    BY <1>2 DEF Obj
  <1> QED
    BY <1>1, <1>3 DEF ConfigNodes

\* The fields of a configuration, and their types.
LEMMA ConfigIs ==
    ASSUME NEW c \in Config
    PROVE  /\ c.format_version \in Byte /\ c.active \in Byte /\ c.profiles \in Seq(Profile)
           /\ DOMAIN c = ConfigFields
           /\ c = [f \in ConfigFields |-> c[f]]
           /\ c = [format_version |-> c.format_version, active |-> c.active, profiles |-> c.profiles]
  BY DEF Config, ConfigFields

\* Which shape a field has.
LEMMA ConfigFieldIs ==
    ASSUME NEW f, NEW node
    PROVE  /\ f \in {"format", "active"} /\ IsNumber(node, Byte) => ConfigField(f, node)
           /\ f = "profiles" /\ node.kind = "null" => ConfigField(f, node)
           /\ (/\ f = "profiles" /\ node.kind = "list" /\ node.content \in Seq(Range(node.content))
               /\ \A i \in DOMAIN node.content : IsProfile(node.content[i])) => ConfigField(f, node)
  BY Zenon DEF ConfigField, IsList, IsNull

\* The name of a field in the document.
InJSON(f) == IF f = "format_version" THEN "format" ELSE f

\* A field of a configuration that is as it was rendered is read as it was.
LEMMA ConfigFieldBack ==
    ASSUME NEW c \in Config, Named(c), NEW doc, doc.kind = "obj", NEW f \in ConfigFields,
           InJSON(f) \in DOMAIN doc.content, doc.content[InJSON(f)] = ConfigNodes(c)[InJSON(f)]
    PROVE  /\ Back(ConfigParts(doc)[f], c[f])
           /\ Validate(c) => ConfigParts(doc)[f].ok
           /\ ConfigField(InJSON(f), doc.content[InJSON(f)])
  <1>1. c.format_version \in Byte /\ c.active \in Byte /\ c.profiles \in Seq(Profile)
    BY ConfigIs
  <1>2. CASE f = "format_version"
    <2>1. InJSON(f) = "format" /\ doc.content["format"] = Num(c.format_version)
      BY <1>2, ConfigNodesAre DEF InJSON
    <2>2. Field(doc, "format", 0) = c.format_version
      BY <2>1, FieldAt, NumIs
    <2>3. FormatOf(c.format_version) = c.format_version
      BY DEF FormatOf, Named
    <2>4. ConfigParts(doc)[f] = Parsed(c.format_version)
      BY <1>2, <2>2, <2>3, ConfigPartsAre
    <2>5. ConfigField("format", doc.content["format"])
      BY <1>1, <2>1, ConfigFieldIs, NumIs
    <2> QED
      BY <1>2, <2>1, <2>4, <2>5, ParsedIs DEF Back
  <1>3. CASE f = "active"
    <2>1. InJSON(f) = "active" /\ doc.content["active"] = Num(c.active)
      BY <1>3, ConfigNodesAre DEF InJSON
    <2>2. Field(doc, "active", 0) = c.active
      BY <2>1, FieldAt, NumIs
    <2>3. ConfigParts(doc)[f] = Parsed(c.active)
      BY <1>3, <2>2, ConfigPartsAre
    <2>4. ConfigField("active", doc.content["active"])
      BY <1>1, <2>1, ConfigFieldIs, NumIs
    <2> QED
      BY <1>3, <2>1, <2>3, <2>4, ParsedIs DEF Back
  <1>4. CASE f = "profiles"
    <2>1. PICK nodes : nodes = NodesOf(profileToJSON, c.profiles)
      OBVIOUS
    <2>2. /\ nodes \in Seq(Range(nodes))
          /\ \A i \in DOMAIN nodes : IsProfile(nodes[i])
          /\ Back(Profiles(nodes), c.profiles)
          /\ (\A i \in DOMAIN c.profiles : ValidProfile(c.profiles[i])) => Profiles(nodes).ok
      <3>1. \A i \in DOMAIN c.profiles : ModesNamed(c.profiles[i])
        BY DEF Named
      <3> QED
        BY <1>1, <2>1, <3>1, ProfilesBack, Zenon
    <2>3. PICK node : node = NilOrList(nodes)
      OBVIOUS
    <2>4. (IF node.kind = "null" THEN <<>> ELSE node.content) = nodes /\ node.kind \in {"null", "list"}
      BY <2>2, <2>3, NilOrListBack, Zenon
    <2>5. InJSON(f) = "profiles" /\ doc.content["profiles"] = node
      BY <1>4, <2>1, <2>3, ConfigNodesAre DEF InJSON
    <2>6. ProfilesField(doc) = nodes
      BY <1>4, <2>4, <2>5, FieldAt DEF ProfilesField
    <2>7. ConfigParts(doc)[f] = Profiles(nodes)
      BY <1>4, <2>6, ConfigPartsAre
    <2>8. ConfigField("profiles", node)
      BY <2>2, <2>4, ConfigFieldIs
    <2>9. Validate(c) => \A i \in DOMAIN c.profiles : ValidProfile(c.profiles[i])
      BY DEF Validate
    <2> QED
      BY <1>4, <2>2, <2>5, <2>7, <2>8, <2>9
  <1> QED
    BY <1>2, <1>3, <1>4 DEF ConfigFields

\* A configuration that is written as a document is read back as it was, or refused; one that
\* passes validation is not refused (json.go, ToJSON and FromJSON; keynames.go).
THEOREM ConfigBack ==
    ASSUME NEW c \in Config, Named(c)
    PROVE  /\ Back(FromJSON(ToJSON(c)), c)
           /\ Validate(c) => FromJSON(ToJSON(c)).ok
  <1>1. PICK doc : doc = ToJSON(c)
    OBVIOUS
  <1>2. /\ doc.kind = "obj" /\ doc.content = ConfigNodes(c)
        /\ DOMAIN doc.content = {"format", "active", "profiles"}
    BY <1>1, ConfigNodesAre
  <1>3. \A f \in ConfigFields : /\ Back(ConfigParts(doc)[f], c[f])
                                /\ Validate(c) => ConfigParts(doc)[f].ok
                                /\ ConfigField(InJSON(f), doc.content[InJSON(f)])
    <2>1. \A f \in ConfigFields : InJSON(f) \in DOMAIN doc.content
      BY <1>2 DEF InJSON, ConfigFields
    <2> QED
      BY <1>2, <2>1, ConfigFieldBack
  <1>4. IsConfig(doc)
    <2>1. \A g \in DOMAIN doc.content : \E f \in ConfigFields : g = InJSON(f)
      BY <1>2 DEF InJSON, ConfigFields
    <2>2. \A g \in DOMAIN doc.content : ConfigField(g, doc.content[g])
      BY <1>3, <2>1
    <2> QED
      BY <1>2, <2>2, Zenon DEF IsConfig, IsStruct
  <1>5. c = [f \in ConfigFields |-> c[f]]
    BY ConfigIs
  <1>6. Back(FromJSON(doc), c)
    <2> SUFFICES ASSUME FromJSON(doc).ok PROVE FromJSON(doc).val = c
      BY DEF Back
    <2>1. PICK v : v = FromJSON(doc).val
      OBVIOUS
    <2>2. v = [f \in ConfigFields |-> v[f]]
      BY <2>1, ConfigEach
    <2>3. \A f \in ConfigFields : v[f] = c[f]
      BY <1>3, <2>1, ConfigEach DEF Back
    <2> QED
      BY <1>5, <2>1, <2>2, <2>3
  <1>7. Validate(c) => FromJSON(doc).ok
    <2> SUFFICES ASSUME Validate(c) PROVE FromJSON(doc).ok
      OBVIOUS
    <2>1. PICK parts : parts = ConfigParts(doc)
      OBVIOUS
    <2>2. \A f \in DOMAIN parts : parts[f].ok
      BY <1>3, <2>1, ConfigPartsAre
    <2>3. Each(parts).ok
      BY <2>2 DEF Each, Parsed
    <2> QED
      BY <1>4, <2>1, <2>3, ConfigRead
  <1> QED
    BY <1>1, <1>6, <1>7

\* A document of one kind is not one of the other.
LEMMA KindsApart ==
    ASSUME NEW c, NEW p
    PROVE  /\ ~ProfileFromJSON(ToJSON(c)).ok
           /\ ~FromJSON(profileToJSON(p)).ok
           /\ ~ProfileFromJSON(NoNode).ok
  <1>1. ~IsProfile(ToJSON(c))
    <2>1. ToJSON(c).kind = "obj" /\ "format" \in DOMAIN ToJSON(c).content
      BY ConfigNodesAre
    <2>2. \A node : ~ProfileField("format", node)
      BY DEF ProfileField, IsList
    <2> QED
      BY <2>1, <2>2, Zenon DEF IsProfile, IsStruct, IsNull
  <1>2. ~IsConfig(profileToJSON(p))
    <2>1. PICK nodes : nodes = ProfileNodes(p)
      OBVIOUS
    <2>2. profileToJSON(p) = Obj(nodes) /\ "name" \in DOMAIN nodes
      BY <2>1, ProfileNodesAre DEF ProfileFields
    <2>3. profileToJSON(p).kind = "obj" /\ "name" \in DOMAIN profileToJSON(p).content
      BY <2>2 DEF Obj
    <2>4. \A node : ~ConfigField("name", node)
      BY DEF ConfigField, IsList
    <2> QED
      BY <2>3, <2>4, Zenon DEF IsConfig, IsStruct, IsNull
  <1>3. ~IsProfile(NoNode)
    BY DEF IsProfile, IsStruct, IsNull, NoNode
  <1> QED
    BY <1>1, <1>2, <1>3 DEF ProfileFromJSON, FromJSON, Refuse

-----------------------------------------------------------------------------
(* Paths.                                                                  *)

\* The nodes that a path leads to, segment by segment.
Leads(at, doc, path, n) == \A k \in 0 .. n : at[k] = IF k = 0 THEN doc ELSE child(at[k - 1], path[k])

\* There are such nodes.
LEMMA LeadsExist ==
    ASSUME NEW doc, NEW path, NEW m \in Nat
    PROVE  \E at : Leads(at, doc, path, m)
  <1> DEFINE T == {n \in Nat : \E at : Leads(at, doc, path, n)}
  <1>1. 0 \in T
    <2>1. Leads([k \in 0 .. 0 |-> doc], doc, path, 0)
      BY DEF Leads
    <2> QED
      BY <2>1
  <1>2. ASSUME NEW n \in T PROVE n + 1 \in T
    <2>1. PICK at : Leads(at, doc, path, n)
      OBVIOUS
    <2> DEFINE q == [k \in 0 .. n + 1 |-> IF k = n + 1 THEN child(at[n], path[n + 1]) ELSE at[k]]
    <2>2. ASSUME NEW k \in 0 .. n + 1 PROVE q[k] = IF k = 0 THEN doc ELSE child(q[k - 1], path[k])
      <3>1. CASE k = n + 1
        <4>1. k # 0 /\ k - 1 = n /\ q[n] = at[n] /\ q[k] = child(at[n], path[n + 1])
          BY <3>1
        <4> QED
          BY <3>1, <4>1, Zenon
      <3>2. CASE k # n + 1
        <4>1. k \in 0 .. n /\ q[k] = at[k] /\ (k # 0 => q[k - 1] = at[k - 1])
          BY <3>2
        <4>2. at[k] = IF k = 0 THEN doc ELSE child(at[k - 1], path[k])
          BY <2>1, <4>1, Zenon DEF Leads
        <4> QED
          BY <4>1, <4>2, Zenon
      <3> QED
        BY <3>1, <3>2
    <2> HIDE DEF q
    <2>3. Leads(q, doc, path, n + 1)
      BY <2>2, Zenon DEF Leads
    <2> QED
      BY <2>3
  <1> HIDE DEF T
  <1>3. T = Nat
    BY <1>1, <1>2, Induction DEF T
  <1> QED
    BY <1>3 DEF T

\* Along gives them.
LEMMA AlongLeads ==
    ASSUME NEW doc, NEW path \in Seq(Segment)
    PROVE  Leads(Along(doc, path), doc, path, Len(path))
  <1>1. PICK n \in Nat : n = Len(path)
    OBVIOUS
  <1> DEFINE Right(g) == g = [k \in 0 .. Len(path) |-> IF k = 0 THEN doc ELSE child(g[k - 1], path[k])]
             c == CHOOSE g : Right(g)
  <1>2. \E g : Right(g)
    <2>1. PICK at : Leads(at, doc, path, n)
      BY LeadsExist
    <2> DEFINE g == [k \in 0 .. n |-> at[k]]
    <2>2. \A k \in 0 .. n : g[k] = IF k = 0 THEN doc ELSE child(g[k - 1], path[k])
      <3>1. \A k \in 0 .. n : k # 0 => k - 1 \in 0 .. n
        OBVIOUS
      <3>2. \A k \in 0 .. n : g[k] = at[k]
        OBVIOUS
      <3> QED
        BY <2>1, <3>1, <3>2, Zenon DEF Leads
    <2>3. g = [k \in 0 .. n |-> IF k = 0 THEN doc ELSE child(g[k - 1], path[k])]
      <3>1. g = [k \in 0 .. n |-> g[k]]
        OBVIOUS
      <3> HIDE DEF g
      <3> QED
        BY <2>2, <3>1, Zenon
    <2> QED
      BY <1>1, <2>3, Zenon
  <1>3. Right(c)
    BY <1>2, Zenon
  <1>4. Along(doc, path) = c
    BY Zenon DEF Along
  <1> HIDE DEF c
  <1>5. Leads(c, doc, path, Len(path))
    BY <1>3, Zenon DEF Leads
  <1> QED
    BY <1>4, <1>5

\* Nothing is below no node.
LEMMA NothingBelow ==
    ASSUME NEW node, NEW seg, ~IsNode(node)
    PROVE  child(node, seg) = NoNode /\ ~IsNode(child(node, seg))
  BY DEF child, IsNode, NoNode

\* Where a path leads to a node, so does each part of it.
LEMMA NodesAlong ==
    ASSUME NEW at, NEW doc, NEW path, NEW n \in Nat, Leads(at, doc, path, n), IsNode(at[n])
    PROVE  \A k \in 0 .. n : IsNode(at[k])
  <1> DEFINE T == {j \in Nat : j <= n => IsNode(at[n - j])}
  <1>1. 0 \in T
    OBVIOUS
  <1>2. ASSUME NEW j \in T PROVE j + 1 \in T
    <2> SUFFICES ASSUME j + 1 <= n PROVE IsNode(at[n - (j + 1)])
      OBVIOUS
    <2>1. PICK k \in 0 .. n : k = n - j /\ k # 0 /\ k - 1 = n - (j + 1)
      OBVIOUS
    <2>2. IsNode(at[k])
      BY <2>1
    <2>3. at[k] = child(at[k - 1], path[k])
      BY <2>1 DEF Leads
    <2> QED
      BY <2>1, <2>2, <2>3, NothingBelow
  <1> HIDE DEF T
  <1>3. T = Nat
    BY <1>1, <1>2, Induction DEF T
  <1>4. ASSUME NEW k \in 0 .. n PROVE IsNode(at[k])
    <2>1. n - k \in T /\ n - k <= n /\ n - (n - k) = k
      BY <1>3
    <2> QED
      BY <2>1 DEF T
  <1> QED
    BY <1>4

\* The nodes along a path with what is below them replaced, from its end back.
Edited(at, path, new, n, k, above) == IF k = n THEN new ELSE Replaced(at[k], path[k + 1], above)
\* They exist as far as j segments back from the end.
BackFrom(e, at, path, new, n, j) == \A k \in 0 .. n : k >= n - j => e[k] = Edited(at, path, new, n, k, e[k + 1])

\* They exist along the whole path.
EditsOf(e, at, path, new, n) == \A k \in 0 .. n : e[k] = Edited(at, path, new, n, k, e[k + 1])

\* There are such nodes.
LEMMA EditsExist ==
    ASSUME NEW at, NEW path, NEW new, NEW n \in Nat
    PROVE  \E e : EditsOf(e, at, path, new, n)
  <1> DEFINE T == {j \in Nat : \E e : BackFrom(e, at, path, new, n, j)}
  <1>1. 0 \in T
    <2> DEFINE q == [k \in 0 .. n |-> new]
    <2>1. ASSUME NEW k \in 0 .. n, k >= n - 0 PROVE q[k] = Edited(at, path, new, n, k, q[k + 1])
      BY <2>1 DEF Edited
    <2> HIDE DEF q
    <2>2. BackFrom(q, at, path, new, n, 0)
      BY <2>1 DEF BackFrom
    <2> QED
      BY <2>2
  <1>2. ASSUME NEW j \in T PROVE j + 1 \in T
    <2>1. PICK e : BackFrom(e, at, path, new, n, j)
      OBVIOUS
    <2>2. PICK m : m = n - (j + 1)
      OBVIOUS
    <2>3. m \in Int /\ m < n
      BY <2>2
    <2> DEFINE q == [k \in 0 .. n |-> IF k = m THEN Replaced(at[m], path[m + 1], e[m + 1]) ELSE e[k]]
    <2>4. ASSUME NEW k \in 0 .. n, k >= m PROVE q[k] = Edited(at, path, new, n, k, q[k + 1])
      <3>1. CASE k = m
        <4>1. m + 1 \in 0 .. n /\ m + 1 # m /\ k # n
          BY <2>3, <3>1
        <4>2. q[k] = Replaced(at[m], path[m + 1], e[m + 1]) /\ q[m + 1] = e[m + 1]
          BY <3>1, <4>1
        <4> HIDE DEF q
        <4> QED
          BY <3>1, <4>1, <4>2 DEF Edited
      <3>2. CASE k # m
        <4>1. k >= n - j
          BY <2>2, <2>4, <3>2
        <4>2. e[k] = Edited(at, path, new, n, k, e[k + 1])
          BY <2>1, <4>1 DEF BackFrom
        <4>3. q[k] = e[k]
          BY <3>2
        <4>4. k # n => q[k + 1] = e[k + 1]
          <5>1. k # n => k + 1 \in 0 .. n /\ k + 1 # m
            BY <2>3, <2>4
          <5> QED
            BY <5>1
        <4> HIDE DEF q
        <4> QED
          BY <4>2, <4>3, <4>4 DEF Edited
      <3> QED
        BY <3>1, <3>2
    <2> HIDE DEF q
    <2>5. BackFrom(q, at, path, new, n, j + 1)
      BY <2>2, <2>4 DEF BackFrom
    <2> QED
      BY <2>5
  <1> HIDE DEF T
  <1>3. T = Nat
    BY <1>1, <1>2, Induction DEF T
  <1>4. PICK e : BackFrom(e, at, path, new, n, n)
    BY <1>3 DEF T
  <1>5. EditsOf(e, at, path, new, n)
    BY <1>4 DEF BackFrom, EditsOf
  <1> QED
    BY <1>5

\* What is put at the end of a path.
NewAt(at, value, n) == IF IsNode(at[n]) THEN coerce(value, at[n]) ELSE NoNode

\* The function by which set replaces them.
EditsChosen(at, path, new, n) ==
    CHOOSE g : g = [k \in 0 .. n |-> IF k = n THEN new ELSE Replaced(at[k], path[k + 1], g[k + 1])]

\* It is one of them.
LEMMA EditsChosenAre ==
    ASSUME NEW at, NEW path, NEW new, NEW n \in Nat
    PROVE  EditsOf(EditsChosen(at, path, new, n), at, path, new, n)
  <1> DEFINE Right(g) == g = [k \in 0 .. n |-> IF k = n THEN new ELSE Replaced(at[k], path[k + 1], g[k + 1])]
             c == CHOOSE g : Right(g)
  <1>2. \E g : Right(g)
    <2>1. PICK e : EditsOf(e, at, path, new, n)
      BY EditsExist
    <2> DEFINE g == [k \in 0 .. n |-> e[k]]
    <2>2. \A k \in 0 .. n : g[k] = IF k = n THEN new ELSE Replaced(at[k], path[k + 1], g[k + 1])
      <3>1. \A k \in 0 .. n : k # n => k + 1 \in 0 .. n
        OBVIOUS
      <3>2. \A k \in 0 .. n : g[k] = e[k]
        OBVIOUS
      <3> HIDE DEF g
      <3> QED
        BY <2>1, <3>1, <3>2, Zenon DEF EditsOf, Edited
    <2>3. g = [k \in 0 .. n |-> IF k = n THEN new ELSE Replaced(at[k], path[k + 1], g[k + 1])]
      <3>1. g = [k \in 0 .. n |-> g[k]]
        OBVIOUS
      <3> HIDE DEF g
      <3> QED
        BY <2>2, <3>1, Zenon
    <2> QED
      BY <2>3, Zenon
  <1>3. Right(c)
    BY <1>2, Zenon
  <1>4. EditsChosen(at, path, new, n) = c
    BY Zenon DEF EditsChosen
  <1> HIDE DEF c
  <1>5. EditsOf(c, at, path, new, n)
    BY <1>3, Zenon DEF EditsOf, Edited
  <1> QED
    BY <1>4, <1>5

\* What set gives is the first of them.
LEMMA SetEdits ==
    ASSUME NEW doc, NEW path \in Seq(Segment), NEW value, NEW at, at = Along(doc, path),
           NEW n, n = Len(path), NEW new, new = NewAt(at, value, n)
    PROVE  \E e : /\ EditsOf(e, at, path, new, n)
                  /\ set(doc, path, value) = IF IsNode(new) THEN e[0] ELSE NoNode
  <1>1. n \in Nat
    OBVIOUS
  <1>2. LET a == Along(doc, path)
            m == Len(path)
            v == NewAt(a, value, m)
        IN  set(doc, path, value) = IF IsNode(v) THEN EditsChosen(a, path, v, m)[0] ELSE NoNode
    BY Zenon DEF set, NewAt, EditsChosen
  <1>3. set(doc, path, value) = IF IsNode(new) THEN EditsChosen(at, path, new, n)[0] ELSE NoNode
    BY <1>2
  <1>4. EditsOf(EditsChosen(at, path, new, n), at, path, new, n)
    BY <1>1, EditsChosenAre
  <1> QED
    BY <1>3, <1>4

\* An edit that is made: the nodes along the path, and those that take their places.
EditMade(at, e, doc, path, value) ==
    /\ at[0] = doc
    /\ \A k \in 1 .. Len(path) : at[k] = child(at[k - 1], path[k]) /\ IsNode(at[k])
    /\ \A k \in 0 .. Len(path) - 1 : e[k] = Replaced(at[k], path[k + 1], e[k + 1])
    /\ e[Len(path)] = coerce(value, at[Len(path)])
    /\ IsNode(e[Len(path)])
    /\ set(doc, path, value) = e[0]

\* An edit that set makes is such an edit.
LEMMA SetUnrolled ==
    ASSUME NEW doc, NEW path \in Seq(Segment), NEW value, IsNode(set(doc, path, value))
    PROVE  \E at, e : EditMade(at, e, doc, path, value)
  <1>1. PICK at : at = Along(doc, path)
    OBVIOUS
  <1>2. PICK n \in Nat : n = Len(path)
    OBVIOUS
  <1>3. PICK new : new = NewAt(at, value, n)
    OBVIOUS
  <1>4. PICK e : /\ EditsOf(e, at, path, new, n)
                 /\ set(doc, path, value) = IF IsNode(new) THEN e[0] ELSE NoNode
    BY <1>1, <1>2, <1>3, SetEdits
  <1>5. ~IsNode(NoNode)
    BY DEF IsNode, NoNode
  <1>6. IsNode(new) /\ set(doc, path, value) = e[0]
    BY <1>4, <1>5
  <1>7. IsNode(at[n]) /\ new = coerce(value, at[n])
    BY <1>3, <1>5, <1>6 DEF NewAt
  <1>8. Leads(at, doc, path, n)
    BY <1>1, <1>2, AlongLeads
  <1>9. \A k \in 0 .. n : IsNode(at[k])
    BY <1>7, <1>8, NodesAlong
  <1>10. at[0] = doc
    BY <1>8 DEF Leads
  <1>11. ASSUME NEW k \in 1 .. n PROVE at[k] = child(at[k - 1], path[k]) /\ IsNode(at[k])
    <2>1. k \in 0 .. n /\ k # 0
      OBVIOUS
    <2> QED
      BY <1>8, <1>9, <2>1 DEF Leads
  <1>12. ASSUME NEW k \in 0 .. n - 1 PROVE e[k] = Replaced(at[k], path[k + 1], e[k + 1])
    <2>1. k \in 0 .. n /\ k # n
      OBVIOUS
    <2>2. e[k] = Edited(at, path, new, n, k, e[k + 1])
      BY <1>4, <2>1 DEF EditsOf
    <2> QED
      BY <2>1, <2>2 DEF Edited
  <1>13. e[n] = new
    <2>1. n \in 0 .. n
      OBVIOUS
    <2>2. e[n] = Edited(at, path, new, n, n, e[n + 1])
      BY <1>4, <2>1 DEF EditsOf
    <2> QED
      BY <2>2 DEF Edited
  <1> QED
    BY <1>2, <1>6, <1>7, <1>10, <1>11, <1>12, <1>13 DEF EditMade

-----------------------------------------------------------------------------
(* Documents.                                                              *)

\* A node whose parts are among those given; a set that has the parts of its nodes; a document.
Made(x, S) ==
    /\ x = [kind |-> x.kind, content |-> x.content]
    /\ x.kind = "obj" => /\ x.content = [f \in DOMAIN x.content |-> x.content[f]]
                         /\ \A f \in DOMAIN x.content : x.content[f] \in S
    /\ x.kind = "list" => /\ x.content = [i \in DOMAIN x.content |-> x.content[i]]
                          /\ DOMAIN x.content = 1 .. Len(x.content)
                          /\ \A i \in DOMAIN x.content : x.content[i] \in S
\* A set that holds the parts of all its nodes.
Closed(S) == \A x \in S : Made(x, S)
\* A document: a node with all that is below it.
Tree(node) == \E S : node \in S /\ Closed(S)

\* More nodes may be given.
LEMMA MadeOfMore ==
    ASSUME NEW x, NEW S, NEW U, S \subseteq U, Made(x, S)
    PROVE  Made(x, U)
  BY DEF Made

\* A text, a number and null are documents.
LEMMA LeafTree ==
    ASSUME NEW s
    PROVE  Tree(Str(s)) /\ Tree(Num(s)) /\ Tree(Null)
  <1>1. ASSUME NEW node, node = [kind |-> node.kind, content |-> node.content], node.kind \notin {"obj", "list"}
        PROVE  Tree(node)
    <2>1. Closed({node})
      BY <1>1 DEF Closed, Made
    <2>2. node \in {node}
      OBVIOUS
    <2> QED
      BY <2>1, <2>2 DEF Tree
  <1>2. /\ Str(s) = [kind |-> Str(s).kind, content |-> Str(s).content] /\ Str(s).kind = "str"
        /\ Num(s) = [kind |-> Num(s).kind, content |-> Num(s).content] /\ Num(s).kind = "num"
        /\ Null = [kind |-> Null.kind, content |-> Null.content] /\ Null.kind = "null"
    BY DEF Str, Num, Null
  <1>3. Tree(Str(s))
    BY <1>1, <1>2
  <1>4. Tree(Num(s))
    BY <1>1, <1>2
  <1>5. Tree(Null)
    BY <1>1, <1>2
  <1> QED
    BY <1>3, <1>4, <1>5

\* Several documents, side by side.
LEMMA Forest ==
    ASSUME NEW parts, \A i \in DOMAIN parts : Tree(parts[i])
    PROVE  \E S : Closed(S) /\ \A i \in DOMAIN parts : parts[i] \in S
  <1> DEFINE T == [i \in DOMAIN parts |-> CHOOSE U : parts[i] \in U /\ Closed(U)]
             S == UNION {T[i] : i \in DOMAIN parts}
  <1>1. \A i \in DOMAIN parts : parts[i] \in T[i] /\ Closed(T[i])
    BY Zenon DEF Tree
  <1> HIDE DEF T
  <1>2. \A i \in DOMAIN parts : T[i] \subseteq S
    OBVIOUS
  <1>3. \A x \in S : \E i \in DOMAIN parts : x \in T[i]
    OBVIOUS
  <1> HIDE DEF S
  <1>4. ASSUME NEW x \in S PROVE Made(x, S)
    <2>1. PICK i \in DOMAIN parts : x \in T[i]
      BY <1>3
    <2>2. Made(x, T[i]) /\ T[i] \subseteq S
      BY <1>1, <1>2, <2>1 DEF Closed
    <2> QED
      BY <2>2, MadeOfMore
  <1>5. Closed(S)
    BY <1>4 DEF Closed
  <1>6. \A i \in DOMAIN parts : parts[i] \in S
    BY <1>1, <1>2
  <1> QED
    BY <1>5, <1>6

\* A node above documents is one.
LEMMA TreeAbove ==
    ASSUME NEW node, NEW S, Closed(S), Made(node, S)
    PROVE  Tree(node)
  <1>1. \A x \in S \cup {node} : Made(x, S \cup {node})
    <2>1. \A x \in S \cup {node} : Made(x, S)
      BY DEF Closed
    <2>2. S \subseteq S \cup {node}
      OBVIOUS
    <2> QED
      BY <2>1, <2>2, MadeOfMore
  <1>2. node \in S \cup {node} /\ Closed(S \cup {node})
    BY <1>1 DEF Closed
  <1> QED
    BY <1>2 DEF Tree

\* An object of documents is one.
LEMMA ObjTree ==
    ASSUME NEW fields, fields = [f \in DOMAIN fields |-> fields[f]], \A f \in DOMAIN fields : Tree(fields[f])
    PROVE  Tree(Obj(fields))
  <1>1. PICK S : Closed(S) /\ \A f \in DOMAIN fields : fields[f] \in S
    BY Forest
  <1>2. Obj(fields) = [kind |-> Obj(fields).kind, content |-> Obj(fields).content]
        /\ Obj(fields).kind = "obj" /\ Obj(fields).content = fields
    BY DEF Obj
  <1>3. Made(Obj(fields), S)
    BY <1>1, <1>2 DEF Made
  <1> QED
    BY <1>1, <1>3, TreeAbove

\* A list of documents is one.
LEMMA ListTree ==
    ASSUME NEW nodes, nodes \in Seq(Range(nodes)), \A i \in DOMAIN nodes : Tree(nodes[i])
    PROVE  Tree(List(nodes)) /\ Tree(NilOrList(nodes))
  <1>1. PICK S : Closed(S) /\ \A i \in DOMAIN nodes : nodes[i] \in S
    BY Forest
  <1>2. PICK node : node = List(nodes)
    OBVIOUS
  <1>3. node = [kind |-> node.kind, content |-> node.content] /\ node.kind = "list" /\ node.content = nodes
    BY <1>2 DEF List
  <1>4. nodes = [i \in DOMAIN nodes |-> nodes[i]] /\ DOMAIN nodes = 1 .. Len(nodes)
    BY LenProperties
  <1>5. Made(node, S)
    BY <1>1, <1>3, <1>4 DEF Made
  <1>6. Tree(List(nodes))
    BY <1>1, <1>2, <1>5, TreeAbove
  <1> QED
    BY <1>6, LeafTree DEF NilOrList

\* What is rendered is a document.
LEMMA StepTree ==
    ASSUME NEW s \in Step
    PROVE  Tree(stepToJSON(s))
  <1>1. CASE s.type = STEP_KEY /\ s.mods \in Byte
    <2>1. PICK key, mods : key = KeycodeName(s.keycode) /\ mods = ModNames(s.mods)
      OBVIOUS
    <2>2. stepToJSON(s) = Obj(KeyFields(key, mods))
      BY <1>1, <2>1, StepTypes, Zenon DEF stepToJSON
    <2>3. mods \in Seq(Text)
      BY <1>1, <2>1, ModsBack
    <2>4. PICK nodes : nodes = NodesOf(Str, mods)
      OBVIOUS
    <2>5. nodes \in Seq(Range(nodes)) /\ \A i \in DOMAIN nodes : \E text : nodes[i] = Str(text)
      BY <2>3, <2>4, TextsBack, Zenon
    <2>6. Tree(List(nodes))
      BY <2>5, LeafTree, ListTree
    <2>7. PICK fields : fields = KeyFields(key, mods)
      OBVIOUS
    <2>8. fields = IF mods = <<>> THEN [key |-> Str(key)] ELSE [key |-> Str(key), mods |-> List(nodes)]
      BY <2>4, <2>7, Zenon DEF KeyFields
    <2>9. fields = [f \in DOMAIN fields |-> fields[f]] /\ \A f \in DOMAIN fields : fields[f] \in {Str(key), List(nodes)}
      BY <2>8
    <2>10. \A f \in DOMAIN fields : Tree(fields[f])
      BY <2>6, <2>9, LeafTree
    <2> QED
      BY <2>2, <2>7, <2>9, <2>10, ObjTree
  <1>2. CASE s.type = STEP_TEXT
    <2>1. PICK fields : fields = IF s.text = <<>> THEN <<>> ELSE [text |-> Str(s.text)]
      OBVIOUS
    <2>2. stepToJSON(s) = Obj(fields)
      BY <1>2, <2>1, StepTypes, Zenon DEF stepToJSON
    <2>3. fields = [f \in DOMAIN fields |-> fields[f]] /\ \A f \in DOMAIN fields : fields[f] = Str(s.text)
      BY <2>1
    <2>4. \A f \in DOMAIN fields : Tree(fields[f])
      BY <2>3, LeafTree
    <2> QED
      BY <2>2, <2>3, <2>4, ObjTree
  <1>3. CASE s.type = STEP_CONSUMER
    <2>1. PICK fields : fields = [consumer |-> Str(ConsumerName(s.consumer))]
      OBVIOUS
    <2>2. stepToJSON(s) = Obj(fields)
      BY <1>3, <2>1, StepTypes, Zenon DEF stepToJSON
    <2>3. fields = [f \in DOMAIN fields |-> fields[f]] /\ \A f \in DOMAIN fields : fields[f] = Str(ConsumerName(s.consumer))
      BY <2>1
    <2>4. \A f \in DOMAIN fields : Tree(fields[f])
      BY <2>3, LeafTree
    <2> QED
      BY <2>2, <2>3, <2>4, ObjTree
  <1>4. CASE s.type = STEP_DELAY
    <2>1. PICK fields : fields = [delay_ms |-> Num(s.delay_ms)]
      OBVIOUS
    <2>2. stepToJSON(s) = Obj(fields)
      BY <1>4, <2>1, StepTypes, Zenon DEF stepToJSON, DelayField
    <2>3. fields = [f \in DOMAIN fields |-> fields[f]] /\ \A f \in DOMAIN fields : fields[f] = Num(s.delay_ms)
      BY <2>1
    <2>4. \A f \in DOMAIN fields : Tree(fields[f])
      BY <2>3, LeafTree
    <2> QED
      BY <2>2, <2>3, <2>4, ObjTree
  <1> QED
    BY <1>1, <1>2, <1>3, <1>4, StepKinds

\* So is a binding.
LEMMA BindingTree ==
    ASSUME NEW b \in Binding
    PROVE  Tree(bindingToJSON(b))
  <1>1. b.steps \in Seq(Step)
    BY DEF Binding
  <1>2. PICK nodes, text : nodes = NodesOf(stepToJSON, b.steps) /\ text = formatRGB(b.color)
    OBVIOUS
  <1>3. nodes \in Seq(Range(nodes)) /\ DOMAIN nodes = DOMAIN b.steps
    BY <1>1, <1>2, StepsBack, Zenon
  <1>4. \A i \in DOMAIN nodes : nodes[i] = stepToJSON(b.steps[i])
    BY <1>2, Zenon DEF NodesOf
  <1>5. \A i \in DOMAIN b.steps : b.steps[i] \in Step
    BY <1>1, ElementOfSeq, LenProperties
  <1>6. Tree(List(nodes))
    BY <1>3, <1>4, <1>5, StepTree, ListTree
  <1>7. PICK fields : fields = [color |-> Str(text), steps |-> List(nodes)]
    OBVIOUS
  <1>8. bindingToJSON(b) = Obj(fields)
    BY <1>2, <1>7, Zenon DEF bindingToJSON
  <1>9. fields = [f \in DOMAIN fields |-> fields[f]] /\ \A f \in DOMAIN fields : fields[f] \in {Str(text), List(nodes)}
    BY <1>7
  <1>10. \A f \in DOMAIN fields : Tree(fields[f])
    BY <1>6, <1>9, LeafTree
  <1> QED
    BY <1>8, <1>9, <1>10, ObjTree

\* So is a profile.
LEMMA ProfileTree ==
    ASSUME NEW p \in Profile
    PROVE  Tree(profileToJSON(p))
  <1>1. p.tap \in Binding /\ p.slots \in Seq(Binding)
    BY ProfileIs
  <1>2. PICK nodes : nodes = NodesOf(bindingToJSON, p.slots)
    OBVIOUS
  <1>3. /\ nodes \in Seq(Range(nodes)) /\ DOMAIN nodes = DOMAIN p.slots
        /\ \A i \in DOMAIN nodes : nodes[i] = bindingToJSON(p.slots[i])
    BY <1>1, <1>2, BindingsBack, Zenon
  <1>4. \A i \in DOMAIN p.slots : p.slots[i] \in Binding
    BY <1>1, ElementOfSeq, LenProperties
  <1>5. Tree(NilOrList(nodes))
    BY <1>3, <1>4, BindingTree, ListTree
  <1>6. PICK fields : fields = ProfileNodes(p)
    OBVIOUS
  <1>7. profileToJSON(p) = Obj(fields) /\ DOMAIN fields = ProfileFields
    BY <1>6, ProfileNodesAre
  <1>8. fields = [f \in DOMAIN fields |-> fields[f]]
    BY <1>6 DEF ProfileNodes
  <1>9. ASSUME NEW f \in ProfileFields PROVE Tree(fields[f])
    <2>1. CASE f = "tap"
      <3>1. fields[f] = bindingToJSON(p.tap)
        BY <1>6, <2>1, ProfileNodesAre
      <3> QED
        BY <1>1, <3>1, BindingTree
    <2>2. CASE f = "slots"
      <3>1. fields[f] = NilOrList(nodes)
        BY <1>2, <1>6, <2>2, ProfileNodesAre
      <3> QED
        BY <1>5, <3>1
    <2>3. CASE f \notin {"tap", "slots"}
      <3>1. \E s : fields[f] = Str(s) \/ fields[f] = Num(s)
        <4>1. CASE f \in {"name", "overflow", "idle_mode", "idle_color"}
          <5>1. /\ fields["name"] = Str(p.name)
                /\ fields["overflow"] = Str(ModeName(overflowNames, p.overflow))
                /\ fields["idle_mode"] = Str(ModeName(idleModeNames, p.idle_mode))
                /\ fields["idle_color"] = Str(formatRGB(p.idle_color))
            BY <1>6, ProfileNodesAre, Zenon
          <5> QED
            BY <4>1, <5>1, Zenon
        <4>2. CASE f \in {"dwell_ms", "tap_max_ms", "ext_count", "brightness"}
          <5>1. /\ fields["dwell_ms"] = Num(p.dwell_ms) /\ fields["tap_max_ms"] = Num(p.tap_max_ms)
                /\ fields["ext_count"] = Num(p.ext_count) /\ fields["brightness"] = Num(p.brightness)
            BY <1>6, ProfileNodesAre, Zenon
          <5> QED
            BY <4>2, <5>1, Zenon
        <4> QED
          BY <2>3, <4>1, <4>2 DEF ProfileFields
      <3> QED
        BY <3>1, LeafTree
    <2> QED
      BY <2>1, <2>2, <2>3
  <1> QED
    BY <1>7, <1>8, <1>9, ObjTree

\* So is a configuration.
LEMMA ConfigTree ==
    ASSUME NEW c \in Config, Named(c)
    PROVE  Tree(ToJSON(c))
  <1>1. c.profiles \in Seq(Profile) /\ \A i \in DOMAIN c.profiles : ModesNamed(c.profiles[i])
    BY ConfigIs DEF Named
  <1>2. PICK nodes : nodes = NodesOf(profileToJSON, c.profiles)
    OBVIOUS
  <1>3. /\ nodes \in Seq(Range(nodes)) /\ DOMAIN nodes = DOMAIN c.profiles
        /\ \A i \in DOMAIN nodes : nodes[i] = profileToJSON(c.profiles[i])
    BY <1>1, <1>2, ProfilesBack, Zenon
  <1>4. \A i \in DOMAIN c.profiles : c.profiles[i] \in Profile
    BY <1>1, ElementOfSeq, LenProperties
  <1>5. Tree(NilOrList(nodes))
    BY <1>3, <1>4, ProfileTree, ListTree
  <1>6. PICK fields : fields = ConfigNodes(c)
    OBVIOUS
  <1>7. ToJSON(c) = Obj(fields)
    BY <1>6, Zenon DEF ToJSON, ConfigNodes
  <1>8. fields = [f \in DOMAIN fields |-> fields[f]]
    BY <1>6 DEF ConfigNodes
  <1>9. ASSUME NEW f \in DOMAIN fields PROVE Tree(fields[f])
    <2>1. CASE f = "profiles"
      <3>1. fields[f] = NilOrList(nodes)
        BY <1>2, <1>6, <2>1, ConfigNodesAre
      <3> QED
        BY <1>5, <3>1
    <2>2. CASE f # "profiles"
      <3>1. \E s : fields[f] = Num(s)
        BY <1>6, <1>9, <2>2, ConfigNodesAre
      <3> QED
        BY <3>1, LeafTree
    <2> QED
      BY <2>1, <2>2
  <1> QED
    BY <1>7, <1>8, <1>9, ObjTree

-----------------------------------------------------------------------------
(* Setting what was got.                                                   *)

\* A child belongs to its document, and putting it where it is changes nothing.
LEMMA ChildWithin ==
    ASSUME NEW S, Closed(S), NEW node \in S, NEW seg \in Segment, IsNode(child(node, seg))
    PROVE  child(node, seg) \in S /\ Replaced(node, seg, child(node, seg)) = node
  <1>1. Made(node, S)
    BY DEF Closed
  <1>2. CASE node.kind = "obj" /\ seg.name \in DOMAIN node.content
    <2>1. child(node, seg) = node.content[seg.name]
      BY <1>2 DEF child
    <2>2. node.content[seg.name] \in S
      BY <1>1, <1>2 DEF Made
    <2>3. [node.content EXCEPT ![seg.name] = node.content[seg.name]] = node.content
      BY <1>1, <1>2 DEF Made
    <2>4. Replaced(node, seg, child(node, seg)) = node
      <3>1. node = [kind |-> node.kind, content |-> node.content]
        BY <1>1 DEF Made
      <3>2. [node EXCEPT !.content[seg.name] = node.content[seg.name]] = node
        BY <2>3, <3>1
      <3> QED
        BY <1>2, <2>1, <3>2 DEF Replaced
    <2> QED
      BY <2>1, <2>2, <2>4
  <1>3. CASE node.kind = "list" /\ seg.index \in 0 .. Len(node.content) - 1
    <2>0. seg.index + 1 \in DOMAIN node.content
      BY <1>1, <1>3 DEF Made, Segment
    <2>1. child(node, seg) = node.content[seg.index + 1]
      BY <1>3 DEF child
    <2>2. node.content[seg.index + 1] \in S
      BY <1>1, <1>3, <2>0 DEF Made
    <2>3. [node.content EXCEPT ![seg.index + 1] = node.content[seg.index + 1]] = node.content
      BY <1>1, <1>3, <2>0 DEF Made
    <2>4. Replaced(node, seg, child(node, seg)) = node
      <3>1. node = [kind |-> node.kind, content |-> node.content]
        BY <1>1 DEF Made
      <3>2. [node EXCEPT !.content[seg.index + 1] = node.content[seg.index + 1]] = node
        BY <2>3, <3>1
      <3> QED
        BY <1>3, <2>1, <3>2 DEF Replaced
    <2> QED
      BY <2>1, <2>2, <2>4
  <1> QED
    BY <1>2, <1>3 DEF child, IsNode, NoNode

\* A value as `get' prints it means that value where it comes from.
LEMMA CoerceBack ==
    ASSUME NEW node, IsNode(node)
    PROVE  coerce(Printed(node), node) = node
  BY DEF coerce, Printed, Word, IsNode

\* Setting the value that a path leads to, as it is printed, leaves the document as it is
\* (patch.go, Get, Set and coerce).
THEOREM SetWhatWasGot ==
    ASSUME NEW doc, Tree(doc), NEW path \in Seq(Segment), IsNode(Get(doc, path))
    PROVE  set(doc, path, Printed(Get(doc, path))) = doc
  <1>1. PICK at : at = Along(doc, path)
    OBVIOUS
  <1>2. PICK n \in Nat : n = Len(path)
    OBVIOUS
  <1>3. Get(doc, path) = at[n]
    BY <1>1, <1>2 DEF Get
  <1>4. NewAt(at, Printed(at[n]), n) = at[n] /\ IsNode(at[n])
    BY <1>3, CoerceBack DEF NewAt
  <1>5. PICK e : /\ EditsOf(e, at, path, at[n], n)
                 /\ set(doc, path, Printed(at[n])) = IF IsNode(at[n]) THEN e[0] ELSE NoNode
    BY <1>1, <1>2, <1>4, SetEdits
  <1>6. Leads(at, doc, path, n)
    BY <1>1, <1>2, AlongLeads
  <1>7. \A k \in 0 .. n : IsNode(at[k])
    BY <1>4, <1>6, NodesAlong
  <1>8. PICK S : doc \in S /\ Closed(S)
    BY DEF Tree
  <1>9. \A k \in 1 .. n : path[k] \in Segment
    BY <1>2, ElementOfSeq
  <1>10. \A k \in 0 .. n : at[k] \in S
    <2> DEFINE T == {k \in Nat : k <= n => at[k] \in S}
    <2>1. 0 \in T
      BY <1>6, <1>8 DEF Leads
    <2>2. ASSUME NEW k \in T PROVE k + 1 \in T
      <3> SUFFICES ASSUME k + 1 <= n PROVE at[k + 1] \in S
        OBVIOUS
      <3>1. k + 1 \in 0 .. n /\ k + 1 \in 1 .. n /\ k + 1 # 0 /\ (k + 1) - 1 = k
        OBVIOUS
      <3>2. at[k + 1] = child(at[k], path[k + 1])
        BY <1>6, <3>1, Zenon DEF Leads
      <3>3. at[k] \in S
        OBVIOUS
      <3>4. IsNode(at[k + 1]) /\ path[k + 1] \in Segment
        BY <1>7, <1>9, <3>1
      <3> QED
        BY <1>8, <3>2, <3>3, <3>4, ChildWithin
    <2> HIDE DEF T
    <2>3. T = Nat
      BY <2>1, <2>2, Induction DEF T
    <2> QED
      BY <2>3 DEF T
  <1>11. ASSUME NEW k \in 0 .. n - 1 PROVE Replaced(at[k], path[k + 1], at[k + 1]) = at[k]
    <2>1. k + 1 \in 0 .. n /\ k + 1 \in 1 .. n /\ k + 1 # 0 /\ (k + 1) - 1 = k /\ k \in 0 .. n
      OBVIOUS
    <2>2. at[k + 1] = child(at[k], path[k + 1])
      BY <1>6, <2>1, Zenon DEF Leads
    <2>3. IsNode(at[k + 1]) /\ path[k + 1] \in Segment /\ at[k] \in S
      BY <1>7, <1>9, <1>10, <2>1
    <2> QED
      BY <1>8, <2>2, <2>3, ChildWithin
  <1>12. \A k \in 0 .. n : e[k] = at[k]
    <2> DEFINE T == {j \in Nat : j <= n => e[n - j] = at[n - j]}
    <2>1. 0 \in T
      <3>1. n \in 0 .. n
        OBVIOUS
      <3>2. e[n] = at[n]
        BY <1>5, <3>1 DEF EditsOf, Edited
      <3> QED
        BY <3>2
    <2>2. ASSUME NEW j \in T PROVE j + 1 \in T
      <3> SUFFICES ASSUME j + 1 <= n PROVE e[n - (j + 1)] = at[n - (j + 1)]
        OBVIOUS
      <3>1. PICK k \in 0 .. n - 1 : k = n - (j + 1) /\ k + 1 = n - j /\ k # n /\ k \in 0 .. n
        OBVIOUS
      <3>2. e[k + 1] = at[k + 1]
        BY <3>1
      <3>3. e[k] = Replaced(at[k], path[k + 1], e[k + 1])
        BY <1>5, <3>1 DEF EditsOf, Edited
      <3> QED
        BY <1>11, <3>1, <3>2, <3>3
    <2> HIDE DEF T
    <2>3. T = Nat
      BY <2>1, <2>2, Induction DEF T
    <2>4. ASSUME NEW k \in 0 .. n PROVE e[k] = at[k]
      <3>1. n - k \in T /\ n - k <= n /\ n - (n - k) = k
        BY <2>3
      <3> QED
        BY <3>1 DEF T
    <2> QED
      BY <2>4
  <1>13. e[0] = doc
    BY <1>6, <1>12 DEF Leads
  <1> QED
    BY <1>3, <1>4, <1>5, <1>13

-----------------------------------------------------------------------------
(* Setting a value changes nothing else.                                   *)

\* A function with one value replaced.
With(f, x, y) == [f EXCEPT ![x] = y]

\* What that function is.
LEMMA WithIs ==
    ASSUME NEW f, NEW x, NEW y
    PROVE  /\ DOMAIN With(f, x, y) = DOMAIN f
           /\ x \in DOMAIN f => With(f, x, y)[x] = y
           /\ \A z \in DOMAIN f : z # x => With(f, x, y)[z] = f[z]
  BY DEF With

\* A field of an object, and an element of a list, replaced.
LEMMA InObj ==
    ASSUME NEW fields, NEW seg, IsNode(child(Obj(fields), seg)), NEW new
    PROVE  /\ seg.name \in DOMAIN fields /\ child(Obj(fields), seg) = fields[seg.name]
           /\ Replaced(Obj(fields), seg, new) = Obj(With(fields, seg.name, new))
  <1>1. PICK node : node = Obj(fields)
    OBVIOUS
  <1>2. node = [kind |-> "obj", content |-> fields] /\ node.kind = "obj" /\ node.content = fields
    BY <1>1 DEF Obj
  <1>3. seg.name \in DOMAIN fields /\ child(node, seg) = fields[seg.name]
    BY <1>1, <1>2 DEF child, IsNode, NoNode
  <1>4. Replaced(node, seg, new) = [node EXCEPT !.content[seg.name] = new]
    BY <1>2 DEF Replaced
  <1>5. [node EXCEPT !.content[seg.name] = new] = [kind |-> "obj", content |-> With(fields, seg.name, new)]
    BY <1>2 DEF With
  <1> QED
    BY <1>1, <1>3, <1>4, <1>5 DEF Obj

\* An element of a list, replaced.
LEMMA InList ==
    ASSUME NEW nodes, nodes \in Seq(Range(nodes)), NEW seg \in Segment, IsNode(child(NilOrList(nodes), seg)), NEW new
    PROVE  /\ seg.index + 1 \in DOMAIN nodes /\ child(NilOrList(nodes), seg) = nodes[seg.index + 1]
           /\ Replaced(NilOrList(nodes), seg, new) = List(With(nodes, seg.index + 1, new))
  <1>1. PICK node : node = NilOrList(nodes)
    OBVIOUS
  <1>2. node.kind = "list" /\ node = List(nodes)
    <2>1. Null.kind = "null"
      BY DEF Null
    <2>2. node = Null => ~IsNode(child(node, seg))
      BY <2>1 DEF child, IsNode, NoNode
    <2>3. node = List(nodes)
      BY <1>1, <2>2 DEF NilOrList
    <2> QED
      BY <2>3 DEF List
  <1>3. node = [kind |-> "list", content |-> nodes] /\ node.content = nodes
    BY <1>2 DEF List
  <1>4. seg.index \in 0 .. Len(nodes) - 1 /\ child(node, seg) = nodes[seg.index + 1]
    BY <1>1, <1>2, <1>3 DEF child, IsNode, NoNode
  <1>5. seg.index + 1 \in DOMAIN nodes
    <2>1. DOMAIN nodes = 1 .. Len(nodes) /\ Len(nodes) \in Nat
      BY LenProperties
    <2> QED
      BY <1>4, <2>1 DEF Segment
  <1>6. Replaced(node, seg, new) = [node EXCEPT !.content[seg.index + 1] = new]
    BY <1>2 DEF Replaced
  <1>7. [node EXCEPT !.content[seg.index + 1] = new] = [kind |-> "list", content |-> With(nodes, seg.index + 1, new)]
    BY <1>3 DEF With
  <1> QED
    BY <1>1, <1>4, <1>5, <1>6, <1>7 DEF List

\* A field of a profile.
LEMMA FieldEdited ==
    ASSUME NEW p \in Profile, ModesNamed(p), NEW name \in ProfileFields, NEW new, NEW jp,
           jp = Obj(With(ProfileNodes(p), name, new)), profileFromJSON(jp).ok
    PROVE  DifferIn(p, profileFromJSON(jp).val, {name})
  <1>1. PICK nodes : nodes = ProfileNodes(p)
    OBVIOUS
  <1>2. DOMAIN nodes = ProfileFields
    BY <1>1, ProfileNodesAre
  <1>3. jp.kind = "obj" /\ jp.content = With(nodes, name, new)
    BY <1>1 DEF Obj
  <1>4. PICK q : q = profileFromJSON(jp).val
    OBVIOUS
  <1>5. ASSUME NEW f \in ProfileFields, f # name PROVE q[f] = p[f]
    <2>1. f \in DOMAIN jp.content /\ jp.content[f] = ProfileNodes(p)[f]
      BY <1>1, <1>2, <1>3, <1>5, WithIs
    <2>2. Back(ProfileParts(jp)[f], p[f])
      BY <1>3, <2>1, ProfileFieldBack
    <2> QED
      BY <1>4, <2>2, ProfileEach DEF Back
  <1>6. DOMAIN p = ProfileFields
    BY ProfileIs
  <1> QED
    BY <1>4, <1>5, <1>6 DEF DifferIn

\* A number of a profile.
LEMMA NumberEdited ==
    ASSUME NEW p \in Profile, NEW name \in {"dwell_ms", "tap_max_ms", "ext_count", "brightness"}, NEW value, NEW new,
           new = coerce(value, ProfileNodes(p)[name]), IsNode(new), NEW jp,
           jp = Obj(With(ProfileNodes(p), name, new)), profileFromJSON(jp).ok
    PROVE  profileFromJSON(jp).val[name] = value.number.content
  <1>1. PICK nodes : nodes = ProfileNodes(p)
    OBVIOUS
  <1>2. name \in ProfileFields /\ DOMAIN nodes = ProfileFields /\ \E n : nodes[name] = Num(n)
    BY <1>1, ProfileNodesAre DEF ProfileFields
  <1>3. jp.kind = "obj" /\ jp.content = With(nodes, name, new)
    BY <1>1 DEF Obj
  <1>4. new = value.number /\ new.kind = "num"
    <2>1. PICK old : old = nodes[name]
      OBVIOUS
    <2>2. old.kind = "num"
      BY <1>2, <2>1, NumIs
    <2>3. new = coerce(value, old)
      BY <1>1, <2>1
    <2> QED
      BY <2>2, <2>3 DEF coerce, IsNode, NoNode
  <1>5. name \in DOMAIN jp.content /\ jp.content[name] = new
    BY <1>2, <1>3, WithIs
  <1>6. Field(jp, name, 0) = new.content
    BY <1>3, <1>4, <1>5, FieldAt
  <1>7. ProfileParts(jp)[name] = Parsed(Field(jp, name, 0))
    BY ProfilePartsAre
  <1>8. ProfileParts(jp)[name].val = new.content
    BY <1>6, <1>7, ParsedIs
  <1> QED
    BY <1>2, <1>4, <1>8, ProfileEach

\* A binding of a profile.
LEMMA SlotEdited ==
    ASSUME NEW p \in Profile, NEW nodes, nodes = NodesOf(bindingToJSON, p.slots), NEW i \in DOMAIN nodes, NEW new, NEW jp,
           jp = Obj(With(ProfileNodes(p), "slots", List(With(nodes, i, new)))),
           IsProfile(jp), profileFromJSON(jp).ok
    PROVE  DifferAt(p.slots, profileFromJSON(jp).val.slots, i)
  <1>1. p.slots \in Seq(Binding)
    BY ProfileIs
  <1>2. /\ DOMAIN nodes = DOMAIN p.slots
        /\ \A j \in DOMAIN nodes : nodes[j] = bindingToJSON(p.slots[j])
    BY <1>1, BindingsBack, Zenon
  <1>3. PICK list : list = With(nodes, i, new)
    OBVIOUS
  <1>4. DOMAIN list = DOMAIN nodes /\ \A j \in DOMAIN nodes \ {i} : list[j] = nodes[j]
    BY <1>3, WithIs
  <1>5. PICK fields : fields = ProfileNodes(p)
    OBVIOUS
  <1>6. DOMAIN fields = ProfileFields /\ "slots" \in ProfileFields
    BY <1>5, ProfileNodesAre DEF ProfileFields
  <1>7. jp.kind = "obj" /\ jp.content = With(fields, "slots", List(list))
    BY <1>3, <1>5 DEF Obj
  <1>8. /\ "slots" \in DOMAIN jp.content /\ jp.content["slots"] = List(list)
        /\ List(list).kind = "list" /\ List(list).content = list
    BY <1>6, <1>7, WithIs DEF List
  <1>9. SlotsField(jp) = list
    BY <1>7, <1>8, FieldAt DEF SlotsField
  <1>10. PICK n \in Nat : DOMAIN list = 1 .. n /\ \A j \in 1 .. n : IsBinding(list[j])
    BY <1>9, SlotsFieldShape
  <1>11. Bindings(list).ok /\ profileFromJSON(jp).val.slots = Bindings(list).val
    <2>1. ProfileParts(jp)["slots"] = Bindings(list)
      BY <1>9, ProfilePartsAre
    <2>2. ProfileParts(jp)["slots"].ok /\ profileFromJSON(jp).val["slots"] = ProfileParts(jp)["slots"].val
      BY <1>6, ProfileEach
    <2> QED
      BY <2>1, <2>2
  <1>12. DOMAIN Bindings(list).val = 1 .. n
         /\ \A j \in 1 .. n : bindingFromJSON(list[j]).ok /\ Bindings(list).val[j] = bindingFromJSON(list[j]).val
    BY <1>10, <1>11, BindingsEach
  <1>13. ASSUME NEW j \in DOMAIN p.slots \ {i} PROVE Bindings(list).val[j] = p.slots[j]
    <2>1. p.slots[j] \in Binding
      BY <1>1, ElementOfSeq, LenProperties
    <2>2. list[j] = bindingToJSON(p.slots[j])
      BY <1>2, <1>4
    <2>3. Back(bindingFromJSON(list[j]), p.slots[j])
      BY <2>1, <2>2, BindingBack
    <2> QED
      BY <1>2, <1>4, <1>10, <1>12, <2>3 DEF Back
  <1> QED
    BY <1>2, <1>4, <1>10, <1>11, <1>12, <1>13 DEF DifferAt

\* A field of a configuration.
LEMMA ConfigEdited ==
    ASSUME NEW c \in Config, Named(c), NEW name \in {"format", "active", "profiles"}, NEW new, NEW doc,
           doc = Obj(With(ConfigNodes(c), name, new)), FromJSON(doc).ok
    PROVE  DifferIn(c, FromJSON(doc).val, {IF name = "format" THEN "format_version" ELSE name})
  <1>1. PICK nodes : nodes = ConfigNodes(c)
    OBVIOUS
  <1>2. DOMAIN nodes = {"format", "active", "profiles"}
    BY <1>1, ConfigNodesAre
  <1>3. doc.kind = "obj" /\ doc.content = With(nodes, name, new)
    BY <1>1 DEF Obj
  <1>4. PICK d : d = FromJSON(doc).val
    OBVIOUS
  <1>5. ASSUME NEW f \in ConfigFields, InJSON(f) # name PROVE d[f] = c[f]
    <2>0. InJSON(f) \in DOMAIN nodes
      BY <1>2 DEF InJSON, ConfigFields
    <2>1. InJSON(f) \in DOMAIN doc.content /\ doc.content[InJSON(f)] = ConfigNodes(c)[InJSON(f)]
      BY <1>1, <1>3, <1>5, <2>0, WithIs
    <2>2. Back(ConfigParts(doc)[f], c[f])
      BY <1>3, <2>1, ConfigFieldBack
    <2> QED
      BY <1>4, <2>2, ConfigEach DEF Back
  <1>6. DOMAIN c = ConfigFields
    BY ConfigIs
  <1>7. \A f \in ConfigFields : f # (IF name = "format" THEN "format_version" ELSE name) => InJSON(f) # name
    BY DEF ConfigFields, InJSON
  <1> QED
    BY <1>4, <1>5, <1>6, <1>7 DEF DifferIn

\* The documents of the profiles.
ProfileList(c) == NodesOf(profileToJSON, c.profiles)

\* A profile of a configuration.
LEMMA ListedProfileEdited ==
    ASSUME NEW c \in Config, Named(c), NEW nodes, nodes = ProfileList(c), NEW i \in DOMAIN nodes,
           NEW jp, NEW doc, doc = Obj(With(ConfigNodes(c), "profiles", List(With(nodes, i, jp)))),
           FromJSON(doc).ok
    PROVE  /\ DifferAt(c.profiles, FromJSON(doc).val.profiles, i)
           /\ IsProfile(jp) /\ profileFromJSON(jp).ok
           /\ FromJSON(doc).val.profiles[i] = profileFromJSON(jp).val
  <1>1. c.profiles \in Seq(Profile) /\ \A j \in DOMAIN c.profiles : ModesNamed(c.profiles[j])
    BY ConfigIs DEF Named
  <1>2. /\ DOMAIN nodes = DOMAIN c.profiles
        /\ \A j \in DOMAIN nodes : nodes[j] = profileToJSON(c.profiles[j])
    BY <1>1, ProfilesBack, Zenon DEF ProfileList
  <1>3. PICK list : list = With(nodes, i, jp)
    OBVIOUS
  <1>4. DOMAIN list = DOMAIN nodes /\ list[i] = jp /\ \A j \in DOMAIN nodes \ {i} : list[j] = nodes[j]
    BY <1>3, WithIs
  <1>5. PICK fields : fields = ConfigNodes(c)
    OBVIOUS
  <1>6. "profiles" \in DOMAIN fields /\ "profiles" \in ConfigFields
    BY <1>5, ConfigNodesAre DEF ConfigFields
  <1>7. doc.kind = "obj" /\ doc.content = With(fields, "profiles", List(list))
    BY <1>3, <1>5 DEF Obj
  <1>8. /\ "profiles" \in DOMAIN doc.content /\ doc.content["profiles"] = List(list)
        /\ List(list).kind = "list" /\ List(list).content = list
    BY <1>6, <1>7, WithIs DEF List
  <1>9. ProfilesField(doc) = list
    BY <1>7, <1>8, FieldAt DEF ProfilesField
  <1>10. PICK n \in Nat : DOMAIN list = 1 .. n /\ \A j \in 1 .. n : IsProfile(list[j])
    BY <1>9, ConfigEach, ProfilesFieldShape
  <1>11. Profiles(list).ok /\ FromJSON(doc).val.profiles = Profiles(list).val
    <2>1. ConfigParts(doc)["profiles"] = Profiles(list)
      BY <1>9, ConfigPartsAre
    <2>2. ConfigParts(doc)["profiles"].ok /\ FromJSON(doc).val["profiles"] = ConfigParts(doc)["profiles"].val
      BY <1>6, ConfigEach
    <2> QED
      BY <2>1, <2>2
  <1>12. DOMAIN Profiles(list).val = 1 .. n
         /\ \A j \in 1 .. n : profileFromJSON(list[j]).ok /\ Profiles(list).val[j] = profileFromJSON(list[j]).val
    BY <1>10, <1>11, ProfilesEach
  <1>13. ASSUME NEW j \in DOMAIN c.profiles \ {i} PROVE Profiles(list).val[j] = c.profiles[j]
    <2>1. c.profiles[j] \in Profile /\ ModesNamed(c.profiles[j])
      BY <1>1, ElementOfSeq, LenProperties
    <2>2. list[j] = profileToJSON(c.profiles[j])
      BY <1>2, <1>4
    <2>3. Back(profileFromJSON(list[j]), c.profiles[j])
      BY <2>1, <2>2, ProfileBack
    <2> QED
      BY <1>2, <1>4, <1>10, <1>12, <2>3 DEF Back
  <1>14. DifferAt(c.profiles, Profiles(list).val, i)
    BY <1>2, <1>4, <1>10, <1>12, <1>13 DEF DifferAt
  <1> QED
    BY <1>4, <1>10, <1>11, <1>12, <1>14

\* What `set' edits of a configuration's document is, read again, different only where the path
\* leads, down to the binding; a number there is the one given (patch.go, Set; json.go,
\* FromJSON).
THEOREM SetChangesOnly ==
    ASSUME NEW c \in Config, Named(c), NEW path \in Seq(Segment) \ {<<>>}, NEW value,
           NEW doc, doc = set(ToJSON(c), path, value), IsNode(doc), FromJSON(doc).ok
    PROVE  DifferAlong(c, FromJSON(doc).val, path) /\ HasNumber(FromJSON(doc).val, path, value)
  <1>1. PICK d : d = FromJSON(doc).val
    OBVIOUS
  <1>2. PICK n \in Nat : n = Len(path) /\ n > 0
    BY LenProperties
  <1>3. PICK at, e : EditMade(at, e, ToJSON(c), path, value)
    BY SetUnrolled
  <1>4. /\ at[0] = ToJSON(c)
        /\ \A k \in 1 .. n : at[k] = child(at[k - 1], path[k]) /\ IsNode(at[k])
        /\ \A k \in 0 .. n - 1 : e[k] = Replaced(at[k], path[k + 1], e[k + 1])
        /\ e[n] = coerce(value, at[n]) /\ IsNode(e[n])
        /\ doc = e[0]
    BY <1>2, <1>3 DEF EditMade
  <1>5. \A k \in 1 .. n : path[k] \in Segment
    BY <1>2, ElementOfSeq
  <1>6. PICK fields : fields = ConfigNodes(c)
    OBVIOUS
  <1>7. ToJSON(c) = Obj(fields) /\ DOMAIN fields = {"format", "active", "profiles"}
    <2>1. ToJSON(c) = Obj(ConfigNodes(c))
      BY Zenon DEF ToJSON, ConfigNodes
    <2> QED
      BY <1>6, <2>1, ConfigNodesAre
  <1>8. PICK name : name = path[1].name
    OBVIOUS
  <1>9. name \in DOMAIN fields /\ at[1] = fields[name] /\ doc = Obj(With(fields, name, e[1]))
    <2>1. 1 \in 1 .. n /\ 0 \in 0 .. n - 1 /\ 1 - 1 = 0 /\ 0 + 1 = 1
      BY <1>2
    <2>2. at[1] = child(at[0], path[1]) /\ IsNode(at[1]) /\ e[0] = Replaced(at[0], path[1], e[1])
      BY <1>4, <2>1
    <2>3. /\ IsNode(child(Obj(fields), path[1])) /\ at[1] = child(Obj(fields), path[1])
          /\ doc = Replaced(Obj(fields), path[1], e[1])
      BY <1>4, <1>7, <2>2
    <2> QED
      BY <1>8, <2>3, InObj
  <1>10. DifferIn(c, d, {IF path[1].name = "format" THEN "format_version" ELSE path[1].name})
    BY <1>1, <1>6, <1>7, <1>8, <1>9, ConfigEdited
  <1>11. n > 1 => name = "profiles"
    <2> SUFFICES ASSUME n > 1, name # "profiles" PROVE FALSE
      OBVIOUS
    <2>1. \E m : at[1] = Num(m)
      <3>1. at[1] = fields[name] /\ (name = "format" \/ name = "active")
        BY <1>7, <1>9
      <3>2. fields["format"] = Num(c.format_version) /\ fields["active"] = Num(c.active)
        BY <1>6, ConfigNodesAre
      <3> QED
        BY <3>1, <3>2
    <2>2. at[1].kind = "num"
      BY <2>1, NumIs
    <2>3. 2 \in 1 .. n /\ 2 - 1 = 1
      OBVIOUS
    <2>4. at[2] = child(at[1], path[2]) /\ IsNode(at[2])
      BY <1>4, <2>3
    <2> QED
      BY <2>2, <2>4 DEF child, IsNode, NoNode
  <1>12. PICK nodes : nodes = NodesOf(profileToJSON, c.profiles)
    OBVIOUS
  <1>13. PICK i : i = path[2].index + 1
    OBVIOUS
  <1>14. PICK p, q : p = c.profiles[i] /\ q = d.profiles[i]
    OBVIOUS
  <1>15. ASSUME n > 1
         PROVE  /\ i \in DOMAIN c.profiles /\ p \in Profile /\ ModesNamed(p)
                /\ at[2] = profileToJSON(p)
                /\ DifferAt(c.profiles, d.profiles, i)
                /\ IsProfile(e[2]) /\ profileFromJSON(e[2]).ok /\ q = profileFromJSON(e[2]).val
    <2>1. /\ nodes \in Seq(Range(nodes)) /\ DOMAIN nodes = DOMAIN c.profiles
          /\ \A j \in DOMAIN nodes : nodes[j] = profileToJSON(c.profiles[j])
      <3>1. c.profiles \in Seq(Profile) /\ \A j \in DOMAIN c.profiles : ModesNamed(c.profiles[j])
        BY ConfigIs DEF Named
      <3> QED
        BY <1>12, <3>1, ProfilesBack, Zenon
    <2>2. name = "profiles" /\ at[1] = NilOrList(nodes)
      BY <1>6, <1>9, <1>11, <1>12, <1>15, ConfigNodesAre
    <2>3. 2 \in 1 .. n /\ 1 \in 0 .. n - 1 /\ 2 - 1 = 1 /\ 1 + 1 = 2
      BY <1>15
    <2>4. /\ at[2] = child(at[1], path[2]) /\ IsNode(at[2]) /\ e[1] = Replaced(at[1], path[2], e[2])
          /\ path[2] \in Segment
      BY <1>4, <1>5, <2>3, SMTT(30)
    <2>5. i \in DOMAIN nodes /\ at[2] = nodes[i] /\ e[1] = List(With(nodes, i, e[2]))
      <3>1. PICK seg, new : seg = path[2] /\ new = e[2]
        OBVIOUS
      <3>2. seg \in Segment /\ IsNode(child(NilOrList(nodes), seg))
        BY <2>2, <2>4, <3>1
      <3>3. /\ seg.index + 1 \in DOMAIN nodes /\ child(NilOrList(nodes), seg) = nodes[seg.index + 1]
            /\ Replaced(NilOrList(nodes), seg, new) = List(With(nodes, seg.index + 1, new))
        BY <2>1, <3>2, InList
      <3> QED
        BY <1>13, <2>2, <2>4, <3>1, <3>3
    <2>6. doc = Obj(With(ConfigNodes(c), "profiles", List(With(nodes, i, e[2]))))
      BY <1>6, <1>9, <2>2, <2>5
    <2>7. p \in Profile /\ ModesNamed(p)
      <3>1. c.profiles \in Seq(Profile) /\ \A j \in DOMAIN c.profiles : ModesNamed(c.profiles[j])
        BY ConfigIs DEF Named
      <3> QED
        BY <1>14, <2>1, <2>5, <3>1, ElementOfSeq, LenProperties
    <2>8. /\ DifferAt(c.profiles, d.profiles, i)
          /\ IsProfile(e[2]) /\ profileFromJSON(e[2]).ok /\ q = profileFromJSON(e[2]).val
      <3>1. PICK jp : jp = e[2]
        OBVIOUS
      <3>2. doc = Obj(With(ConfigNodes(c), "profiles", List(With(nodes, i, jp))))
        BY <2>6, <3>1
      <3>5. nodes = ProfileList(c)
        BY <1>12, Zenon DEF ProfileList
      <3>4. i \in DOMAIN nodes /\ FromJSON(doc).ok /\ Named(c) /\ c \in Config
        BY <2>5
      <3>3. /\ DifferAt(c.profiles, FromJSON(doc).val.profiles, i)
            /\ IsProfile(jp) /\ profileFromJSON(jp).ok
            /\ FromJSON(doc).val.profiles[i] = profileFromJSON(jp).val
        BY <3>2, <3>4, <3>5, ListedProfileEdited
      <3> QED
        BY <1>1, <1>14, <3>1, <3>3
    <2> QED
      BY <1>14, <2>1, <2>5, <2>7, <2>8
  <1>16. PICK third : third = path[3].name
    OBVIOUS
  <1>17. ASSUME n > 2
         PROVE  /\ third \in ProfileFields /\ at[3] = ProfileNodes(p)[third]
                /\ e[2] = Obj(With(ProfileNodes(p), third, e[3]))
                /\ DifferIn(p, q, {third})
    <2>0. n > 1
      BY <1>17
    <2>1. PICK parts : parts = ProfileNodes(p)
      OBVIOUS
    <2>2. at[2] = Obj(parts) /\ DOMAIN parts = ProfileFields
      BY <1>15, <2>0, <2>1, ProfileNodesAre
    <2>3. 3 \in 1 .. n /\ 2 \in 0 .. n - 1 /\ 3 - 1 = 2 /\ 2 + 1 = 3
      BY <1>17
    <2>4. at[3] = child(at[2], path[3]) /\ IsNode(at[3]) /\ e[2] = Replaced(at[2], path[3], e[3])
      BY <1>4, <2>3
    <2>5. /\ IsNode(child(Obj(parts), path[3])) /\ at[3] = child(Obj(parts), path[3])
          /\ e[2] = Replaced(Obj(parts), path[3], e[3])
      BY <2>2, <2>4
    <2>6. third \in ProfileFields /\ at[3] = parts[third] /\ e[2] = Obj(With(parts, third, e[3]))
      <3>1. PICK seg, new : seg = path[3] /\ new = e[3]
        OBVIOUS
      <3>2. IsNode(child(Obj(parts), seg))
        BY <2>5, <3>1
      <3>3. /\ seg.name \in DOMAIN parts /\ child(Obj(parts), seg) = parts[seg.name]
            /\ Replaced(Obj(parts), seg, new) = Obj(With(parts, seg.name, new))
        BY <3>2, InObj
      <3> QED
        BY <1>16, <2>2, <2>5, <3>1, <3>3
    <2>7. e[2] = Obj(With(ProfileNodes(p), third, e[3]))
      BY <2>1, <2>6
    <2>8. DifferIn(p, q, {third})
      BY <1>15, <2>0, <2>6, <2>7, FieldEdited
    <2> QED
      BY <2>1, <2>6, <2>7, <2>8
  <1>18. ASSUME n > 3, third = "slots"
         PROVE  DifferAt(p.slots, q.slots, path[4].index + 1)
    <2>0. n > 1 /\ n > 2
      BY <1>18
    <2>1. PICK list : list = NodesOf(bindingToJSON, p.slots)
      OBVIOUS
    <2>2. list \in Seq(Range(list))
      <3>1. p.slots \in Seq(Binding)
        BY <1>15, <2>0, ProfileIs
      <3> QED
        BY <2>1, <3>1, BindingsBack, Zenon
    <2>3. at[3] = NilOrList(list)
      BY <1>17, <1>18, <2>0, <2>1, ProfileNodesAre
    <2>4. 4 \in 1 .. n /\ 3 \in 0 .. n - 1 /\ 4 - 1 = 3 /\ 3 + 1 = 4
      BY <1>18
    <2>5. /\ at[4] = child(at[3], path[4]) /\ IsNode(at[4]) /\ e[3] = Replaced(at[3], path[4], e[4])
          /\ path[4] \in Segment
      BY <1>4, <1>5, <2>4
    <2>6. PICK k : k = path[4].index + 1
      OBVIOUS
    <2>7. k \in DOMAIN list /\ e[3] = List(With(list, k, e[4]))
      BY <2>2, <2>3, <2>5, <2>6, InList
    <2>8. e[2] = Obj(With(ProfileNodes(p), "slots", List(With(list, k, e[4]))))
      BY <1>17, <1>18, <2>0, <2>7
    <2>9. DifferAt(p.slots, q.slots, k)
      BY <1>15, <2>0, <2>1, <2>7, <2>8, SlotEdited
    <2> QED
      BY <2>6, <2>9
  <1>19. DifferAlong(c, d, path)
    <2>1. n > 2 => DifferIn(p, q, {path[3].name})
      BY <1>16, <1>17
    <2>2. n > 3 /\ path[3].name = "slots" => DifferAt(p.slots, q.slots, path[4].index + 1)
      BY <1>16, <1>18
    <2> QED
      BY <1>2, <1>10, <1>13, <1>14, <1>15, <2>1, <2>2, Zenon DEF DifferAlong
  <1>20. HasNumber(d, path, value)
    <2> SUFFICES ASSUME n = 3, third \in {"dwell_ms", "tap_max_ms", "ext_count", "brightness"}
                 PROVE  q[third] = value.number.content
      BY <1>2, <1>13, <1>14, <1>16 DEF HasNumber
    <2>1. n > 1 /\ n > 2
      OBVIOUS
    <2>2. e[3] = coerce(value, ProfileNodes(p)[third]) /\ IsNode(e[3])
      BY <1>4, <1>17, <2>1
    <2>3. e[2] = Obj(With(ProfileNodes(p), third, e[3]))
      BY <1>17, <2>1
    <2>4. PICK new, jp : new = e[3] /\ jp = e[2]
      OBVIOUS
    <2>5. new = coerce(value, ProfileNodes(p)[third]) /\ IsNode(new)
      BY <2>2, <2>4
    <2>6. jp = Obj(With(ProfileNodes(p), third, new))
      BY <2>3, <2>4
    <2>7. p \in Profile /\ profileFromJSON(jp).ok /\ q = profileFromJSON(jp).val
      BY <1>15, <2>1, <2>4
    <2>8. profileFromJSON(jp).val[third] = value.number.content
      BY <2>5, <2>6, <2>7, NumberEdited
    <2> QED
      BY <2>7, <2>8
  <1> QED
    BY <1>1, <1>19, <1>20

-----------------------------------------------------------------------------
(* The invariant.                                                          *)

\* A configuration the board can hold.
Storable(c) == c \in Config /\ DeviceTakes(c)

\* What is stored, was stored, or is to be stored can be held by the board.
StoredOK == \A c \in {board, before, sent.store, shown.from} : c # Unreadable => Storable(c)

\* A file says what it was made from; and it is of one kind.
FileOK(f) ==
    /\ f = [doc |-> f.doc, of |-> f.of, from |-> f.from, vetted |-> f.vetted]
    /\ f.of \in {"all", "profile"}
    /\ f.from # Unreadable =>
          /\ f.from \in Config /\ Named(f.from) /\ f.from.profiles # <<>>
          /\ f.doc = IF f.of = "all" THEN ToJSON(f.from) ELSE profileToJSON(f.from.profiles[1])
    /\ f.of = "all" => ~ProfileFromJSON(f.doc).ok
    /\ f.of = "profile" => ~ValidParsed(FromJSON(f.doc))
    /\ f.vetted => IF f.of = "all" THEN ValidParsed(FromJSON(f.doc)) ELSE ProfileFromJSON(f.doc).ok

\* A command has what it needs.
CommandOK(c) ==
    /\ c.name \in {"download", "upload", "use", "validate"} => c.profile \in Int
    /\ c.name \in {"upload", "validate"} => FileOK(c.data)
    /\ c.name \in {"get", "set"} => c.path \in Seq(Segment) \ {<<>>}

\* How far a command is, and what it has found.
StageOK ==
    /\ pc \in {"idle", "started"} => before = Unreadable
    /\ pc = "started" /\ cmd.name = "validate" => cmd.data = file
    /\ pc \in {"idle", "started", "connected"} => reply = "none"
    /\ pc = "connected" => board = before /\ sent = Unsent
    /\ pc = "waiting" /\ sent # Unsent => sent.cmd = cmd /\ board = before /\ reply = "none"

\* What is on its way is what its command wants of the board as it is.
SentOK ==
    sent # Unsent =>
        /\ sent.cmd.name \in {"set", "upload", "use", "defaults"}
        /\ sent.cmd.name \in {"set", "upload"} => sent.store # Unreadable /\ Achieves(sent.cmd, board, sent.store)

\* A command that the board has carried out has had its effect.
AnswerOK == pc = "waiting" /\ reply = "ok" => Achieves(cmd, before, board)

\* What `get' has printed is what is there.
ShownOK ==
    /\ shown.path \in Seq(Segment)
    /\ shown.from # Unreadable =>
          /\ IsNode(Get(ToJSON(shown.from), shown.path))
          /\ shown.value = Printed(Get(ToJSON(shown.from), shown.path))

\* A file that is sent is of the kind it is sent as.
KindOK == pc = "waiting" /\ cmd.name = "upload" => (cmd.profile < 0 <=> cmd.data.of = "all")

\* What was got is on its way back, or nothing is.
Restores ==
    /\ cmd.name = "set" /\ cmd.path = shown.path /\ cmd.value = shown.value
    /\ before = shown.from /\ before # Unreadable /\ Validate(before)
\* The board then holds what it held, and is sent nothing else.
RestoreOK ==
    pc \in {"waiting", "done"} /\ Restores =>
        /\ board \in {before, Unreadable}
        /\ sent # Unsent => sent.cmd.name = "set" /\ sent.store = before

\* The invariant that the steps keep.
HostInv ==
    /\ HostTypeOK /\ StoredOK /\ FileOK(file) /\ CommandOK(cmd) /\ CommandOK(sent.cmd)
    /\ StageOK /\ SentOK /\ AnswerOK /\ ShownOK /\ KindOK /\ RestoreOK
    /\ GoodFilesUpload /\ GetThenSetKeeps

-----------------------------------------------------------------------------
(* What the commands send, and what becomes of it.                         *)

\* A configuration that the host passes is one that the device takes.
LEMMA ValidStorable ==
    ASSUME NEW c \in Config, Validate(c)
    PROVE  Storable(c)
  <1>1. c.active \in Nat /\ Len(c.profiles) \in Nat
    <2>1. c.active \in Byte /\ c.profiles \in Seq(Profile)
      BY ConfigIs
    <2> QED
      BY <2>1, ByteIsNat
  <1>2. c.active \in 0 .. Len(c.profiles) - 1
    BY <1>1 DEF Validate
  <1>3. ASSUME NEW i \in DOMAIN c.profiles, NEW p, p = c.profiles[i]
        PROVE  /\ Len(p.name) <= MAX_NAME_LEN
               /\ p.overflow <= OVERFLOW_CLAMP /\ p.idle_mode <= IDLE_RAINBOW
               /\ Len(p.slots) \in 1 .. MAX_SLOTS
               /\ \A b \in {p.tap} \cup Range(p.slots) : Len(b.steps) <= MAX_STEPS
    <2>1. ValidProfile(p)
      BY <1>3 DEF Validate
    <2>2. ASSUME NEW b \in {p.tap} \cup Range(p.slots) PROVE Len(b.steps) <= MAX_STEPS
      <3>1. ValidBinding(b)
        BY <2>1 DEF ValidProfile, Range
      <3> QED
        BY <3>1 DEF ValidBinding
    <2> QED
      BY <2>1, <2>2 DEF ValidProfile
  <1>4. c.format_version = FORMAT_VERSION /\ Len(c.profiles) \in 1 .. MAX_PROFILES
    BY DEF Validate
  <1>5. DeviceTakes(c)
    BY <1>2, <1>3, <1>4, Zenon DEF DeviceTakes
  <1> QED
    BY <1>5 DEF Storable

\* What such a configuration is.
LEMMA StorableIs ==
    ASSUME NEW c, Storable(c)
    PROVE  /\ c \in Config /\ Named(c) /\ c.profiles \in Seq(Profile) /\ c.profiles # <<>>
           /\ Len(c.profiles) \in Nat /\ Len(c.profiles) \in 1 .. 255 /\ DOMAIN c.profiles = 1 .. Len(c.profiles)
           /\ \A i \in DOMAIN c.profiles : c.profiles[i] \in Profile /\ ModesNamed(c.profiles[i])
           /\ c # Unreadable /\ DeviceTakes(c)
  <1>1. c \in Config /\ DeviceTakes(c)
    BY DEF Storable
  <1>2. c.profiles \in Seq(Profile)
    BY <1>1, ConfigIs
  <1>3. c.format_version = FORMAT_VERSION /\ Len(c.profiles) \in 1 .. MAX_PROFILES
    BY <1>1, Zenon DEF DeviceTakes
  <1>4. \A i \in DOMAIN c.profiles : ModesNamed(c.profiles[i])
    BY <1>1, Zenon DEF DeviceTakes, ModesNamed
  <1>5. Len(c.profiles) \in 1 .. 255
    <2>1. MAX_PROFILES \in 1 .. 255
      BY HostAssumption
    <2>2. Len(c.profiles) \in 1 .. MAX_PROFILES
      BY <1>3
    <2>3. PICK n, m : n = Len(c.profiles) /\ m = MAX_PROFILES
      OBVIOUS
    <2>4. n \in 1 .. m /\ m \in 1 .. 255
      BY <2>1, <2>2, <2>3
    <2>5. n \in 1 .. 255
      BY <2>4
    <2> QED
      BY <2>3, <2>5
  <1>6. c # Unreadable
    BY <1>1, HostAssumption
  <1>7. Len(c.profiles) \in Nat /\ DOMAIN c.profiles = 1 .. Len(c.profiles) /\ c.profiles # <<>>
    <2>1. PICK s : s = c.profiles
      OBVIOUS
    <2>2. s \in Seq(Profile) /\ s # <<>>
      <3>1. PICK m : m = MAX_PROFILES
        OBVIOUS
      <3>2. Len(s) \in 1 .. m
        BY <1>3, <2>1, <3>1
      <3>3. Len(s) # 0
        BY <3>2
      <3> QED
        BY <1>2, <2>1, <3>3
    <2> QED
      BY <2>1, <2>2, LenProperties
  <1>8. \A i \in DOMAIN c.profiles : c.profiles[i] \in Profile
    BY <1>2, <1>7, ElementOfSeq
  <1>9. Named(c)
    BY <1>3, <1>4, <1>7, <1>8, Zenon DEF Named
  <1> QED
    BY <1>1, <1>2, <1>4, <1>5, <1>6, <1>7, <1>8, <1>9, Zenon

\* The factory configuration, and those of other programs.
LEMMA GivenStorable ==
    ASSUME NEW c \in {DefaultConfig} \cup Foreign \cup (Boards \ {Unreadable})
    PROVE  Storable(c)
  BY HostAssumption DEF Storable

\* `profile use': another profile is active.
WithActive(c, k) == [c EXCEPT !.active = k]

\* The board can hold it, and nothing else is different.
LEMMA ActiveStorable ==
    ASSUME NEW c, Storable(c), NEW k \in 0 .. Len(c.profiles) - 1
    PROVE  /\ Storable(WithActive(c, k)) /\ WithActive(c, k).active = k
           /\ DifferIn(c, WithActive(c, k), {"active"})
  <1>1. PICK d : d = WithActive(c, k)
    OBVIOUS
  <1>2. c \in Config /\ DeviceTakes(c) /\ Len(c.profiles) \in 1 .. 255
    BY StorableIs
  <1>3. DOMAIN c = ConfigFields /\ c.format_version \in Byte /\ c.profiles \in Seq(Profile)
    BY <1>2, ConfigIs
  <1>4. d.active = k /\ d.profiles = c.profiles /\ d.format_version = c.format_version
    BY <1>1, <1>3 DEF WithActive, ConfigFields
  <1>5. k \in Byte
    <2>1. Len(c.profiles) \in 1 .. 255
      BY <1>2
    <2>3. PICK n : n = Len(c.profiles)
      OBVIOUS
    <2>4. n \in 1 .. 255 /\ k \in 0 .. n - 1
      BY <2>1, <2>3
    <2>2. k \in 0 .. 255
      BY <2>4
    <2> QED
      BY <2>2 DEF Byte
  <1>6. d = [format_version |-> c.format_version, active |-> k, profiles |-> c.profiles]
    <2>1. c = [format_version |-> c.format_version, active |-> c.active, profiles |-> c.profiles]
      BY <1>2, ConfigIs
    <2> QED
      BY <1>1, <2>1 DEF WithActive
  <1>7. d \in Config
    BY <1>3, <1>5, <1>6 DEF Config
  <1>9. DeviceTakes(d)
    BY <1>2, <1>4, Zenon DEF DeviceTakes
  <1>10. DifferIn(c, d, {"active"})
    BY <1>3, <1>4 DEF DifferIn, ConfigFields
  <1> QED
    BY <1>1, <1>4, <1>7, <1>9, <1>10 DEF Storable

\* One profile put in the place of another leaves the others.
LEMMA SplicedIs ==
    ASSUME NEW c, Storable(c), NEW k \in Int, k >= 0, k < Len(c.profiles), NEW p \in Profile
    PROVE  /\ Spliced(c, k, p) \in Config /\ Spliced(c, k, p).active = c.active
           /\ DifferAt(c.profiles, Spliced(c, k, p).profiles, k + 1)
           /\ Spliced(c, k, p).profiles[k + 1] = p
  <1>1. PICK i : i = k + 1
    OBVIOUS
  <1>2. /\ c \in Config /\ c.profiles \in Seq(Profile) /\ DOMAIN c.profiles = 1 .. Len(c.profiles)
        /\ Len(c.profiles) \in Nat
    BY StorableIs
  <1>3. i \in DOMAIN c.profiles
    BY <1>1, <1>2
  <1>4. PICK list : list = [c.profiles EXCEPT ![i] = p]
    OBVIOUS
  <1>5. list \in Seq(Profile)
    BY <1>2, <1>3, <1>4
  <1>6. c = [format_version |-> c.format_version, active |-> c.active, profiles |-> c.profiles]
    BY <1>2, ConfigIs
  <1>7. Spliced(c, k, p) = [format_version |-> c.format_version, active |-> c.active, profiles |-> list]
    <2>1. PICK f, a, l : f = c.format_version /\ a = c.active /\ l = c.profiles
      OBVIOUS
    <2>2. c = [format_version |-> f, active |-> a, profiles |-> l]
      BY <1>6, <2>1
    <2>3. [c EXCEPT !.profiles = list] = [format_version |-> f, active |-> a, profiles |-> list]
      BY <2>2
    <2>4. Spliced(c, k, p) = [c EXCEPT !.profiles = list]
      BY <1>1, <1>4, Zenon DEF Spliced
    <2> QED
      BY <2>1, <2>3, <2>4
  <1>8. Spliced(c, k, p) \in Config
    <2>1. c.format_version \in Byte /\ c.active \in Byte
      BY <1>2, ConfigIs
    <2> QED
      BY <1>5, <1>7, <2>1 DEF Config
  <1>9. DifferAt(c.profiles, list, i) /\ list[i] = p
    BY <1>3, <1>4 DEF DifferAt
  <1> QED
    BY <1>1, <1>7, <1>8, <1>9

\* What `download' writes of one profile.
OnlyOne(c, k) == [c EXCEPT !.profiles = <<c.profiles[k + 1]>>, !.active = 0]

\* What `download' writes of one profile is a configuration of that profile.
LEMMA OnlyOneIs ==
    ASSUME NEW c, Storable(c), NEW k \in Int, k >= 0, k < Len(c.profiles)
    PROVE  /\ OnlyOne(c, k) \in Config /\ Named(OnlyOne(c, k)) /\ OnlyOne(c, k).profiles # <<>>
           /\ OnlyOne(c, k).profiles[1] = c.profiles[k + 1]
  <1>1. PICK p : p = c.profiles[k + 1]
    OBVIOUS
  <1>2. p \in Profile /\ ModesNamed(p)
    <2>1. k + 1 \in DOMAIN c.profiles
      <3>1. PICK n : n = Len(c.profiles)
        OBVIOUS
      <3>2. n \in Nat /\ DOMAIN c.profiles = 1 .. n
        BY <3>1, StorableIs, Zenon
      <3>3. k + 1 \in 1 .. n
        BY <3>1, <3>2
      <3> QED
        BY <3>2, <3>3
    <2> QED
      BY <1>1, <2>1, StorableIs
  <1>3. c \in Config /\ Named(c)
    BY StorableIs
  <1>4. c = [format_version |-> c.format_version, active |-> c.active, profiles |-> c.profiles]
    BY <1>3, ConfigIs
  <1>5. OnlyOne(c, k) = [format_version |-> c.format_version, active |-> 0, profiles |-> <<p>>]
    <2>1. PICK f, a, l, one : f = c.format_version /\ a = c.active /\ l = c.profiles /\ one = <<p>>
      OBVIOUS
    <2>2. c = [format_version |-> f, active |-> a, profiles |-> l]
      BY <1>4, <2>1
    <2>5. PICK d : d = [c EXCEPT !.profiles = one]
      OBVIOUS
    <2>6. d = [format_version |-> f, active |-> a, profiles |-> one]
      BY <2>2, <2>5
    <2>7. [d EXCEPT !.active = 0] = [format_version |-> f, active |-> 0, profiles |-> one]
      BY <2>6
    <2>3. [c EXCEPT !.profiles = one, !.active = 0] = [format_version |-> f, active |-> 0, profiles |-> one]
      BY <2>5, <2>7
    <2>4. OnlyOne(c, k) = [c EXCEPT !.profiles = one, !.active = 0]
      BY <1>1, <2>1, Zenon DEF OnlyOne
    <2> QED
      BY <2>1, <2>3, <2>4
  <1>6. OnlyOne(c, k) \in Config
    <2>1. c.format_version \in Byte /\ 0 \in Byte
      BY <1>3, ConfigIs DEF Byte
    <2>2. <<p>> \in Seq(Profile)
      BY <1>2
    <2> QED
      BY <1>5, <2>1, <2>2 DEF Config
  <1>7. Named(OnlyOne(c, k))
    <2>1. c.format_version = FORMAT_VERSION
      BY <1>3 DEF Named
    <2>2. DOMAIN <<p>> = {1} /\ <<p>>[1] = p
      OBVIOUS
    <2> QED
      BY <1>2, <1>5, <2>1, <2>2 DEF Named
  <1> QED
    BY <1>1, <1>5, <1>6, <1>7

\* What was got is set without complaint, and changes nothing.
LEMMA SetWhatIsThere ==
    ASSUME NEW c, Storable(c), Validate(c), NEW path \in Seq(Segment), IsNode(Get(ToJSON(c), path)),
           NEW doc, doc = set(ToJSON(c), path, Printed(Get(ToJSON(c), path)))
    PROVE  IsNode(doc) /\ FromJSON(doc).ok /\ FromJSON(doc).val = c
  <1>1. c \in Config /\ Named(c)
    BY StorableIs
  <1>2. doc = ToJSON(c)
    BY <1>1, ConfigTree, SetWhatWasGot
  <1>3. IsNode(ToJSON(c))
    BY ConfigNodesAre DEF IsNode
  <1> QED
    BY <1>1, <1>2, <1>3, ConfigBack DEF Back

\* A profile that passes as the only one has been parsed.
LEMMA OnlyProfileParsed ==
    ASSUME NEW r, ValidParsed(OnlyProfile(r))
    PROVE  r.ok
  <1>1. PICK parts, list : list = <<r>> /\ parts = [format_version |-> Parsed(FORMAT_VERSION), active |-> Parsed(0), profiles |-> Each(list)]
    OBVIOUS
  <1>2. OnlyProfile(r) = Each(parts)
    BY <1>1 DEF OnlyProfile
  <1>3. Each(parts).ok
    BY <1>2 DEF ValidParsed
  <1>4. parts["profiles"].ok
    <2>1. "profiles" \in DOMAIN parts
      BY <1>1
    <2> QED
      BY <1>3, <2>1 DEF Each, Refuse
  <1>5. Each(list).ok
    BY <1>1, <1>4
  <1>6. 1 \in DOMAIN list /\ list[1] = r
    BY <1>1
  <1> QED
    BY <1>5, <1>6 DEF Each, Refuse

-----------------------------------------------------------------------------
(* The steps keep the invariant.                                           *)

\* What may be refused.
Refusals == {"none", "command", "document", "configuration"}

\* The parts of the invariant.
LEMMA HostInvParts ==
    ASSUME HostInv
    PROVE  /\ HostTypeOK /\ StoredOK /\ FileOK(file) /\ CommandOK(cmd) /\ CommandOK(sent.cmd)
           /\ StageOK /\ SentOK /\ AnswerOK /\ ShownOK /\ KindOK /\ RestoreOK
           /\ GoodFilesUpload /\ GetThenSetKeeps
  BY DEF HostInv

\* How an `upload' may end.
EndsWell(outcome, why) ==
    cmd.name = "upload" =>
        IF cmd.profile < 0 <=> cmd.data.of = "all"
        THEN cmd.data.vetted \/ (cmd.data.from # Unreadable /\ Validate(cmd.data.from)) =>
                /\ why # "document"
                /\ cmd.profile < 0 => why # "configuration"
        ELSE outcome # "ok"

\* A command ends.
LEMMA EndKeeps ==
    ASSUME HostInv, pc \in {"started", "connected", "waiting"},
           NEW outcome \in {"ok", "failed"}, NEW why \in Refusals, End(outcome, why),
           UNCHANGED <<board, before, sent, commands>>,
           FileOK(file'), ShownOK', shown'.from # Unreadable => Storable(shown'.from),
           shown' = shown \/ cmd.name # "set",
           EndsWell(outcome, why), Restores => why = "none"
    PROVE  HostInv'
  <1>1. /\ pc' = "done" /\ result' = outcome /\ refusal' = why /\ cmd' = cmd /\ reply' = reply
        /\ board' = board /\ before' = before /\ sent' = sent /\ commands' = commands
    BY DEF End
  <1>2. HostTypeOK'
    BY <1>1, HostInvParts DEF HostTypeOK, Refusals
  <1>3. StoredOK'
    BY <1>1, HostInvParts DEF StoredOK
  <1>4. CommandOK(cmd') /\ CommandOK(sent'.cmd)
    BY <1>1, HostInvParts
  <1>5. StageOK'
    BY <1>1 DEF StageOK
  <1>6. SentOK'
    BY <1>1, HostInvParts DEF SentOK
  <1>7. AnswerOK' /\ KindOK'
    BY <1>1 DEF AnswerOK, KindOK
  <1>8. Restores' => Restores
    BY <1>1 DEF Restores
  <1>9. Restores => board \in {before, Unreadable} /\ (sent # Unsent => sent.cmd.name = "set" /\ sent.store = before)
    <2>1. CASE pc = "started"
      <3>1. before = Unreadable
        BY <2>1, HostInvParts DEF StageOK
      <3> QED
        BY <3>1 DEF Restores
    <2>2. CASE pc = "connected"
      <3>1. board = before /\ sent = Unsent
        BY <2>2, HostInvParts DEF StageOK
      <3> QED
        BY <3>1
    <2>3. CASE pc = "waiting"
      BY <2>3, HostInvParts DEF RestoreOK
    <2> QED
      BY <2>1, <2>2, <2>3
  <1>10. RestoreOK'
    BY <1>1, <1>8, <1>9 DEF RestoreOK
  <1>11. GoodFilesUpload'
    BY <1>1 DEF GoodFilesUpload, EndsWell
  <1>12. GetThenSetKeeps'
    <2>1. Restores' => refusal' = "none" /\ board' \in {before', Unreadable}
      BY <1>1, <1>8, <1>9
    <2> QED
      BY <2>1 DEF GetThenSetKeeps, Restores
  <1> QED
    BY <1>2, <1>3, <1>4, <1>5, <1>6, <1>7, <1>10, <1>11, <1>12 DEF HostInv

\* It fails.
LEMMA FailsKeeps ==
    ASSUME HostInv, pc \in {"started", "connected", "waiting"}, NEW why \in Refusals, Fails(why),
           EndsWell("failed", why), Restores => why = "none"
    PROVE  HostInv'
  <1>1. /\ End("failed", why) /\ UNCHANGED <<board, before, sent, commands>>
        /\ file' = file /\ shown' = shown
    BY DEF Fails, Untouched
  <1>2. FileOK(file') /\ ShownOK'
    BY <1>1, HostInvParts DEF ShownOK
  <1>3. shown'.from # Unreadable => Storable(shown'.from)
    BY <1>1, HostInvParts DEF StoredOK
  <1>4. "failed" \in {"ok", "failed"}
    OBVIOUS
  <1> QED
    BY <1>1, <1>2, <1>3, <1>4, EndKeeps

\* It sends.
LEMMA SendKeeps ==
    ASSUME HostInv, pc = "connected", NEW store, Send(store),
           cmd.name \in {"set", "upload", "use", "defaults"},
           store # Unreadable => Storable(store) /\ Validate(store),
           cmd.name \in {"set", "upload"} => store # Unreadable /\ Achieves(cmd, board, store),
           cmd.name = "upload" => (cmd.profile < 0 <=> cmd.data.of = "all"),
           Restores => store = before
    PROVE  HostInv'
  <1>1. /\ pc' = "waiting" /\ sent'.cmd = cmd /\ sent'.store = store
        /\ board' = board /\ file' = file /\ shown' = shown /\ before' = before /\ commands' = commands
        /\ cmd' = cmd /\ reply' = reply /\ result' = result /\ refusal' = refusal
    BY DEF Send
  <1>2. board = before /\ reply = "none"
    BY HostInvParts DEF StageOK
  <1>3. HostTypeOK'
    BY <1>1, HostInvParts DEF HostTypeOK, Storable
  <1>4. StoredOK'
    BY <1>1, HostInvParts DEF StoredOK
  <1>5. FileOK(file') /\ CommandOK(cmd') /\ CommandOK(sent'.cmd)
    BY <1>1, HostInvParts
  <1>6. StageOK'
    BY <1>1, <1>2 DEF StageOK
  <1>7. SentOK'
    BY <1>1 DEF SentOK
  <1>8. AnswerOK'
    BY <1>1, <1>2 DEF AnswerOK
  <1>9. KindOK'
    BY <1>1 DEF KindOK
  <1>10. ShownOK'
    BY <1>1, HostInvParts DEF ShownOK
  <1>11. RestoreOK'
    BY <1>1, <1>2 DEF RestoreOK, Restores
  <1>12. GoodFilesUpload' /\ GetThenSetKeeps'
    BY <1>1 DEF GoodFilesUpload, GetThenSetKeeps
  <1> QED
    BY <1>3, <1>4, <1>5, <1>6, <1>7, <1>8, <1>9, <1>10, <1>11, <1>12 DEF HostInv

\* The world changes, and the process does not.
LEMMA WorldKeeps ==
    ASSUME HostInv, UNCHANGED <<shown, cmd, pc, before, result, refusal, commands>>,
           reply' \in {"none", "ok", "err"},
           board' # Unreadable => Storable(board'), FileOK(file'), sent' = Unsent,
           pc = "idle" \/ (file' = file /\ sent # Unsent),
           pc # "waiting" => reply' = reply,
           AnswerOK',
           Restores /\ pc \in {"waiting", "done"} => board' \in {before, Unreadable}
    PROVE  HostInv'
  <1>1. /\ shown' = shown /\ cmd' = cmd /\ pc' = pc /\ before' = before /\ result' = result
        /\ refusal' = refusal /\ commands' = commands
    OBVIOUS
  <1>2. sent'.cmd = NoCommand /\ sent'.store = Unreadable /\ NoCommand.name = "none"
    BY DEF Unsent, NoCommand
  <1>3. HostTypeOK'
    BY <1>1, <1>2, HostInvParts DEF HostTypeOK, Storable
  <1>4. StoredOK'
    BY <1>1, <1>2, HostInvParts DEF StoredOK
  <1>5. CommandOK(cmd') /\ CommandOK(sent'.cmd)
    BY <1>1, <1>2, HostInvParts DEF CommandOK
  <1>6. StageOK'
    BY <1>1, HostInvParts DEF StageOK
  <1>7. SentOK'
    BY DEF SentOK
  <1>8. KindOK' /\ ShownOK'
    BY <1>1, HostInvParts DEF KindOK, ShownOK
  <1>9. RestoreOK'
    BY <1>1 DEF RestoreOK, Restores
  <1>10. GoodFilesUpload'
    BY <1>1, HostInvParts DEF GoodFilesUpload
  <1>11. GetThenSetKeeps'
    BY <1>1, HostInvParts DEF GetThenSetKeeps, Restores
  <1> QED
    BY <1>3, <1>4, <1>5, <1>6, <1>7, <1>8, <1>9, <1>10, <1>11 DEF HostInv

\* It holds at first.
LEMMA InitKeeps ==
    ASSUME HostInit
    PROVE  HostInv
  <1>1. /\ pc = "idle" /\ reply = "none" /\ result = "none" /\ refusal = "none" /\ commands = 0
        /\ before = Unreadable /\ sent.store = Unreadable /\ sent = Unsent
        /\ sent.cmd = NoCommand /\ cmd = NoCommand /\ NoCommand.name = "none"
        /\ shown.from = Unreadable /\ shown.path = <<>> /\ file = NoFile
    BY DEF HostInit, Unsent, NoCommand
  <1>2. board # Unreadable => Storable(board)
    BY GivenStorable DEF HostInit
  <1>3. StoredOK
    BY <1>1, <1>2 DEF StoredOK
  <1>4. HostTypeOK
    <2>1. 0 \in 0 .. MAX_COMMANDS
      BY HostAssumption
    <2> QED
      BY <1>1, <1>2, <2>1 DEF HostTypeOK, Storable
  <1>5. FileOK(file)
    <2>1. /\ NoFile = [doc |-> NoFile.doc, of |-> NoFile.of, from |-> NoFile.from, vetted |-> NoFile.vetted]
          /\ NoFile.doc = NoNode /\ NoFile.of = "all" /\ NoFile.from = Unreadable /\ ~NoFile.vetted
      BY DEF NoFile
    <2>2. ~ProfileFromJSON(NoNode).ok
      BY KindsApart
    <2> QED
      BY <1>1, <2>1, <2>2 DEF FileOK
  <1>6. CommandOK(cmd) /\ CommandOK(sent.cmd)
    BY <1>1 DEF CommandOK
  <1>7. StageOK /\ SentOK /\ AnswerOK /\ KindOK /\ RestoreOK /\ GoodFilesUpload /\ GetThenSetKeeps
    BY <1>1 DEF StageOK, SentOK, AnswerOK, KindOK, RestoreOK, GoodFilesUpload, GetThenSetKeeps
  <1>8. ShownOK
    <2>1. <<>> \in Seq(Segment)
      OBVIOUS
    <2> QED
      BY <1>1, <2>1 DEF ShownOK
  <1> QED
    BY <1>3, <1>4, <1>5, <1>6, <1>7, <1>8 DEF HostInv

\* The commands a person gives have what they need.
LEMMA CommandsOK ==
    ASSUME HostInv, NEW c \in Commands
    PROVE  CommandOK(c) /\ (c.name = "validate" => c.data = file)
  <1>1. Numbers \subseteq Int
    BY HostAssumption
  <1>2. \A path \in Paths : path \in Seq(Segment) \ {<<>>}
    BY HostAssumption
  <1>3. \A e \in Edits : e.path \in Seq(Segment) \ {<<>>}
    BY HostAssumption
  <1>4. shown.path \in Seq(Segment) /\ FileOK(file)
    BY HostInvParts DEF ShownOK
  <1>5. CASE c \in [name : {"download", "upload"}, profile : Numbers, data : {file}]
    <2>1. c.name \in {"download", "upload"} /\ c.profile \in Int /\ c.data = file
      BY <1>1, <1>5
    <2> QED
      BY <1>4, <2>1 DEF CommandOK
  <1>6. CASE c \in [name : {"get"}, path : Paths]
    <2>1. c.name = "get" /\ c.path \in Seq(Segment) \ {<<>>}
      BY <1>2, <1>6
    <2> QED
      BY <2>1 DEF CommandOK
  <1>7. CASE c \in {[name |-> "set", path |-> e.path, value |-> e.value] : e \in Edits \cup {x \in {shown} : x.path # <<>>}}
    <2>1. PICK e \in Edits \cup {x \in {shown} : x.path # <<>>} : c = [name |-> "set", path |-> e.path, value |-> e.value]
      BY <1>7
    <2>2. e.path \in Seq(Segment) \ {<<>>}
      BY <1>3, <1>4
    <2>3. c.name = "set" /\ c.path = e.path
      BY <2>1
    <2> QED
      BY <2>2, <2>3 DEF CommandOK
  <1>8. CASE c \in [name : {"use"}, profile : Numbers]
    <2>1. c.name = "use" /\ c.profile \in Int
      BY <1>1, <1>8
    <2> QED
      BY <2>1 DEF CommandOK
  <1>9. CASE c \in [name : {"validate"}, profile : Numbers, data : {file}]
    <2>1. c.name = "validate" /\ c.profile \in Int /\ c.data = file
      BY <1>1, <1>9
    <2> QED
      BY <1>4, <2>1 DEF CommandOK
  <1>10. CASE c \in [name : {"defaults", "look", "test"}]
    <2>1. c.name \in {"defaults", "look", "test"}
      BY <1>10
    <2> QED
      BY <2>1 DEF CommandOK
  <1> QED
    BY <1>5, <1>6, <1>7, <1>8, <1>9, <1>10 DEF Commands

\* A step before anything is read or sent.
LEMMA BeginKeeps ==
    ASSUME HostInv, UNCHANGED <<board, file, shown, sent>>,
           \/ pc = "done" /\ pc' = "idle" /\ before' = Unreadable
           \/ pc = "idle" /\ pc' = "started" /\ before' = before
           \/ pc = "started" /\ pc' = "connected" /\ before' = board /\ sent = Unsent,
           reply' = "none", result' \in {"none", "ok", "failed"}, refusal' \in Refusals,
           commands' \in 0 .. MAX_COMMANDS,
           CommandOK(cmd'), pc' = "started" /\ cmd'.name = "validate" => cmd'.data = file
    PROVE  HostInv'
  <1>1. board' = board /\ file' = file /\ shown' = shown /\ sent' = sent
    OBVIOUS
  <1>2. pc' \in {"idle", "started", "connected"} /\ (pc' \in {"idle", "started"} => before' = Unreadable)
    BY HostInvParts DEF StageOK
  <1>3. before' # Unreadable => Storable(before')
    BY <1>1, HostInvParts DEF StageOK, StoredOK
  <1>4. HostTypeOK'
    BY <1>1, <1>2, <1>3, HostInvParts DEF HostTypeOK, Storable, Refusals
  <1>5. StoredOK'
    BY <1>1, <1>3, HostInvParts DEF StoredOK
  <1>6. FileOK(file') /\ CommandOK(sent'.cmd)
    BY <1>1, HostInvParts
  <1>7. StageOK'
    BY <1>1, <1>2 DEF StageOK
  <1>8. SentOK' /\ ShownOK'
    BY <1>1, HostInvParts DEF SentOK, ShownOK
  <1>9. AnswerOK' /\ KindOK' /\ RestoreOK' /\ GoodFilesUpload' /\ GetThenSetKeeps'
    BY <1>2 DEF AnswerOK, KindOK, RestoreOK, GoodFilesUpload, GetThenSetKeeps
  <1> QED
    BY <1>4, <1>5, <1>6, <1>7, <1>8, <1>9 DEF HostInv

\* A command starts.
LEMMA StartKeeps ==
    ASSUME HostInv, NEW c \in Commands, Start(c)
    PROVE  HostInv'
  <1>1. CommandOK(c) /\ (c.name = "validate" => c.data = file)
    BY CommandsOK
  <1>2. /\ pc = "idle" /\ pc' = "started" /\ before' = before /\ cmd' = c /\ commands' = commands + 1
        /\ commands < MAX_COMMANDS
        /\ UNCHANGED <<board, file, shown, sent, reply, result, refusal>>
    BY DEF Start
  <1>3. commands' \in 0 .. MAX_COMMANDS
    BY <1>2, HostAssumption, HostInvParts DEF HostTypeOK
  <1>4. reply' = "none" /\ result' \in {"none", "ok", "failed"} /\ refusal' \in Refusals
    BY <1>2, HostInvParts DEF HostTypeOK, StageOK, Refusals
  <1> QED
    BY <1>1, <1>2, <1>3, <1>4, BeginKeeps

\* It connects.
LEMMA ConnectKeeps ==
    ASSUME HostInv, Connect
    PROVE  HostInv'
  <1>1. /\ pc = "started" /\ pc' = "connected" /\ before' = board /\ sent = Unsent /\ cmd' = cmd
        /\ UNCHANGED <<board, file, shown, sent, reply, result, refusal, commands>>
    BY DEF Connect
  <1>2. /\ reply' = "none" /\ result' \in {"none", "ok", "failed"} /\ refusal' \in Refusals
        /\ commands' \in 0 .. MAX_COMMANDS /\ CommandOK(cmd')
    BY <1>1, HostInvParts DEF HostTypeOK, StageOK, Refusals
  <1> QED
    BY <1>1, <1>2, BeginKeeps

\* It exits.
LEMMA ExitKeeps ==
    ASSUME HostInv, Exit
    PROVE  HostInv'
  <1>1. /\ pc = "done" /\ pc' = "idle" /\ before' = Unreadable /\ cmd' = NoCommand
        /\ reply' = "none" /\ result' = "none" /\ refusal' = "none"
        /\ UNCHANGED <<board, file, shown, sent, commands>>
    BY DEF Exit
  <1>2. commands' \in 0 .. MAX_COMMANDS
    BY <1>1, HostInvParts DEF HostTypeOK
  <1>3. CommandOK(cmd')
    BY <1>1 DEF CommandOK, NoCommand
  <1>4. "none" \in Refusals
    BY DEF Refusals
  <1> QED
    BY <1>1, <1>2, <1>3, <1>4, BeginKeeps

\* It gives up, or is killed.
LEMMA GiveUpKeeps ==
    ASSUME HostInv, GiveUp
    PROVE  HostInv'
  <1>1. pc \in {"started", "connected", "waiting"} /\ Fails("none") /\ "none" \in Refusals
    BY DEF GiveUp, Refusals
  <1>2. EndsWell("failed", "none")
    BY DEF EndsWell
  <1> QED
    BY <1>1, <1>2, FailsKeeps

\* What a file is that was made from a configuration.
LEMMA FileOfAll ==
    ASSUME NEW c, Storable(c), NEW f, f = [doc |-> ToJSON(c), of |-> "all", from |-> c, vetted |-> FALSE]
    PROVE  FileOK(f)
  <1>1. f.doc = ToJSON(c) /\ f.of = "all" /\ f.from = c /\ ~f.vetted
    OBVIOUS
  <1>2. c \in Config /\ Named(c) /\ c.profiles # <<>>
    BY StorableIs
  <1>3. ~ProfileFromJSON(ToJSON(c)).ok
    BY KindsApart
  <1> QED
    BY <1>1, <1>2, <1>3 DEF FileOK

\* The file that `download' writes of one profile.
LEMMA FileOfProfile ==
    ASSUME NEW c, Storable(c), NEW k \in Int, k >= 0, k < Len(c.profiles),
           NEW f, f = [doc |-> profileToJSON(c.profiles[k + 1]), of |-> "profile", from |-> OnlyOne(c, k), vetted |-> FALSE]
    PROVE  FileOK(f)
  <1>1. PICK p, d : p = c.profiles[k + 1] /\ d = OnlyOne(c, k)
    OBVIOUS
  <1>2. f.doc = profileToJSON(p) /\ f.of = "profile" /\ f.from = d /\ ~f.vetted
        /\ f = [doc |-> f.doc, of |-> f.of, from |-> f.from, vetted |-> f.vetted]
    BY <1>1
  <1>3. d \in Config /\ Named(d) /\ d.profiles # <<>> /\ d.profiles[1] = p
    BY <1>1, OnlyOneIs
  <1>4. ~ValidParsed(FromJSON(profileToJSON(p)))
    BY KindsApart DEF ValidParsed
  <1> QED
    BY <1>2, <1>3, <1>4 DEF FileOK

\* The parts of StoredOK.
LEMMA BoardStorable ==
    ASSUME HostInv
    PROVE  /\ board # Unreadable => Storable(board)
           /\ before # Unreadable => Storable(before)
           /\ sent.store # Unreadable => Storable(sent.store)
           /\ shown.from # Unreadable => Storable(shown.from)
  BY HostInvParts DEF StoredOK

\* `download' keeps the invariant.
LEMMA DownloadKeeps ==
    ASSUME HostInv, Download
    PROVE  HostInv'
  <1>1. pc = "connected" /\ cmd.name = "download"
    BY DEF Download, Running
  <1>2. cmd.profile \in Int
    BY <1>1, HostInvParts DEF CommandOK
  <1>3. CASE ~ReadConfig \/ cmd.profile >= Len(board.profiles)
    <2>1. Fails("command") /\ "command" \in Refusals
      BY <1>3 DEF Download, Refusals
    <2>2. EndsWell("failed", "command") /\ ~Restores
      BY <1>1 DEF EndsWell, Restores
    <2> QED
      BY <1>1, <2>1, <2>2, FailsKeeps
  <1>4. CASE ~(~ReadConfig \/ cmd.profile >= Len(board.profiles))
    <2>1. Storable(board) /\ ~(cmd.profile >= Len(board.profiles))
      BY <1>4, BoardStorable DEF ReadConfig
    <2>2. /\ file' = [doc |-> IF cmd.profile < 0 THEN ToJSON(board) ELSE profileToJSON(board.profiles[cmd.profile + 1]),
                      of |-> IF cmd.profile < 0 THEN "all" ELSE "profile",
                      from |-> IF cmd.profile < 0 THEN board ELSE OnlyOne(board, cmd.profile),
                      vetted |-> FALSE]
          /\ End("ok", "none") /\ UNCHANGED <<board, shown, before, sent, commands>>
      BY <1>4, Zenon DEF Download, OnlyOne
    <2>3. FileOK(file')
      <3>1. CASE cmd.profile < 0
        <4>1. file' = [doc |-> ToJSON(board), of |-> "all", from |-> board, vetted |-> FALSE]
          BY <2>2, <3>1
        <4> QED
          BY <2>1, <4>1, FileOfAll
      <3>2. CASE ~(cmd.profile < 0)
        <4>1. PICK k \in Int : k = cmd.profile /\ k >= 0 /\ k < Len(board.profiles)
          <5>1. Len(board.profiles) \in Nat
            BY <2>1, StorableIs
          <5> QED
            BY <1>2, <2>1, <3>2, <5>1
        <4>2. file' = [doc |-> profileToJSON(board.profiles[k + 1]), of |-> "profile", from |-> OnlyOne(board, k), vetted |-> FALSE]
          BY <2>2, <3>2, <4>1
        <4> QED
          BY <2>1, <4>1, <4>2, FileOfProfile
      <3> QED
        BY <3>1, <3>2
    <2>4. ShownOK' /\ shown' = shown /\ (shown'.from # Unreadable => Storable(shown'.from))
      BY <2>2, BoardStorable, HostInvParts DEF ShownOK
    <2>5. EndsWell("ok", "none") /\ ~Restores /\ "none" \in Refusals
      BY <1>1 DEF EndsWell, Restores, Refusals
    <2> QED
      BY <1>1, <2>2, <2>3, <2>4, <2>5, EndKeeps
  <1> QED
    BY <1>3, <1>4

\* So does `get'.
LEMMA GetKeeps ==
    ASSUME HostInv, GetValue
    PROVE  HostInv'
  <1>1. pc = "connected" /\ cmd.name = "get"
    BY DEF GetValue, Running
  <1>2. CASE ~ReadConfig \/ ~IsNode(Get(ToJSON(board), cmd.path))
    <2>1. Fails("command") /\ "command" \in Refusals
      BY <1>2 DEF GetValue, Refusals
    <2>2. EndsWell("failed", "command") /\ ~Restores
      BY <1>1 DEF EndsWell, Restores
    <2> QED
      BY <1>1, <2>1, <2>2, FailsKeeps
  <1>3. CASE ~(~ReadConfig \/ ~IsNode(Get(ToJSON(board), cmd.path)))
    <2>1. IsNode(Get(ToJSON(board), cmd.path)) /\ Storable(board)
      BY <1>3, BoardStorable DEF ReadConfig
    <2>2. /\ shown' = [path |-> cmd.path, value |-> Printed(Get(ToJSON(board), cmd.path)), from |-> board]
          /\ End("ok", "none") /\ UNCHANGED <<board, file, before, sent, commands>>
      BY <1>3 DEF GetValue
    <2>3. shown'.path = cmd.path /\ shown'.value = Printed(Get(ToJSON(board), cmd.path)) /\ shown'.from = board
      BY <2>2
    <2>4. cmd.path \in Seq(Segment)
      BY <1>1, HostInvParts DEF CommandOK
    <2>5. ShownOK' /\ Storable(shown'.from) /\ FileOK(file')
      BY <2>1, <2>2, <2>3, <2>4, HostInvParts DEF ShownOK
    <2>6. EndsWell("ok", "none") /\ ~Restores /\ "none" \in Refusals
      BY <1>1 DEF EndsWell, Restores, Refusals
    <2> QED
      BY <1>1, <2>2, <2>5, <2>6, EndKeeps
  <1> QED
    BY <1>2, <1>3

\* A command ends well with nothing but that.
LEMMA EndsKeep ==
    ASSUME HostInv, pc \in {"started", "connected", "waiting"}, NEW outcome \in {"ok", "failed"}, End(outcome, "none"),
           UNCHANGED Untouched, EndsWell(outcome, "none")
    PROVE  HostInv'
  <1>1. UNCHANGED <<board, before, sent, commands>> /\ file' = file /\ shown' = shown
    BY DEF Untouched
  <1>2. FileOK(file') /\ ShownOK' /\ (shown'.from # Unreadable => Storable(shown'.from)) /\ "none" \in Refusals
    BY <1>1, BoardStorable, HostInvParts DEF ShownOK, Refusals
  <1> QED
    BY <1>1, <1>2, EndKeeps

\* So do the commands that only read.
LEMMA LookKeeps ==
    ASSUME HostInv, Look
    PROVE  HostInv'
  <1>1. pc = "connected" /\ cmd.name = "look"
    BY DEF Look, Running
  <1>2. CASE ReadConfig
    <2>1. End("ok", "none") /\ UNCHANGED Untouched
      BY <1>2 DEF Look
    <2>2. EndsWell("ok", "none")
      BY <1>1 DEF EndsWell
    <2> QED
      BY <1>1, <2>1, <2>2, EndsKeep
  <1>3. CASE ~ReadConfig
    <2>1. Fails("command") /\ "command" \in Refusals
      BY <1>3 DEF Look, Refusals
    <2>2. EndsWell("failed", "command") /\ ~Restores
      BY <1>1 DEF EndsWell, Restores
    <2> QED
      BY <1>1, <2>1, <2>2, FailsKeeps
  <1> QED
    BY <1>2, <1>3

\* So does `test'.
LEMMA TestKeeps ==
    ASSUME HostInv, Test
    PROVE  HostInv'
  <1>1. pc = "connected" /\ cmd.name = "test" /\ UNCHANGED Untouched
    BY DEF Test, Running
  <1>2. PICK outcome \in {"ok", "failed"} : End(outcome, "none")
    BY DEF Test
  <1>3. EndsWell(outcome, "none")
    BY <1>1 DEF EndsWell
  <1> QED
    BY <1>1, <1>2, <1>3, EndsKeep

\* So does a command that is answered.
LEMMA AnsweredKeeps ==
    ASSUME HostInv, Answered
    PROVE  HostInv'
  <1>1. pc = "waiting" /\ UNCHANGED Untouched
    BY DEF Answered
  <1>2. EndsWell("ok", "none") /\ EndsWell("failed", "none")
    BY <1>1, HostInvParts DEF EndsWell, KindOK
  <1>3. CASE End("ok", "none")
    BY <1>1, <1>2, <1>3, EndsKeep
  <1>4. CASE End("failed", "none")
    BY <1>1, <1>2, <1>4, EndsKeep
  <1> QED
    BY <1>3, <1>4 DEF Answered

\* So does `validate'.
LEMMA ValidateKeeps ==
    ASSUME HostInv, RunValidate
    PROVE  HostInv'
  <1> DEFINE passes == IF cmd.profile < 0 THEN ValidParsed(FromJSON(cmd.data.doc))
                       ELSE ValidParsed(OnlyProfile(ProfileFromJSON(cmd.data.doc)))
  <1>1. pc = "started" /\ cmd.name = "validate"
    BY DEF RunValidate
  <1>2. cmd.data = file /\ cmd.profile \in Int /\ FileOK(file)
    BY <1>1, HostInvParts DEF StageOK, CommandOK
  <1>3. /\ EndsWell("ok", "none") /\ EndsWell("failed", "document") /\ ~Restores
        /\ "none" \in Refusals /\ "document" \in Refusals
    BY <1>1 DEF EndsWell, Restores, Refusals
  <1>4. CASE passes
    <2>1. /\ file' = [file EXCEPT !.vetted = TRUE, !.of = IF cmd.profile < 0 THEN "all" ELSE "profile"]
          /\ End("ok", "none") /\ UNCHANGED <<board, shown, before, sent, commands>>
      BY <1>4, Zenon DEF RunValidate
    <2>2. PICK of : of = IF cmd.profile < 0 THEN "all" ELSE "profile"
      OBVIOUS
    <2>3. file'.doc = file.doc /\ file'.of = of /\ file'.from = file.from /\ file'.vetted
          /\ file' = [doc |-> file'.doc, of |-> file'.of, from |-> file'.from, vetted |-> file'.vetted]
      <3>1. PICK d, o, fr, v : file = [doc |-> d, of |-> o, from |-> fr, vetted |-> v]
        BY <1>2 DEF FileOK
      <3>2. file' = [doc |-> d, of |-> of, from |-> fr, vetted |-> TRUE]
        BY <2>1, <2>2, <3>1
      <3> QED
        BY <3>1, <3>2
    <2>4. cmd.profile < 0 => ValidParsed(FromJSON(file.doc)) /\ file.of = "all"
      BY <1>2, <1>4 DEF FileOK
    <2>5. ~(cmd.profile < 0) => ProfileFromJSON(file.doc).ok /\ file.of = "profile"
      <3>1. ~(cmd.profile < 0) => ProfileFromJSON(file.doc).ok
        BY <1>2, <1>4, OnlyProfileParsed
      <3> QED
        BY <1>2, <3>1 DEF FileOK
    <2>6. of = file.of
      BY <2>2, <2>4, <2>5
    <2>7. file'.vetted => IF file'.of = "all" THEN ValidParsed(FromJSON(file'.doc)) ELSE ProfileFromJSON(file'.doc).ok
      BY <2>2, <2>3, <2>4, <2>5, <2>6
    <2>8. FileOK(file')
      BY <1>2, <2>3, <2>6, <2>7 DEF FileOK
    <2>9. ShownOK' /\ shown' = shown /\ (shown'.from # Unreadable => Storable(shown'.from))
      BY <2>1, BoardStorable, HostInvParts DEF ShownOK
    <2> QED
      BY <1>1, <1>3, <2>1, <2>8, <2>9, EndKeeps
  <1>5. CASE ~passes
    <2>1. Fails("document")
      BY <1>5, Zenon DEF RunValidate
    <2> QED
      BY <1>1, <1>3, <2>1, FailsKeeps
  <1> QED
    BY <1>4, <1>5

\* So do `profile use' and `defaults'.
LEMMA TellKeeps ==
    ASSUME HostInv, Tell
    PROVE  HostInv'
  <1>1. pc = "connected" /\ cmd.name \in {"use", "defaults"} /\ Send(Unreadable)
    BY DEF Tell
  <1>2. ~Restores
    BY <1>1 DEF Restores
  <1> QED
    BY <1>1, <1>2, SendKeeps

\* A file that is good for what it is says what it was made from.
LEMMA FileParsed ==
    ASSUME NEW f, FileOK(f)
    PROVE  LET good == f.vetted \/ (f.from # Unreadable /\ Validate(f.from))
           IN  /\ f.of = "all" /\ good => ValidParsed(FromJSON(f.doc))
               /\ f.of = "all" /\ f.from # Unreadable /\ FromJSON(f.doc).ok => FromJSON(f.doc).val = f.from
               /\ f.of = "profile" /\ good => ProfileFromJSON(f.doc).ok
               /\ f.of = "profile" /\ f.from # Unreadable /\ ProfileFromJSON(f.doc).ok =>
                     ProfileFromJSON(f.doc).val = f.from.profiles[1]
  <1>1. ASSUME f.from # Unreadable, f.of = "all"
        PROVE  /\ FromJSON(f.doc).ok => FromJSON(f.doc).val = f.from
               /\ Validate(f.from) => ValidParsed(FromJSON(f.doc))
    <2>1. f.from \in Config /\ Named(f.from) /\ f.doc = ToJSON(f.from)
      BY <1>1 DEF FileOK
    <2>2. PICK r : r = FromJSON(f.doc)
      OBVIOUS
    <2>3. Back(r, f.from) /\ (Validate(f.from) => r.ok)
      BY <2>1, <2>2, ConfigBack
    <2> QED
      BY <2>2, <2>3 DEF Back, ValidParsed
  <1>2. ASSUME f.from # Unreadable, f.of = "profile"
        PROVE  /\ ProfileFromJSON(f.doc).ok => ProfileFromJSON(f.doc).val = f.from.profiles[1]
               /\ Validate(f.from) => ProfileFromJSON(f.doc).ok
    <2>1. PICK p : p = f.from.profiles[1]
      OBVIOUS
    <2>2. f.from \in Config /\ Named(f.from) /\ f.from.profiles # <<>> /\ f.doc = profileToJSON(p)
      BY <1>2, <2>1 DEF FileOK
    <2>3. 1 \in DOMAIN f.from.profiles /\ f.from.profiles \in Seq(Profile)
      BY <2>2, ConfigIs
    <2>4. p \in Profile /\ ModesNamed(p)
      BY <2>1, <2>2, <2>3, ElementOfSeq, LenProperties DEF Named
    <2>5. PICK r : r = profileFromJSON(f.doc)
      OBVIOUS
    <2>6. IsProfile(f.doc) /\ Back(r, p) /\ (ValidProfile(p) => r.ok)
      BY <2>2, <2>4, <2>5, ProfileBack
    <2>7. ProfileFromJSON(f.doc) = r
      BY <2>5, <2>6 DEF ProfileFromJSON
    <2>8. Validate(f.from) => ValidProfile(p)
      BY <2>1, <2>3 DEF Validate
    <2> QED
      BY <2>1, <2>6, <2>7, <2>8 DEF Back
  <1>3. f.vetted => IF f.of = "all" THEN ValidParsed(FromJSON(f.doc)) ELSE ProfileFromJSON(f.doc).ok
    BY DEF FileOK
  <1> QED
    BY <1>1, <1>2, <1>3

\* So does a configuration that is committed, if it is what the command wants.
LEMMA CommitKeeps ==
    ASSUME HostInv, pc = "connected", cmd.name \in {"set", "upload"}, NEW c \in Config, Commit(c),
           Validate(c) => /\ Achieves(cmd, board, c)
                          /\ cmd.name = "upload" => (cmd.profile < 0 <=> cmd.data.of = "all")
                          /\ Restores => c = before,
           ~Validate(c) => EndsWell("failed", "configuration") /\ ~Restores
    PROVE  HostInv'
  <1>1. CASE Validate(c)
    <2>1. Send(c)
      BY <1>1 DEF Commit
    <2>2. Storable(c) /\ c # Unreadable
      BY <1>1, ValidStorable, StorableIs
    <2> QED
      BY <1>1, <2>1, <2>2, SendKeeps
  <1>2. CASE ~Validate(c)
    <2>1. Fails("configuration") /\ "configuration" \in Refusals
      BY <1>2 DEF Commit, Refusals
    <2> QED
      BY <1>2, <2>1, FailsKeeps
  <1> QED
    BY <1>1, <1>2

\* So does `set'.
LEMMA SetKeeps ==
    ASSUME HostInv, SetValue
    PROVE  HostInv'
  <1>1. pc = "connected" /\ cmd.name = "set"
    BY DEF SetValue, Running
  <1>2. board = before /\ cmd.path \in Seq(Segment) \ {<<>>}
    BY <1>1, HostInvParts DEF StageOK, CommandOK
  <1>3. \A why : EndsWell("failed", why)
    BY <1>1 DEF EndsWell
  <1>4. "command" \in Refusals /\ "document" \in Refusals
    BY DEF Refusals
  <1>5. PICK doc, r : doc = set(ToJSON(board), cmd.path, cmd.value) /\ r = FromJSON(doc)
    OBVIOUS
  <1>6. CASE ~ReadConfig
    <2>1. Fails("command")
      BY <1>6 DEF SetValue
    <2>2. ~Restores
      BY <1>2, <1>6 DEF Restores, ReadConfig
    <2> QED
      BY <1>1, <1>3, <1>4, <2>1, <2>2, FailsKeeps
  <1>7. CASE ReadConfig
    <2>1. Storable(board) /\ board \in Config /\ Named(board)
      BY <1>7, BoardStorable, StorableIs DEF ReadConfig
    <2>2. CommitEdited(doc)
      BY <1>5, <1>7 DEF SetValue
    <2>3. Restores => IsNode(doc) /\ r.ok /\ r.val = board /\ Validate(board)
      <3> SUFFICES ASSUME Restores PROVE IsNode(doc) /\ r.ok /\ r.val = board /\ Validate(board)
        OBVIOUS
      <3>1. PICK path : path = cmd.path
        OBVIOUS
      <3>2. /\ shown.from = board /\ path = shown.path /\ cmd.value = shown.value /\ Validate(board)
            /\ shown.from # Unreadable
        BY <1>2, <3>1 DEF Restores
      <3>3. /\ path \in Seq(Segment) /\ IsNode(Get(ToJSON(board), path))
            /\ cmd.value = Printed(Get(ToJSON(board), path))
        BY <3>2, HostInvParts DEF ShownOK
      <3>4. doc = set(ToJSON(board), path, Printed(Get(ToJSON(board), path)))
        BY <1>5, <3>1, <3>3
      <3> QED
        BY <1>5, <2>1, <3>2, <3>3, <3>4, SetWhatIsThere
    <2>4. CASE ~IsNode(doc)
      <3>1. Fails("command")
        BY <2>2, <2>4 DEF CommitEdited
      <3> QED
        BY <1>1, <1>3, <1>4, <2>3, <2>4, <3>1, FailsKeeps
    <2>5. CASE IsNode(doc) /\ ~r.ok
      <3>1. Fails("document")
        BY <1>5, <2>2, <2>5 DEF CommitEdited, CommitParsed
      <3> QED
        BY <1>1, <1>3, <1>4, <2>3, <2>5, <3>1, FailsKeeps
    <2>6. CASE IsNode(doc) /\ r.ok
      <3>1. Commit(r.val)
        BY <1>5, <2>2, <2>6 DEF CommitEdited, CommitParsed
      <3>2. r.val \in Config
        BY <1>5, <2>6, ConfigParsed
      <3>3. DifferAlong(board, r.val, cmd.path) /\ HasNumber(r.val, cmd.path, cmd.value)
        <4>1. PICK path, value : path = cmd.path /\ value = cmd.value
          OBVIOUS
        <4>2. path \in Seq(Segment) \ {<<>>} /\ doc = set(ToJSON(board), path, value) /\ IsNode(doc) /\ FromJSON(doc).ok
          BY <1>2, <1>5, <2>6, <4>1
        <4>3. DifferAlong(board, FromJSON(doc).val, path) /\ HasNumber(FromJSON(doc).val, path, value)
          BY <2>1, <4>2, SetChangesOnly
        <4> QED
          BY <1>5, <4>1, <4>3
      <3>4. Achieves(cmd, board, r.val)
        BY <1>1, <3>3 DEF Achieves
      <3>5. (Restores => r.val = before) /\ (~Validate(r.val) => ~Restores)
        BY <1>2, <2>3
      <3> QED
        BY <1>1, <1>3, <3>1, <3>2, <3>4, <3>5, CommitKeeps
    <2> QED
      BY <2>4, <2>5, <2>6
  <1> QED
    BY <1>6, <1>7

\* So does `upload'.
LEMMA UploadKeeps ==
    ASSUME HostInv, Upload
    PROVE  HostInv'
  <1>1. pc = "connected" /\ cmd.name = "upload" /\ ~Restores
    BY DEF Upload, Running, Restores
  <1>2. cmd.profile \in Int /\ FileOK(cmd.data)
    BY <1>1, HostInvParts DEF CommandOK
  <1>3. PICK f, k : f = cmd.data /\ k = cmd.profile
    OBVIOUS
  <1>4. f.of \in {"all", "profile"} /\ (f.of = "all" => ~ProfileFromJSON(f.doc).ok) /\ (f.of = "profile" => ~ValidParsed(FromJSON(f.doc)))
    BY <1>2, <1>3 DEF FileOK
  <1>5. "command" \in Refusals /\ "document" \in Refusals
    BY DEF Refusals
  <1>6. CASE k < 0
    <2>1. PICK r : r = FromJSON(f.doc)
      OBVIOUS
    <2>2. CommitParsed(r)
      <3>1. ~(k >= 0)
        BY <1>2, <1>3, <1>6
      <3> QED
        BY <1>3, <2>1, <3>1 DEF Upload
    <2>3. /\ f.of = "all" /\ (f.vetted \/ (f.from # Unreadable /\ Validate(f.from))) => r.ok /\ Validate(r.val)
          /\ f.of = "all" /\ f.from # Unreadable /\ r.ok => r.val = f.from
      BY <1>2, <1>3, <2>1, FileParsed DEF ValidParsed
    <2>4. CASE ~r.ok
      <3>1. Fails("document")
        BY <2>2, <2>4 DEF CommitParsed
      <3>2. EndsWell("failed", "document")
        BY <1>3, <1>6, <2>3, <2>4 DEF EndsWell
      <3> QED
        BY <1>1, <1>5, <3>1, <3>2, FailsKeeps
    <2>5. CASE r.ok
      <3>1. Commit(r.val)
        BY <2>2, <2>5 DEF CommitParsed
      <3>2. r.val \in Config
        BY <2>1, <2>5, ConfigParsed
      <3>3. Validate(r.val) => f.of = "all"
        BY <1>4, <2>1, <2>5 DEF ValidParsed
      <3>4. Validate(r.val) => Achieves(cmd, board, r.val)
        <4>1. Validate(r.val) => (cmd.data.from # Unreadable => r.val = cmd.data.from)
          BY <1>3, <2>3, <2>5, <3>3
        <4>2. cmd.name = "upload" /\ cmd.profile < 0 /\ ~(cmd.profile >= 0)
          BY <1>1, <1>2, <1>3, <1>6
        <4> QED
          BY <4>1, <4>2, Zenon DEF Achieves
      <3>5. ~Validate(r.val) => EndsWell("failed", "configuration")
        BY <1>3, <1>6, <2>3 DEF EndsWell
      <3> QED
        BY <1>1, <1>3, <1>6, <3>1, <3>2, <3>3, <3>4, <3>5, CommitKeeps
    <2> QED
      BY <2>4, <2>5
  <1>7. CASE ~(k < 0)
    <2>0. k \in Int /\ k >= 0
      BY <1>2, <1>3, <1>7
    <2>1. IF ~ReadConfig \/ k >= Len(board.profiles) THEN Fails("command")
          ELSE \E p \in {ProfileFromJSON(f.doc)} :
                  IF p.ok THEN Commit(Spliced(board, k, p.val)) ELSE Fails("document")
      BY <1>3, <1>7, Zenon DEF Upload
    <2>2. CASE ~ReadConfig \/ k >= Len(board.profiles)
      <3>1. Fails("command")
        BY <2>1, <2>2
      <3>2. EndsWell("failed", "command")
        BY <1>3, <1>7 DEF EndsWell
      <3> QED
        BY <1>1, <1>5, <3>1, <3>2, FailsKeeps
    <2>3. CASE ~(~ReadConfig \/ k >= Len(board.profiles))
      <3>1. PICK r : r = ProfileFromJSON(f.doc)
        OBVIOUS
      <3>2. IF r.ok THEN Commit(Spliced(board, k, r.val)) ELSE Fails("document")
        BY <2>1, <2>3, <3>1
      <3>3. Storable(board)
        BY <2>3, BoardStorable DEF ReadConfig
      <3>4. k < Len(board.profiles)
        <4>1. Len(board.profiles) \in Nat
          BY <3>3, StorableIs, Zenon
        <4> QED
          BY <2>0, <2>3, <4>1
      <3>5. /\ f.of = "profile" /\ (f.vetted \/ (f.from # Unreadable /\ Validate(f.from))) => r.ok
            /\ f.of = "profile" /\ f.from # Unreadable /\ r.ok => r.val = f.from.profiles[1]
        BY <1>2, <1>3, <3>1, FileParsed
      <3>6. CASE ~r.ok
        <4>1. Fails("document")
          BY <3>2, <3>6
        <4>2. EndsWell("failed", "document")
          BY <1>3, <1>4, <1>7, <3>5, <3>6 DEF EndsWell
        <4> QED
          BY <1>1, <1>5, <4>1, <4>2, FailsKeeps
      <3>7. CASE r.ok
        <4>1. r.val \in Profile
          <5>1. IsProfile(f.doc) /\ r = profileFromJSON(f.doc)
            BY <3>1, <3>7 DEF ProfileFromJSON, Refuse
          <5> QED
            BY <3>7, <5>1, ProfileParsed
        <4>2. PICK c : c = Spliced(board, k, r.val)
          OBVIOUS
        <4>3. Commit(c)
          BY <3>2, <3>7, <4>2
        <4>4. /\ c \in Config /\ c.active = board.active /\ DifferAt(board.profiles, c.profiles, k + 1)
              /\ c.profiles[k + 1] = r.val
          BY <2>0, <3>3, <3>4, <4>1, <4>2, SplicedIs
        <4>5. f.of = "profile"
          BY <1>4, <3>1, <3>7
        <4>6. f.from # Unreadable => r.val = f.from.profiles[1]
          BY <3>5, <3>7, <4>5
        <4>7. Achieves(cmd, board, c)
          BY <1>1, <1>3, <1>7, <2>0, <4>4, <4>6 DEF Achieves
        <4>8. EndsWell("failed", "configuration")
          BY <1>3, <1>7 DEF EndsWell
        <4> QED
          BY <1>1, <1>3, <1>7, <4>3, <4>4, <4>5, <4>7, <4>8, CommitKeeps
      <3> QED
        BY <3>6, <3>7
    <2> QED
      BY <2>2, <2>3
  <1> QED
    BY <1>6, <1>7

\* What the board makes of what it has been sent.
LEMMA OutcomeIs ==
    ASSUME HostInv, sent # Unsent, Outcome # Unreadable
    PROVE  Storable(Outcome) /\ Achieves(sent.cmd, board, Outcome)
  <1>1. PICK c, live : c = sent.cmd /\ live = IF board = Unreadable THEN DefaultConfig ELSE board
    OBVIOUS
  <1>2. Storable(live)
    BY <1>1, BoardStorable, GivenStorable
  <1>3. c.name \in {"set", "upload", "use", "defaults"}
        /\ (c.name \in {"set", "upload"} => sent.store # Unreadable /\ Achieves(c, board, sent.store))
    BY <1>1, HostInvParts DEF SentOK
  <1>4. CASE c.name = "defaults"
    <2>1. Outcome = DefaultConfig
      BY <1>1, <1>4 DEF Outcome
    <2>2. Achieves(c, board, DefaultConfig)
      BY <1>4 DEF Achieves
    <2> QED
      BY <1>1, <2>1, <2>2, GivenStorable
  <1>5. CASE c.name = "use"
    <2>1. PICK k : k = c.profile
      OBVIOUS
    <2>2. Outcome = IF k \in 0 .. Len(live.profiles) - 1 /\ EncodedSize(live) <= NVM_SIZE THEN WithActive(live, k) ELSE Unreadable
      BY <1>1, <1>5, <2>1 DEF Outcome, WithActive
    <2>3. k \in 0 .. Len(live.profiles) - 1 /\ Outcome = WithActive(live, k)
      BY <2>2
    <2>4. PICK new : new = WithActive(live, k)
      OBVIOUS
    <2>5. Storable(new) /\ new.active = k /\ DifferIn(live, new, {"active"})
      BY <1>2, <2>3, <2>4, ActiveStorable
    <2>6. board # Unreadable => DifferIn(board, new, {"active"})
      BY <1>1, <2>5
    <2>7. Achieves(c, board, new)
      BY <1>5, <2>1, <2>5, <2>6 DEF Achieves
    <2> QED
      BY <1>1, <2>3, <2>4, <2>5, <2>7
  <1>6. CASE c.name \in {"set", "upload"}
    <2>1. Outcome = sent.store
      BY <1>1, <1>6 DEF Outcome
    <2> QED
      BY <1>1, <1>3, <1>6, <2>1, BoardStorable
  <1> QED
    BY <1>3, <1>4, <1>5, <1>6

\* What is got is what is sent back.
LEMMA OutcomeRestores ==
    ASSUME HostInv, sent # Unsent, pc \in {"waiting", "done"}, Restores
    PROVE  board \in {before, Unreadable} /\ Outcome = before
  <1>1. sent.cmd.name = "set" /\ sent.store = before /\ board \in {before, Unreadable}
    BY HostInvParts DEF RestoreOK
  <1> QED
    BY <1>1 DEF Outcome

\* The board carries out what it has been sent.
LEMMA BoardActsKeeps ==
    ASSUME HostInv, BoardActs
    PROVE  HostInv'
  <1>1. /\ sent # Unsent /\ sent' = Unsent
        /\ board' = IF Outcome = Unreadable THEN board ELSE Outcome
        /\ reply' = IF pc # "waiting" THEN reply ELSE IF Outcome = Unreadable THEN "err" ELSE "ok"
        /\ file' = file /\ UNCHANGED <<shown, cmd, pc, before, result, refusal, commands>>
    BY DEF BoardActs
  <1>2. FileOK(file') /\ reply' \in {"none", "ok", "err"}
    BY <1>1, HostInvParts DEF HostTypeOK
  <1>3. board' # Unreadable => Storable(board')
    BY <1>1, OutcomeIs, BoardStorable
  <1>4. AnswerOK'
    <2>1. SUFFICES ASSUME pc = "waiting", reply' = "ok"
                   PROVE  Achieves(cmd, before, board')
      BY <1>1 DEF AnswerOK
    <2>2. sent.cmd = cmd /\ board = before
      BY <1>1, <2>1, HostInvParts DEF StageOK
    <2>3. Outcome # Unreadable /\ board' = Outcome
      BY <1>1, <2>1
    <2> QED
      BY <1>1, <2>2, <2>3, OutcomeIs
  <1>5. Restores /\ pc \in {"waiting", "done"} => board' \in {before, Unreadable}
    BY <1>1, OutcomeRestores
  <1> QED
    BY <1>1, <1>2, <1>3, <1>4, <1>5, WorldKeeps

\* Power fails before it has, or while it writes.
LEMMA PowerLossKeeps ==
    ASSUME HostInv, PowerLoss
    PROVE  HostInv'
  <1>1. /\ sent # Unsent /\ sent' = Unsent
        /\ board' \in {board, Unreadable}
        /\ reply' = reply
        /\ file' = file /\ UNCHANGED <<shown, cmd, pc, before, result, refusal, commands>>
    BY DEF PowerLoss
  <1>2. FileOK(file') /\ reply' \in {"none", "ok", "err"}
    BY <1>1, HostInvParts DEF HostTypeOK
  <1>3. board' # Unreadable => Storable(board')
    BY <1>1, BoardStorable
  <1>4. AnswerOK'
    <2>1. pc = "waiting" => reply = "none"
      BY <1>1, HostInvParts DEF StageOK
    <2> QED
      BY <1>1, <2>1 DEF AnswerOK
  <1>5. Restores /\ pc \in {"waiting", "done"} => board' \in {before, Unreadable}
    BY <1>1, OutcomeRestores
  <1> QED
    BY <1>1, <1>2, <1>3, <1>4, <1>5, WorldKeeps

\* Another program uploads.
LEMMA OtherProgramKeeps ==
    ASSUME HostInv, NEW c \in Foreign, OtherProgram(c)
    PROVE  HostInv'
  <1>1. /\ pc = "idle" /\ sent' = Unsent /\ board' = c /\ reply' = reply
        /\ file' = file /\ UNCHANGED <<shown, cmd, pc, before, result, refusal, commands>>
    BY DEF OtherProgram
  <1>2. FileOK(file') /\ reply' \in {"none", "ok", "err"}
    BY <1>1, HostInvParts DEF HostTypeOK
  <1>3. Storable(board')
    BY <1>1, GivenStorable
  <1>4. AnswerOK'
    BY <1>1 DEF AnswerOK
  <1> QED
    BY <1>1, <1>2, <1>3, <1>4, WorldKeeps

\* A file that a person writes.
LEMMA WriteFileKeeps ==
    ASSUME HostInv, NEW f \in HandWritten, WriteFile(f)
    PROVE  HostInv'
  <1>1. /\ pc = "idle" /\ file' = [doc |-> f.doc, of |-> f.of, from |-> Unreadable, vetted |-> FALSE]
        /\ board' = board /\ shown' = shown /\ cmd' = cmd /\ pc' = pc /\ before' = before /\ sent' = sent
        /\ reply' = reply /\ result' = result /\ refusal' = refusal /\ commands' = commands
    BY DEF WriteFile
  <1>2. FileOK(file')
    <2>1. \/ f.of = "all" /\ ~ProfileFromJSON(f.doc).ok
          \/ f.of = "profile" /\ ~ValidParsed(FromJSON(f.doc))
      BY HostAssumption, Zenon DEF ValidParsed
    <2>2. PICK doc, of : doc = f.doc /\ of = f.of
      OBVIOUS
    <2>3. PICK g : g = [doc |-> doc, of |-> of, from |-> Unreadable, vetted |-> FALSE]
      OBVIOUS
    <2>4. g.doc = doc /\ g.of = of /\ g.from = Unreadable /\ ~g.vetted
          /\ g = [doc |-> g.doc, of |-> g.of, from |-> g.from, vetted |-> g.vetted]
      BY <2>3
    <2>5. FileOK(g)
      BY <2>1, <2>2, <2>4 DEF FileOK
    <2> QED
      BY <1>1, <2>2, <2>3, <2>5
  <1>3. HostTypeOK' /\ StoredOK'
    BY <1>1, HostInvParts DEF HostTypeOK, StoredOK
  <1>4. CommandOK(cmd') /\ CommandOK(sent'.cmd)
    BY <1>1, HostInvParts
  <1>5. StageOK' /\ AnswerOK' /\ KindOK' /\ RestoreOK' /\ GoodFilesUpload' /\ GetThenSetKeeps'
    <2>1. before = Unreadable /\ reply = "none"
      BY <1>1, HostInvParts DEF StageOK
    <2> QED
      BY <1>1, <2>1 DEF StageOK, AnswerOK, KindOK, RestoreOK, GoodFilesUpload, GetThenSetKeeps
  <1>6. SentOK' /\ ShownOK'
    BY <1>1, HostInvParts DEF SentOK, ShownOK
  <1> QED
    BY <1>2, <1>3, <1>4, <1>5, <1>6 DEF HostInv

\* Nothing happens.
LEMMA StutterKeeps ==
    ASSUME HostInv, UNCHANGED hostVars
    PROVE  HostInv'
  <1>1. /\ board' = board /\ file' = file /\ shown' = shown /\ cmd' = cmd /\ pc' = pc /\ before' = before
        /\ sent' = sent /\ reply' = reply /\ result' = result /\ refusal' = refusal /\ commands' = commands
    BY DEF hostVars
  <1>2. HostTypeOK' /\ StoredOK' /\ FileOK(file') /\ CommandOK(cmd') /\ CommandOK(sent'.cmd)
    BY <1>1, HostInvParts DEF HostTypeOK, StoredOK
  <1>3. StageOK' /\ SentOK' /\ AnswerOK' /\ ShownOK' /\ KindOK'
    BY <1>1, HostInvParts DEF StageOK, SentOK, AnswerOK, ShownOK, KindOK
  <1>4. RestoreOK' /\ GoodFilesUpload' /\ GetThenSetKeeps'
    BY <1>1, HostInvParts DEF RestoreOK, Restores, GoodFilesUpload, GetThenSetKeeps
  <1> QED
    BY <1>2, <1>3, <1>4 DEF HostInv

\* Every step keeps the invariant.
LEMMA NextKeeps ==
    ASSUME HostInv, [HostNext]_hostVars
    PROVE  HostInv'
  <1>1. CASE \E c \in Commands : Start(c)
    BY <1>1, StartKeeps
  <1>2. CASE Connect \/ GiveUp \/ Exit
    BY <1>2, ConnectKeeps, GiveUpKeeps, ExitKeeps
  <1>3. CASE Download \/ Upload \/ GetValue \/ SetValue \/ Tell
    BY <1>3, DownloadKeeps, UploadKeeps, GetKeeps, SetKeeps, TellKeeps
  <1>4. CASE Test \/ Look \/ RunValidate \/ Answered
    BY <1>4, TestKeeps, LookKeeps, ValidateKeeps, AnsweredKeeps
  <1>5. CASE BoardActs \/ PowerLoss
    BY <1>5, BoardActsKeeps, PowerLossKeeps
  <1>6. CASE \E f \in HandWritten : WriteFile(f)
    BY <1>6, WriteFileKeeps
  <1>7. CASE \E c \in Foreign : OtherProgram(c)
    BY <1>7, OtherProgramKeeps
  <1>8. CASE UNCHANGED hostVars
    BY <1>8, StutterKeeps
  <1> QED
    BY <1>1, <1>2, <1>3, <1>4, <1>5, <1>6, <1>7, <1>8 DEF HostNext

\* Whatever commands are run, in whatever order, given up, killed or cut off from power: what
\* is stored the device takes, what is on its way is validated and what its command
\* wants, and files are what they say.
THEOREM HostInvariant == HostSpec => []HostInv
  <1>1. HostInit => HostInv
    BY InitKeeps
  <1>2. HostInv /\ [HostNext]_hostVars => HostInv'
    BY NextKeeps
  <1> QED
    BY <1>1, <1>2, PTL DEF HostSpec

\* The states are of their types; what a command sends to be stored is always validated, and what
\* is stored the device takes, whatever files were written by hand and whatever other programs
\* have stored (commands.go, commit).
THEOREM HostTypesAreSafe == HostSpec => []HostTypeOK
  <1>1. HostInv => HostTypeOK
    BY HostInvParts
  <1> QED
    BY <1>1, HostInvariant, PTL

\* A file that `download' wrote of a configuration that validates, or that `validate'
\* passed, is not refused by `upload' for what it says; and a profile is never taken for a
\* configuration, nor the other way round (commands.go, buildConfig and commit).
THEOREM GoodFilesAreTaken == HostSpec => []GoodFilesUpload
  <1>1. HostInv => GoodFilesUpload
    BY HostInvParts
  <1> QED
    BY <1>1, HostInvariant, PTL

\* Giving `set' what `get' printed is not refused and leaves the board as it was (commands.go,
\* runGet and runSet; patch.go, Get and Set).
THEOREM WhatWasGotIsSet == HostSpec => []GetThenSetKeeps
  <1>1. HostInv => GetThenSetKeeps
    BY HostInvParts
  <1> QED
    BY <1>1, HostInvariant, PTL

\* What a step may do to the board, and what a command that succeeds has done.
Effect ==
    /\ sent # Unsent /\ board' # board => board' = Unreadable \/ Achieves(sent.cmd, board, board')
    /\ pc \in {"connected", "waiting"} /\ pc' = "done" /\ result' = "ok" => Achieves(cmd, before, board)

\* A command that reads ends with the board as it found it.
LEMMA ReadingLeaves ==
    ASSUME HostInv, pc = "connected", cmd.name \in {"download", "get", "look", "test"}
    PROVE  Achieves(cmd, before, board)
  <1>1. board = before
    BY HostInvParts DEF StageOK
  <1> QED
    BY <1>1 DEF Achieves

\* Every step from a state of the invariant does no more.
LEMMA NextEffect ==
    ASSUME HostInv, [HostNext]_hostVars
    PROVE  Effect
  <1>1. CASE pc' = pc /\ (board' = board \/ sent = Unsent)
    BY <1>1 DEF Effect
  <1>2. CASE BoardActs \/ PowerLoss
    <2>1. pc' = pc /\ sent # Unsent /\ board' \in {board, Unreadable, Outcome}
      BY <1>2 DEF BoardActs, PowerLoss
    <2> QED
      BY <2>1, OutcomeIs DEF Effect
  <1>3. ASSUME board' = board, pc' # "done" \/ result' # "ok"
        PROVE  Effect
    BY <1>3 DEF Effect
  <1>4. CASE \E c \in Commands : Start(c)
    BY <1>3, <1>4 DEF Start
  <1>5. CASE Connect \/ Exit
    BY <1>3, <1>5 DEF Connect, Exit
  <1>6. ASSUME NEW why, Fails(why) PROVE Effect
    BY <1>3, <1>6 DEF Fails, End, Untouched
  <1>7. CASE GiveUp
    BY <1>6, <1>7 DEF GiveUp
  <1>8. ASSUME NEW store, Send(store) PROVE Effect
    BY <1>3, <1>8 DEF Send
  <1>9. ASSUME NEW c, Commit(c) PROVE Effect
    BY <1>6, <1>8, <1>9 DEF Commit
  <1>10. ASSUME NEW r, CommitParsed(r) PROVE Effect
    BY <1>6, <1>9, <1>10 DEF CommitParsed
  <1>11. CASE Upload
    <2>1. CASE CommitParsed(FromJSON(cmd.data.doc))
      BY <1>10, <2>1
    <2>2. CASE IF ~ReadConfig \/ cmd.profile >= Len(board.profiles) THEN Fails("command")
               ELSE \E p \in {ProfileFromJSON(cmd.data.doc)} :
                      IF p.ok THEN Commit(Spliced(board, cmd.profile, p.val)) ELSE Fails("document")
      BY <1>6, <1>9, <2>2, Zenon
    <2> QED
      BY <1>11, <2>1, <2>2, Zenon DEF Upload
  <1>12. CASE SetValue
    <2>1. CASE ReadConfig
      BY <1>6, <1>10, <1>12, <2>1, Zenon DEF SetValue, CommitEdited
    <2>2. CASE ~ReadConfig
      BY <1>6, <1>12, <2>2, Zenon DEF SetValue
    <2> QED
      BY <2>1, <2>2
  <1>13. CASE Tell
    BY <1>8, <1>13 DEF Tell
  <1>14. ASSUME board' = board, Achieves(cmd, before, board) PROVE Effect
    BY <1>14 DEF Effect
  <1>15. CASE Download
    <2>1. Achieves(cmd, before, board)
      BY <1>15, ReadingLeaves DEF Download, Running
    <2>2. board' = board
      BY <1>15, Zenon DEF Download, Fails, Untouched
    <2> QED
      BY <1>14, <2>1, <2>2
  <1>16. CASE GetValue
    <2>1. Achieves(cmd, before, board)
      BY <1>16, ReadingLeaves DEF GetValue, Running
    <2>2. board' = board
      BY <1>16, Zenon DEF GetValue, Fails, Untouched
    <2> QED
      BY <1>14, <2>1, <2>2
  <1>17. CASE Look
    <2>1. Achieves(cmd, before, board)
      BY <1>17, ReadingLeaves DEF Look, Running
    <2>2. board' = board
      BY <1>17, Zenon DEF Look, Fails, Untouched
    <2> QED
      BY <1>14, <2>1, <2>2
  <1>23. CASE Test
    <2>1. Achieves(cmd, before, board)
      BY <1>23, ReadingLeaves DEF Test, Running
    <2>2. board' = board
      BY <1>23, Zenon DEF Test, Untouched
    <2> QED
      BY <1>14, <2>1, <2>2
  <1>18. CASE RunValidate
    <2>1. pc = "started"
      BY <1>18 DEF RunValidate
    <2>2. board' = board
      BY <1>18, Zenon DEF RunValidate, Fails, Untouched
    <2> QED
      BY <2>1, <2>2 DEF Effect
  <1>19. CASE Answered
    <2>1. board' = board
      BY <1>19 DEF Answered, Untouched
    <2>2. CASE reply = "ok"
      <3>1. Achieves(cmd, before, board)
        BY <1>19, <2>2, HostInvParts DEF Answered, AnswerOK
      <3> QED
        BY <1>14, <2>1, <3>1
    <2>3. CASE reply # "ok"
      BY <1>3, <1>19, <2>1, <2>3 DEF Answered, End
    <2> QED
      BY <2>2, <2>3
  <1>20. CASE \E f \in HandWritten : WriteFile(f)
    BY <1>1, <1>20 DEF WriteFile
  <1>21. CASE \E c \in Foreign : OtherProgram(c)
    BY <1>1, <1>21 DEF OtherProgram
  <1>22. CASE UNCHANGED hostVars
    BY <1>1, <1>22 DEF hostVars
  <1> QED
    BY <1>2, <1>4, <1>5, <1>7, <1>11, <1>12, <1>13, <1>15, <1>16, <1>17, <1>18, <1>19, <1>20, <1>21, <1>22, <1>23 DEF HostNext

\* The board's configuration changes only as the command that was sent wants it, or is lost
\* with the power; and a command that reports success has had its effect (commands.go, commit;
\* device.go, WriteConfig).
THEOREM CommandsAreAllOrNothing == HostSpec => CommandAllOrNothing
  <1>1. HostInv /\ [HostNext]_hostVars => [Effect]_hostVars
    BY NextEffect
  <1>2. CommandAllOrNothing <=> [][Effect]_hostVars
    BY DEF CommandAllOrNothing, Effect
  <1> QED
    BY <1>1, <1>2, HostInvariant, PTL DEF HostSpec
=============================================================================
