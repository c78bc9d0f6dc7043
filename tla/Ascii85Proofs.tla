---------------------------- MODULE Ascii85Proofs ----------------------------
(***************************************************************************)
(* Ascii85, for every pair of radixes, every sequence of bytes and every   *)
(* text: what is encoded is decoded to the same bytes, both ends decode    *)
(* alike, and counting characters frames an upload.                        *)
(***************************************************************************)
EXTENDS Ascii85, SequenceTheorems, WellFoundedInduction, TLAPS

(***************************************************************************)
(* Quotient and remainder are what makes up a number, and are unique.      *)
(***************************************************************************)
LEMMA DivMod ==
    ASSUME NEW n \in Nat, NEW b \in Nat \ {0}
    PROVE  /\ n \div b \in Nat
           /\ n % b \in 0 .. b - 1
           /\ n = b * (n \div b) + (n % b)
  OBVIOUS

LEMMA DivUnique ==
    ASSUME NEW q \in Nat, NEW b \in Nat \ {0}, NEW r \in 0 .. b - 1
    PROVE  /\ (q * b + r) \div b = q
           /\ (q * b + r) % b = r
  OBVIOUS

LEMMA SmallMod ==
    ASSUME NEW b \in Nat \ {0}, NEW r \in 0 .. b - 1
    PROVE  r % b = r
  OBVIOUS

LEMMA DivLess ==
    ASSUME NEW n \in Nat, NEW b \in Nat \ {0}, NEW m \in Nat, n < b * m
    PROVE  n \div b < m
  OBVIOUS

(***************************************************************************)
(* Padding one digit further keeps a number within reach of what was cut   *)
(* off; taking one byte off keeps it within reach of what was put on.      *)
(***************************************************************************)
LEMMA PadStep ==
    ASSUME NEW R \in Nat \ {0}, NEW q \in Nat, NEW r \in 0 .. R - 1, NEW M \in Nat \ {0},
           NEW n \in q .. q + M - 1
    PROVE  n * R + (R - 1) \in R * q + r .. R * q + r + M * R - 1
  <1>1. n * R >= q * R
    OBVIOUS
  <1>2. n * R <= (q + M - 1) * R
    OBVIOUS
  <1>3. (q + M - 1) * R = q * R + M * R - R
    OBVIOUS
  <1>4. /\ n * R \in Int /\ q * R \in Int /\ M * R \in Int /\ R * q = q * R
    OBVIOUS
  <1> QED
    BY <1>1, <1>2, <1>3, <1>4

LEMMA PeelStep ==
    ASSUME NEW B \in Nat \ {0}, NEW q \in Nat, NEW M \in Nat \ {0},
           NEW n \in q * B .. q * B + M * B - 1
    PROVE  n \div B \in q .. q + M - 1
  <1>1. n \in Nat
    OBVIOUS
  <1>2. n < B * (q + M)
    OBVIOUS
  <1>3. n \div B < q + M
    BY <1>1, <1>2, DivLess
  <1>4. n \div B \in Nat /\ n % B \in 0 .. B - 1 /\ n = B * (n \div B) + (n % B)
    BY <1>1, DivMod
  <1>5. ~(n \div B < q)
    <2> SUFFICES ASSUME n \div B <= q - 1 PROVE FALSE
      BY <1>4
    <2>1. B * (n \div B) <= B * (q - 1)
      BY <1>4
    <2>2. B * (q - 1) = q * B - B
      OBVIOUS
    <2> QED
      BY <1>4, <2>1, <2>2
  <1> QED
    BY <1>3, <1>4, <1>5

LEMMA PeelLast ==
    ASSUME NEW B \in Nat \ {0}, NEW q \in Nat, NEW n \in q * B .. q * B + B - 1
    PROVE  n \div B = q
  <1>1. n - q * B \in 0 .. B - 1
    OBVIOUS
  <1>2. (q * B + (n - q * B)) \div B = q
    BY <1>1, DivUnique
  <1>3. q * B + (n - q * B) = n
    OBVIOUS
  <1> QED
    BY <1>2, <1>3

(***************************************************************************)
(* The digits of a number below RADIX^5 make it up again, and so does each *)
(* leading part of them the number divided as often.                       *)
(***************************************************************************)
LEMMA DigitsMakeUp ==
    ASSUME NEW v \in Nat, v < RADIX * (RADIX * (RADIX * (RADIX * RADIX)))
    PROVE  LET d == Digits(v)
               q1 == v \div RADIX
               q2 == q1 \div RADIX
               q3 == q2 \div RADIX
               q4 == q3 \div RADIX
           IN  /\ d[1] = q4 /\ d[1] * RADIX + d[2] = q3 /\ q3 * RADIX + d[3] = q2
               /\ q2 * RADIX + d[4] = q1 /\ q1 * RADIX + d[5] = v
               /\ \A i \in 1 .. 5 : d[i] \in 0 .. RADIX - 1
               /\ q1 \in Nat /\ q2 \in Nat /\ q3 \in Nat /\ q4 \in Nat
  <1> DEFINE q1 == v \div RADIX
             q2 == q1 \div RADIX
             q3 == q2 \div RADIX
             q4 == q3 \div RADIX
  <1>0. RADIX \in Nat \ {0}
    BY RadixAssumption
  <1>a. q1 = v \div RADIX /\ q2 = q1 \div RADIX /\ q3 = q2 \div RADIX /\ q4 = q3 \div RADIX
    OBVIOUS
  <1>7. Digits(v) = << q4 % RADIX, q3 % RADIX, q2 % RADIX, q1 % RADIX, v % RADIX >>
    BY DEF Digits
  <1> HIDE DEF q1, q2, q3, q4
  <1>1. q1 \in Nat /\ v % RADIX \in 0 .. RADIX - 1 /\ v = RADIX * q1 + (v % RADIX)
    BY <1>0, <1>a, DivMod
  <1>2. q2 \in Nat /\ q1 % RADIX \in 0 .. RADIX - 1 /\ q1 = RADIX * q2 + (q1 % RADIX)
    BY <1>0, <1>1, <1>a, DivMod
  <1>3. q3 \in Nat /\ q2 % RADIX \in 0 .. RADIX - 1 /\ q2 = RADIX * q3 + (q2 % RADIX)
    BY <1>0, <1>2, <1>a, DivMod
  <1>4. q4 \in Nat /\ q3 % RADIX \in 0 .. RADIX - 1 /\ q3 = RADIX * q4 + (q3 % RADIX)
    BY <1>0, <1>3, <1>a, DivMod
  <1>5. q4 < RADIX
    <2>1. /\ RADIX * RADIX \in Nat /\ RADIX * (RADIX * RADIX) \in Nat
          /\ RADIX * (RADIX * (RADIX * RADIX)) \in Nat
      BY <1>0
    <2>2. q1 < RADIX * (RADIX * (RADIX * RADIX))
      BY <1>0, <1>a, <2>1, DivLess
    <2>3. q2 < RADIX * (RADIX * RADIX)
      BY <1>0, <1>1, <1>a, <2>1, <2>2, DivLess
    <2>4. q3 < RADIX * RADIX
      BY <1>0, <1>2, <1>a, <2>1, <2>3, DivLess
    <2> QED
      BY <1>0, <1>3, <1>a, <2>4, DivLess
  <1>6. q4 % RADIX = q4
    <2>1. q4 \in 0 .. RADIX - 1
      BY <1>0, <1>4, <1>5
    <2> QED
      BY <1>0, <2>1, SmallMod
  <1>8. /\ q3 = q4 * RADIX + (q3 % RADIX) /\ q2 = q3 * RADIX + (q2 % RADIX)
        /\ q1 = q2 * RADIX + (q1 % RADIX) /\ v = q1 * RADIX + (v % RADIX)
    BY <1>0, <1>1, <1>2, <1>3, <1>4
  <1>9. /\ Digits(v)[1] = q4 /\ Digits(v)[2] = q3 % RADIX /\ Digits(v)[3] = q2 % RADIX
        /\ Digits(v)[4] = q1 % RADIX /\ Digits(v)[5] = v % RADIX
    BY <1>6, <1>7
  <1>10. \A i \in 1 .. 5 : i = 1 \/ i = 2 \/ i = 3 \/ i = 4 \/ i = 5
    OBVIOUS
  <1>11. \A i \in 1 .. 5 : Digits(v)[i] \in 0 .. RADIX - 1
    BY <1>0, <1>1, <1>2, <1>3, <1>4, <1>5, <1>9, <1>10
  <1> QED
    BY <1>1, <1>2, <1>3, <1>4, <1>8, <1>9, <1>11 DEF q1, q2, q3, q4

(***************************************************************************)
(* The bytes of a word: what lies within a cut-off rest above the first    *)
(* bytes of a word still has these first bytes.                            *)
(***************************************************************************)
LEMMA TopBytes ==
    ASSUME NEW b1 \in Byte, NEW b2 \in Byte, NEW b3 \in Byte, NEW b4 \in Byte,
           NEW k \in 0 .. 3,
           NEW n \in Nat,
           \/ k = 0 /\ n = ((b1 * BYTE + b2) * BYTE + b3) * BYTE + b4
           \/ /\ k = 1
              /\ n \in ((b1 * BYTE + b2) * BYTE + b3) * BYTE
                       .. ((b1 * BYTE + b2) * BYTE + b3) * BYTE + BYTE - 1
           \/ /\ k = 2
              /\ n \in ((b1 * BYTE + b2) * BYTE) * BYTE
                       .. ((b1 * BYTE + b2) * BYTE) * BYTE + BYTE * BYTE - 1
           \/ /\ k = 3
              /\ n \in ((b1 * BYTE) * BYTE) * BYTE
                       .. ((b1 * BYTE) * BYTE) * BYTE + BYTE * BYTE * BYTE - 1
    PROVE  /\ u32(n)[1] = b1
           /\ k <= 2 => u32(n)[2] = b2
           /\ k <= 1 => u32(n)[3] = b3
           /\ k = 0 => u32(n)[4] = b4
           /\ n < WORD
  <1> DEFINE n1 == n \div BYTE
             n2 == n1 \div BYTE
             n3 == n2 \div BYTE
  <1>a. n1 = n \div BYTE /\ n2 = n1 \div BYTE /\ n3 = n2 \div BYTE
    OBVIOUS
  <1>b. u32(n) = << n3, n2 % BYTE, n1 % BYTE, n % BYTE >>
    BY DEF u32
  <1>c. /\ u32(n)[1] = n3 /\ u32(n)[2] = n2 % BYTE /\ u32(n)[3] = n1 % BYTE /\ u32(n)[4] = n % BYTE
    BY <1>b
  <1> HIDE DEF n1, n2, n3
  <1>0. BYTE \in Nat \ {0} /\ BYTE * BYTE \in Nat \ {0} /\ BYTE * BYTE * BYTE \in Nat \ {0}
    BY RadixAssumption
  <1>1. /\ b1 \in Nat /\ b2 \in Nat /\ b3 \in Nat /\ b4 \in Nat
        /\ b1 \in 0 .. BYTE - 1 /\ b2 \in 0 .. BYTE - 1 /\ b3 \in 0 .. BYTE - 1 /\ b4 \in 0 .. BYTE - 1
    BY <1>0 DEF Byte
  <1>2. n \in Nat
    OBVIOUS
  <1> DEFINE w2 == b1 * BYTE + b2
             w3 == w2 * BYTE + b3
  <1>3. /\ w2 \in Nat /\ w2 \div BYTE = b1 /\ w2 % BYTE = b2
    <2>1. /\ (b1 * BYTE + b2) \div BYTE = b1
          /\ (b1 * BYTE + b2) % BYTE = b2
      BY <1>0, <1>1, DivUnique
    <2> QED
      BY <2>1, <1>0, <1>1
  <1>4. w3 \in Nat /\ w3 \div BYTE = w2 /\ w3 % BYTE = b3
    <2> HIDE DEF w2
    <2>1. /\ (w2 * BYTE + b3) \div BYTE = w2
          /\ (w2 * BYTE + b3) % BYTE = b3
      BY <1>0, <1>1, <1>3, DivUnique
    <2> QED
      BY <2>1, <1>0, <1>1, <1>3
  <1> HIDE DEF w2, w3
  <1>5. /\ w2 < BYTE * BYTE
    <2>1. b1 * BYTE <= (BYTE - 1) * BYTE
      BY <1>0, <1>1
    <2>2. (BYTE - 1) * BYTE = BYTE * BYTE - BYTE
      BY <1>0
    <2> QED
      BY <1>0, <1>1, <2>1, <2>2 DEF w2
  <1>6. w3 < BYTE * BYTE * BYTE
    <2>1. w2 * BYTE <= (BYTE * BYTE - 1) * BYTE
      BY <1>0, <1>3, <1>5
    <2>2. (BYTE * BYTE - 1) * BYTE = BYTE * BYTE * BYTE - BYTE
      BY <1>0
    <2> QED
      BY <1>0, <1>1, <1>3, <2>1, <2>2 DEF w3
  <1>7. CASE k = 0
    <2>1. n = w3 * BYTE + b4
      BY <1>7, <1>1, <1>2, <1>0, <1>4 DEF w2, w3
    <2>2. n1 = w3 /\ n % BYTE = b4
      BY <2>1, <1>0, <1>1, <1>4, <1>a, DivUnique
    <2>3. n2 = w2 /\ n1 % BYTE = b3 /\ n3 = b1 /\ n2 % BYTE = b2
      BY <2>2, <1>3, <1>4, <1>a
    <2>4. w3 * BYTE <= (BYTE * BYTE * BYTE - 1) * BYTE
      BY <1>0, <1>4, <1>6
    <2>5. (BYTE * BYTE * BYTE - 1) * BYTE = WORD - BYTE
      BY <1>0 DEF WORD
    <2>6. WORD \in Nat /\ w3 * BYTE \in Nat
      BY <1>0, <1>4 DEF WORD
    <2> QED
      BY <1>c, <1>0, <1>1, <1>2, <2>1, <2>2, <2>3, <2>4, <2>5, <2>6
  <1>8. CASE k = 1
    <2>1. n \in w3 * BYTE .. w3 * BYTE + BYTE - 1
      BY <1>8, <1>0, <1>4 DEF w2, w3
    <2>3. n1 = w3
      BY <2>1, <1>0, <1>4, <1>a, PeelLast
    <2>4. n2 = w2 /\ n1 % BYTE = b3 /\ n3 = b1 /\ n2 % BYTE = b2
      BY <2>3, <1>3, <1>4, <1>a
    <2>5. w3 * BYTE <= (BYTE * BYTE * BYTE - 1) * BYTE
      BY <1>0, <1>4, <1>6
    <2>6. (BYTE * BYTE * BYTE - 1) * BYTE = WORD - BYTE
      BY <1>0 DEF WORD
    <2>7. WORD \in Nat /\ w3 * BYTE \in Nat
      BY <1>0, <1>4 DEF WORD
    <2> QED
      BY <1>c, <1>8, <1>0, <1>2, <2>1, <2>4, <2>5, <2>6, <2>7
  <1>9. CASE k = 2
    <2>1. n \in (w2 * BYTE) * BYTE .. (w2 * BYTE) * BYTE + BYTE * BYTE - 1
      BY <1>9, <1>0, <1>3 DEF w2
    <2>2. n1 \in w2 * BYTE .. w2 * BYTE + BYTE - 1
      <3> DEFINE q == w2 * BYTE
      <3>1. q \in Nat /\ n \in q * BYTE .. q * BYTE + BYTE * BYTE - 1
        BY <2>1, <1>0, <1>3
      <3> HIDE DEF q
      <3>2. n1 \in q .. q + BYTE - 1
        BY <3>1, <1>0, <1>a, PeelStep
      <3> QED
        BY <3>2 DEF q
    <2>5. n2 = w2
      BY <2>2, <1>0, <1>3, <1>a, PeelLast
    <2>6. n3 = b1 /\ n2 % BYTE = b2
      BY <2>5, <1>3, <1>a
    <2>7. (w2 * BYTE) * BYTE <= (BYTE * BYTE - 1) * (BYTE * BYTE)
      <3>1. w2 * (BYTE * BYTE) <= (BYTE * BYTE - 1) * (BYTE * BYTE)
        BY <1>0, <1>3, <1>5
      <3> QED
        BY <3>1, <1>0, <1>3
    <2>8. (BYTE * BYTE - 1) * (BYTE * BYTE) = WORD - BYTE * BYTE
      BY <1>0 DEF WORD
    <2>9. WORD \in Nat /\ (w2 * BYTE) * BYTE \in Nat
      BY <1>0, <1>3 DEF WORD
    <2> QED
      BY <1>c, <1>9, <1>0, <1>2, <2>1, <2>6, <2>7, <2>8, <2>9
  <1>10. CASE k = 3
    <2> DEFINE B2 == BYTE * BYTE
    <2>1. n \in (b1 * B2) * BYTE .. (b1 * B2) * BYTE + B2 * BYTE - 1
      BY <1>10, <1>0, <1>1
    <2>2. n1 \in b1 * B2 .. b1 * B2 + B2 - 1
      <3>1. b1 * B2 \in Nat /\ B2 \in Nat \ {0}
        BY <1>0, <1>1
      <3> HIDE DEF B2
      <3> QED
        BY <2>1, <3>1, <1>0, <1>a, PeelStep
    <2>3. n1 \in (b1 * BYTE) * BYTE .. (b1 * BYTE) * BYTE + BYTE * BYTE - 1
      BY <2>2, <1>0, <1>1
    <2>4. n2 \in b1 * BYTE .. b1 * BYTE + BYTE - 1
      <3> DEFINE q == b1 * BYTE
      <3>1. q \in Nat /\ n1 \in q * BYTE .. q * BYTE + BYTE * BYTE - 1
        BY <2>3, <1>0, <1>1
      <3> HIDE DEF q
      <3>2. n2 \in q .. q + BYTE - 1
        BY <3>1, <1>0, <1>a, PeelStep
      <3> QED
        BY <3>2 DEF q
    <2>7. n3 = b1
      BY <2>4, <1>0, <1>1, <1>a, PeelLast
    <2>8. b1 * (BYTE * BYTE * BYTE) <= (BYTE - 1) * (BYTE * BYTE * BYTE)
      BY <1>0, <1>1
    <2>9. (BYTE - 1) * (BYTE * BYTE * BYTE) = WORD - BYTE * BYTE * BYTE
      BY <1>0 DEF WORD
    <2>10. WORD \in Nat /\ b1 * (BYTE * BYTE * BYTE) \in Nat
      BY <1>0, <1>1 DEF WORD
    <2>11. n \in (b1 * BYTE * BYTE) * BYTE .. (b1 * BYTE * BYTE) * BYTE + BYTE * BYTE * BYTE - 1
      BY <1>10, <1>0, <1>1
    <2>12. (b1 * BYTE * BYTE) * BYTE = b1 * (BYTE * BYTE * BYTE)
      BY <1>0, <1>1
    <2>13. n < WORD
      BY <1>0, <1>2, <2>8, <2>9, <2>10, <2>11, <2>12
    <2> QED
      BY <1>c, <1>10, <2>7, <2>13
  <1> QED
    BY <1>7, <1>8, <1>9, <1>10

(***************************************************************************)
(* A number encoded, cut off after its first digits and padded lies above  *)
(* itself by less than what the digits cut off can say.                    *)
(***************************************************************************)
LEMMA PaddedReach ==
    ASSUME NEW v \in Nat, v < RADIX * (RADIX * (RADIX * (RADIX * RADIX)))
    PROVE  LET d == Digits(v)
               R == RADIX - 1
           IN  /\ Number(<< d[1], d[2], d[3], d[4], d[5] >>) = v
               /\ Number(<< d[1], d[2], d[3], d[4], R >>) \in v .. v + RADIX - 1
               /\ Number(<< d[1], d[2], d[3], R, R >>) \in v .. v + RADIX * RADIX - 1
               /\ Number(<< d[1], d[2], R, R, R >>) \in v .. v + RADIX * RADIX * RADIX - 1
  <1> DEFINE d == Digits(v)
             R == RADIX - 1
             q1 == v \div RADIX
             q2 == q1 \div RADIX
             q3 == q2 \div RADIX
  <1>0. RADIX \in Nat \ {0} /\ RADIX * RADIX \in Nat \ {0}
    BY RadixAssumption
  <1>1. /\ d[1] * RADIX + d[2] = q3 /\ q3 * RADIX + d[3] = q2
        /\ q2 * RADIX + d[4] = q1 /\ q1 * RADIX + d[5] = v
        /\ d[3] \in 0 .. RADIX - 1 /\ d[4] \in 0 .. RADIX - 1 /\ d[5] \in 0 .. RADIX - 1
        /\ q1 \in Nat /\ q2 \in Nat /\ q3 \in Nat
    BY DigitsMakeUp
  <1> HIDE DEF d, q1, q2, q3
  <1>2. /\ RADIX * q3 + d[3] = q2 /\ RADIX * q2 + d[4] = q1 /\ RADIX * q1 + d[5] = v
    BY <1>0, <1>1
  <1>3. Number(<< d[1], d[2], d[3], d[4], d[5] >>) = v
    BY <1>1 DEF Number
  <1>4. ASSUME NEW q \in Nat, NEW r \in 0 .. RADIX - 1
        PROVE  q * RADIX + R \in RADIX * q + r .. RADIX * q + r + RADIX - 1
    BY <1>0
  <1>5. q1 * RADIX + R \in v .. v + RADIX - 1
    BY <1>1, <1>2, <1>4
  <1>6. q2 * RADIX + R \in q1 .. q1 + RADIX - 1
    BY <1>1, <1>2, <1>4
  <1>7. q3 * RADIX + R \in q2 .. q2 + RADIX - 1
    BY <1>1, <1>2, <1>4
  <1>8. (q2 * RADIX + R) * RADIX + R \in v .. v + RADIX * RADIX - 1
    BY <1>0, <1>1, <1>2, <1>6, PadStep
  <1>9. (q3 * RADIX + R) * RADIX + R \in q1 .. q1 + RADIX * RADIX - 1
    BY <1>0, <1>1, <1>2, <1>7, PadStep
  <1>10. ((q3 * RADIX + R) * RADIX + R) * RADIX + R \in v .. v + RADIX * RADIX * RADIX - 1
    BY <1>0, <1>1, <1>2, <1>9, PadStep
  <1>11. /\ Number(<< d[1], d[2], d[3], d[4], R >>) = q1 * RADIX + R
         /\ Number(<< d[1], d[2], d[3], R, R >>) = (q2 * RADIX + R) * RADIX + R
         /\ Number(<< d[1], d[2], R, R, R >>) = ((q3 * RADIX + R) * RADIX + R) * RADIX + R
    BY <1>1 DEF Number
  <1> QED
    BY <1>3, <1>5, <1>8, <1>10, <1>11 DEF d

(***************************************************************************)
(* What a group of one to four bytes is encoded to (a85.py:36-61) is       *)
(* decoded to the same bytes, and is never refused for overflowing 32 bits *)
(* (a85.py:83-97), although a partial group is padded upwards.             *)
(***************************************************************************)
THEOREM GroupComesBack ==
    ASSUME NEW b \in Seq(Byte), Len(b) \in 1 .. 4
    PROVE  LET n == Number(Pad(EncodeGroup(b)))
           IN  n < WORD /\ SubSeq(u32(n), 1, Len(b)) = b
  <1> DEFINE at(k) == IF k <= Len(b) THEN b[k] ELSE 0
             a1 == at(1)
             a2 == at(2)
             a3 == at(3)
             a4 == at(4)
             v == Word(b)
             d == Digits(v)
             R == RADIX - 1
  <1>0. /\ BYTE \in Nat \ {0} /\ BYTE * BYTE \in Nat \ {0} /\ BYTE * BYTE * BYTE \in Nat \ {0}
        /\ RADIX \in Nat \ {0} /\ RADIX <= BYTE
    BY RadixAssumption
  <1>1. /\ a1 \in Byte /\ a2 \in Byte /\ a3 \in Byte /\ a4 \in Byte
        /\ a1 = b[1]
        /\ Len(b) >= 2 => a2 = b[2]
        /\ Len(b) >= 3 => a3 = b[3]
        /\ Len(b) >= 4 => a4 = b[4]
        /\ Len(b) <= 3 => a4 = 0
        /\ Len(b) <= 2 => a3 = 0
        /\ Len(b) <= 1 => a2 = 0
    BY <1>0 DEF Byte
  <1>a. v = ((a1 * BYTE + a2) * BYTE + a3) * BYTE + a4
    BY DEF Word
  <1> HIDE DEF a1, a2, a3, a4
  <1>2. v \in Nat
    <2> DEFINE x2 == a1 * BYTE + a2
               x3 == x2 * BYTE + a3
    <2>1. a1 \in Nat /\ a2 \in Nat /\ a3 \in Nat /\ a4 \in Nat
      BY <1>0, <1>1 DEF Byte
    <2>2. x2 \in Nat
      BY <1>0, <2>1
    <2>3. v = x3 * BYTE + a4
      BY <1>a
    <2> HIDE DEF x2, v
    <2>4. x3 \in Nat
      BY <1>0, <2>1, <2>2
    <2> HIDE DEF x3
    <2> QED
      BY <1>0, <2>1, <2>3, <2>4
  <1>4. v < WORD
    BY <1>1, <1>2, <1>a, TopBytes
  <1>5. v < RADIX * (RADIX * (RADIX * (RADIX * RADIX)))
    <2>1. RADIX * RADIX * RADIX * RADIX * RADIX = RADIX * (RADIX * (RADIX * (RADIX * RADIX)))
      BY <1>0
    <2> QED
      BY <1>2, <1>4, <2>1, RadixAssumption DEF WORD
  <1>6. /\ Number(<< d[1], d[2], d[3], d[4], d[5] >>) = v
        /\ Number(<< d[1], d[2], d[3], d[4], R >>) \in v .. v + RADIX - 1
        /\ Number(<< d[1], d[2], d[3], R, R >>) \in v .. v + RADIX * RADIX - 1
        /\ Number(<< d[1], d[2], R, R, R >>) \in v .. v + RADIX * RADIX * RADIX - 1
    BY <1>2, <1>5, PaddedReach
  <1>7. /\ RADIX * RADIX <= BYTE * BYTE
        /\ RADIX * RADIX * RADIX <= BYTE * BYTE * BYTE
        /\ RADIX * RADIX \in Nat /\ RADIX * RADIX * RADIX \in Nat
    <2>1. RADIX * RADIX <= BYTE * RADIX /\ BYTE * RADIX <= BYTE * BYTE
      BY <1>0
    <2>2. RADIX * RADIX \in Nat /\ BYTE * RADIX \in Nat
      BY <1>0
    <2>3. (RADIX * RADIX) * RADIX <= (BYTE * BYTE) * RADIX /\ (BYTE * BYTE) * RADIX <= (BYTE * BYTE) * BYTE
      BY <1>0, <2>1, <2>2
    <2>4. (BYTE * BYTE) * RADIX \in Nat /\ (RADIX * RADIX) * RADIX \in Nat
      BY <1>0, <2>2
    <2> QED
      BY <1>0, <2>1, <2>2, <2>3, <2>4
  <1>8. /\ d[1] \in Nat /\ d[2] \in Nat /\ d[3] \in Nat /\ d[4] \in Nat /\ d[5] \in Nat
        /\ d = << d[1], d[2], d[3], d[4], d[5] >>
    <2>1. \A i \in 1 .. 5 : d[i] \in 0 .. RADIX - 1
      BY <1>2, <1>5, DigitsMakeUp
    <2>2. d = << d[1], d[2], d[3], d[4], d[5] >>
      BY DEF Digits
    <2> HIDE DEF d
    <2> QED
      BY <1>0, <2>1, <2>2
  <1> HIDE DEF v
  <1>9. /\ Len(EncodeGroup(b)) = Len(b) + 1
        /\ \A i \in 1 .. Len(b) + 1 : EncodeGroup(b)[i] = d[i]
    <2>1. EncodeGroup(b) = SubSeq(d, 1, Len(b) + 1)
      BY DEF EncodeGroup, v
    <2> HIDE DEF d
    <2>2. Len(d) = 5 /\ d \in Seq(Nat)
      <3> DEFINE e1 == d[1]
                 e2 == d[2]
                 e3 == d[3]
                 e4 == d[4]
                 e5 == d[5]
      <3>1. /\ e1 \in Nat /\ e2 \in Nat /\ e3 \in Nat /\ e4 \in Nat /\ e5 \in Nat
            /\ d = << e1, e2, e3, e4, e5 >>
        BY <1>8
      <3> HIDE DEF e1, e2, e3, e4, e5
      <3> QED
        BY <3>1
    <2> QED
      BY <2>1, <2>2
  <1> HIDE DEF d
  <1> DEFINE p == Pad(EncodeGroup(b))
             n == Number(p)
  <1>10. \A i \in 1 .. 5 : p[i] = IF i <= Len(b) + 1 THEN d[i] ELSE R
    BY <1>9 DEF Pad
  <1>11. n = Number(<< p[1], p[2], p[3], p[4], p[5] >>)
    BY DEF Number
  <1> HIDE DEF p
  <1>12. \/ Len(b) = 4 /\ n = v
         \/ Len(b) = 3 /\ n \in v .. v + BYTE - 1
         \/ Len(b) = 2 /\ n \in v .. v + BYTE * BYTE - 1
         \/ Len(b) = 1 /\ n \in v .. v + BYTE * BYTE * BYTE - 1
    <2>1. CASE Len(b) = 4
      <3>0. p[1] = d[1] /\ p[2] = d[2] /\ p[3] = d[3] /\ p[4] = d[4] /\ p[5] = d[5]
        BY <2>1, <1>10
      <3> QED
        BY <2>1, <3>0, <1>6, <1>11
    <2>2. CASE Len(b) = 3
      <3>0. p[1] = d[1] /\ p[2] = d[2] /\ p[3] = d[3] /\ p[4] = d[4] /\ p[5] = R
        BY <2>2, <1>10
      <3>1. n \in v .. v + RADIX - 1
        BY <3>0, <1>6, <1>11
      <3> HIDE DEF n
      <3> QED
        BY <2>2, <3>1, <1>0, <1>2
    <2>3. CASE Len(b) = 2
      <3>0. p[1] = d[1] /\ p[2] = d[2] /\ p[3] = d[3] /\ p[4] = R /\ p[5] = R
        BY <2>3, <1>10
      <3>1. n \in v .. v + RADIX * RADIX - 1
        BY <3>0, <1>6, <1>11
      <3> HIDE DEF n
      <3> QED
        BY <2>3, <3>1, <1>0, <1>2, <1>7
    <2>4. CASE Len(b) = 1
      <3>0. p[1] = d[1] /\ p[2] = d[2] /\ p[3] = R /\ p[4] = R /\ p[5] = R
        BY <2>4, <1>10
      <3>1. n \in v .. v + RADIX * RADIX * RADIX - 1
        BY <3>0, <1>6, <1>11
      <3> HIDE DEF n
      <3> QED
        BY <2>4, <3>1, <1>0, <1>2, <1>7
    <2> QED
      BY <2>1, <2>2, <2>3, <2>4
  <1> HIDE DEF n
  <1>13. n \in Nat
    BY <1>0, <1>2, <1>12
  <1>14. /\ n < WORD
         /\ u32(n)[1] = a1
         /\ Len(b) >= 2 => u32(n)[2] = a2
         /\ Len(b) >= 3 => u32(n)[3] = a3
         /\ Len(b) >= 4 => u32(n)[4] = a4
    <2>1. CASE Len(b) = 4
      BY <2>1, <1>1, <1>a, <1>12, <1>13, TopBytes
    <2>2. CASE Len(b) = 3
      <3>1. v = ((a1 * BYTE + a2) * BYTE + a3) * BYTE
        BY <2>2, <1>0, <1>1, <1>a, SMTT(30) DEF Byte
      <3> QED
        BY <2>2, <3>1, <1>1, <1>12, <1>13, TopBytes
    <2>3. CASE Len(b) = 2
      <3>1. v = ((a1 * BYTE + a2) * BYTE) * BYTE
        BY <2>3, <1>0, <1>1, <1>a DEF Byte
      <3> QED
        BY <2>3, <3>1, <1>1, <1>12, <1>13, TopBytes
    <2>4. CASE Len(b) = 1
      <3>1. v = ((a1 * BYTE) * BYTE) * BYTE
        BY <2>4, <1>0, <1>1, <1>a DEF Byte
      <3> QED
        BY <2>4, <3>1, <1>1, <1>12, <1>13, TopBytes
    <2> QED
      BY <2>1, <2>2, <2>3, <2>4
  <1>15. /\ Len(SubSeq(u32(n), 1, Len(b))) = Len(b)
         /\ \A i \in 1 .. Len(b) : SubSeq(u32(n), 1, Len(b))[i] = u32(n)[i]
    <2>1. u32(n) \in Seq(Nat) /\ Len(u32(n)) = 4
      BY <1>0, <1>13 DEF u32
    <2> QED
      BY <2>1
  <1>16. \A i \in 1 .. Len(b) : SubSeq(u32(n), 1, Len(b))[i] = b[i]
    BY <1>1, <1>14, <1>15
  <1>17. SubSeq(u32(n), 1, Len(b)) = b
    BY <1>15, <1>16
  <1> QED
    BY <1>14, <1>17 DEF n, p

(***************************************************************************)
(* Induction, for a set of numbers: the least number outside of it would   *)
(* follow one inside.                                                      *)
(***************************************************************************)
Less == {ss \in Nat \X Nat : ss[1] < ss[2]}

\* A set of numbers has a least one.
LEMMA LeastNumber ==
    ASSUME NEW T \in SUBSET Nat, T # {}
    PROVE  \E x \in T : \A y \in T : x <= y
  <1>1. IsWellFoundedOn(Less, Nat)
    BY NatLessThanWellFounded DEF OpToRel, Less
  <1>2. PICK x \in T : \A y \in T : <<y, x>> \notin Less
    BY <1>1, WFMin, Zenon
  <1>3. ASSUME NEW y \in T PROVE x <= y
    <2>1. ~(y < x)
      BY <1>2 DEF Less
    <2>2. x \in Nat /\ y \in Nat
      OBVIOUS
    <2> QED
      BY <2>1, <2>2
  <1> QED
    BY <1>3

\* A set of numbers that holds 0 and the next of each number holds all of them.
LEMMA Induction ==
    ASSUME NEW T \in SUBSET Nat, 0 \in T, \A n \in T : n + 1 \in T
    PROVE  T = Nat
  <1> SUFFICES ASSUME Nat \ T # {} PROVE FALSE
    OBVIOUS
  <1>1. PICK x \in Nat \ T : \A y \in Nat \ T : x <= y
    BY LeastNumber
  <1>2. x - 1 \in Nat /\ x - 1 \in T
    BY <1>1
  <1> QED
    BY <1>2

(***************************************************************************)
(* FlattenSeq joins the prefixes of its argument one after the other.      *)
(***************************************************************************)
JoinsUp(seqs, n, g) == g = [i \in 1 .. n |-> IF i = 1 THEN seqs[i] ELSE g[i - 1] \o seqs[i]]

\* The function that FlattenSeq picks exists.
LEMMA JoinsUpExists ==
    ASSUME NEW seqs, NEW m \in Nat
    PROVE  \E g : JoinsUp(seqs, m, g)
  <1> DEFINE T == {n \in Nat : \E g : JoinsUp(seqs, n, g)}
  <1>1. 0 \in T
    <2>1. JoinsUp(seqs, 0, <<>>)
      BY DEF JoinsUp
    <2> QED
      BY <2>1
  <1>2. ASSUME NEW n \in T PROVE n + 1 \in T
    <2>1. PICK g : JoinsUp(seqs, n, g)
      OBVIOUS
    <2> DEFINE h == [i \in 1 .. n + 1 |-> IF i <= n THEN g[i] ELSE IF i = 1 THEN seqs[i] ELSE g[n] \o seqs[n + 1]]
    <2>2. n \in Nat
      OBVIOUS
    <2> HIDE DEF T
    <2>3. h = [i \in 1 .. n + 1 |-> IF i = 1 THEN seqs[i] ELSE h[i - 1] \o seqs[i]]
      <3> SUFFICES ASSUME NEW i \in 1 .. n + 1
                   PROVE  h[i] = IF i = 1 THEN seqs[i] ELSE h[i - 1] \o seqs[i]
        OBVIOUS
      <3>1. CASE i <= n
        <4>0. i \in 1 .. n
          BY <3>1, <2>2
        <4>1. g[i] = IF i = 1 THEN seqs[i] ELSE g[i - 1] \o seqs[i]
          BY <2>1, <4>0, Zenon DEF JoinsUp
        <4>2. i # 1 => h[i - 1] = g[i - 1]
          BY <3>1, <2>2
        <4> QED
          BY <3>1, <4>1, <4>2
      <3>2. CASE i = n + 1
        <4>1. i # 1 => h[i - 1] = g[n]
          BY <3>2, <2>2
        <4> QED
          BY <3>2, <4>1, <2>2
      <3> QED
        BY <3>1, <3>2, <2>2
    <2>4. JoinsUp(seqs, n + 1, h)
      BY <2>3, Zenon DEF JoinsUp
    <2> HIDE DEF h
    <2> QED
      BY <2>2, <2>4 DEF T
  <1> HIDE DEF T
  <1>3. T = Nat
    BY <1>1, <1>2, Induction DEF T
  <1> QED
    BY <1>3 DEF T

\* Two sequences that begin alike are joined alike as far as that.
LEMMA JoinsUpAlike ==
    ASSUME NEW s, NEW t, NEW m \in Nat, NEW n \in Nat, NEW g, NEW h,
           JoinsUp(s, m, g), JoinsUp(t, n, h), m <= n, \A i \in 1 .. m : s[i] = t[i]
    PROVE  \A i \in 1 .. m : g[i] = h[i]
  <1> DEFINE T == {k \in Nat : k \in 1 .. m => g[k] = h[k]}
  <1>1. 0 \in T
    OBVIOUS
  <1>2. ASSUME NEW k \in T PROVE k + 1 \in T
    <2> SUFFICES ASSUME k + 1 \in 1 .. m PROVE g[k + 1] = h[k + 1]
      OBVIOUS
    <2>1. g[k + 1] = IF k + 1 = 1 THEN s[k + 1] ELSE g[(k + 1) - 1] \o s[k + 1]
      BY Zenon DEF JoinsUp
    <2>2. k + 1 \in 1 .. n
      OBVIOUS
    <2>3. h[k + 1] = IF k + 1 = 1 THEN t[k + 1] ELSE h[(k + 1) - 1] \o t[k + 1]
      BY <2>2, Zenon DEF JoinsUp
    <2>4. k # 0 => g[k] = h[k]
      OBVIOUS
    <2> QED
      BY <2>1, <2>3, <2>4
  <1> HIDE DEF T
  <1>3. T = Nat
    BY <1>1, <1>2, Induction DEF T
  <1> QED
    BY <1>3 DEF T

\* It depends on no more of the sequences than it has joined.
LEMMA JoinedAlike ==
    ASSUME NEW s, NEW t, NEW n \in Nat \ {0}, NEW g, NEW h,
           JoinsUp(s, n, g), JoinsUp(t, n + 1, h), \A i \in 1 .. n : s[i] = t[i]
    PROVE  g[n] = h[n]
  <1>1. n + 1 \in Nat /\ n <= n + 1 /\ n \in Nat
    OBVIOUS
  <1>2. \A i \in 1 .. n : g[i] = h[i]
    BY <1>1, JoinsUpAlike
  <1>3. n \in 1 .. n
    OBVIOUS
  <1> QED
    BY <1>2, <1>3

\* Nothing joined is nothing.
LEMMA FlattenEmpty == FlattenSeq(<<>>) = <<>>
  BY DEF FlattenSeq

\* FlattenSeq is the last value of that function.
LEMMA FlattenIsLast ==
    ASSUME NEW seqs, NEW n \in Nat, n = Len(seqs), n # 0
    PROVE  \E g : JoinsUp(seqs, n, g) /\ FlattenSeq(seqs) = g[n]
  <1> DEFINE c == CHOOSE g : JoinsUp(seqs, Len(seqs), g)
  <1>1. JoinsUp(seqs, Len(seqs), c)
    BY JoinsUpExists
  <1>2. FlattenSeq(seqs) = c[Len(seqs)]
    BY Zenon DEF FlattenSeq, JoinsUp
  <1> QED
    BY <1>1, <1>2

\* A sequence longer by one is joined as the shorter one, with the last member behind it.
LEMMA FlattenStep ==
    ASSUME NEW s, NEW t, NEW n \in Nat, n = Len(s), n + 1 = Len(t), \A i \in 1 .. n : s[i] = t[i]
    PROVE  FlattenSeq(t) = IF n = 0 THEN t[n + 1] ELSE FlattenSeq(s) \o t[n + 1]
  <1>4. PICK h : JoinsUp(t, n + 1, h) /\ FlattenSeq(t) = h[n + 1]
    BY FlattenIsLast
  <1>5. h[n + 1] = IF n + 1 = 1 THEN t[n + 1] ELSE h[(n + 1) - 1] \o t[n + 1]
    <2>1. n + 1 \in 1 .. n + 1
      OBVIOUS
    <2> QED
      BY <1>4, <2>1, Zenon DEF JoinsUp
  <1>7. ASSUME n # 0 PROVE h[n] = FlattenSeq(s)
    <2>1. PICK g : JoinsUp(s, n, g) /\ FlattenSeq(s) = g[n]
      BY <1>7, FlattenIsLast
    <2> QED
      BY <1>4, <1>7, <2>1, JoinedAlike
  <1>8. (n + 1) - 1 = n
    OBVIOUS
  <1> QED
    BY <1>4, <1>5, <1>7, <1>8

\* The same, for sequences of sequences and Append.
LEMMA FlattenAppend ==
    ASSUME NEW S, NEW seqs \in Seq(Seq(S)), NEW x \in Seq(S)
    PROVE  FlattenSeq(Append(seqs, x)) = FlattenSeq(seqs) \o x
  <1>1. PICK t : t = Append(seqs, x)
    OBVIOUS
  <1>2. PICK n \in Nat : n = Len(seqs)
    OBVIOUS
  <1>3. n + 1 = Len(t) /\ t[n + 1] = x /\ \A i \in 1 .. n : seqs[i] = t[i]
    BY <1>1, <1>2
  <1>4. FlattenSeq(t) = IF n = 0 THEN t[n + 1] ELSE FlattenSeq(seqs) \o t[n + 1]
    BY <1>2, <1>3, FlattenStep
  <1>6. CASE n = 0
    <2>1. seqs = <<>>
      BY <1>2, <1>6, EmptySeq
    <2>2. x = <<>> \o x
      BY ConcatEmptySeq
    <2>3. FlattenSeq(seqs) = <<>>
      BY <2>1, FlattenEmpty
    <2> QED
      BY <1>1, <1>3, <1>4, <1>6, <2>2, <2>3
  <1> QED
    BY <1>1, <1>3, <1>4, <1>6

\* What is joined are elements of what is joined.
LEMMA FlattenType ==
    ASSUME NEW S, NEW seqs \in Seq(Seq(S))
    PROVE  FlattenSeq(seqs) \in Seq(S)
  <1> DEFINE T == {n \in Nat : \A s \in Seq(Seq(S)) : Len(s) = n => FlattenSeq(s) \in Seq(S)}
  <1>1. 0 \in T
    <2>1. \A s \in Seq(Seq(S)) : Len(s) = 0 => s = <<>>
      OBVIOUS
    <2> QED
      BY <2>1, FlattenEmpty
  <1>2. ASSUME NEW n \in T PROVE n + 1 \in T
    <2> SUFFICES ASSUME NEW s \in Seq(Seq(S)), Len(s) = n + 1 PROVE FlattenSeq(s) \in Seq(S)
      OBVIOUS
    <2>1. PICK f \in Seq(Seq(S)), x \in Seq(S) : s = Append(f, x) /\ Len(f) = n
      <3>1. n \in Nat /\ s # <<>>
        OBVIOUS
      <3> HIDE DEF T
      <3>2. PICK f \in Seq(Seq(S)), x \in Seq(S) : s = Append(f, x)
        BY <3>1, SequenceEmptyOrAppend
      <3>3. Len(s) = Len(f) + 1 /\ Len(f) \in Nat
        BY <3>2
      <3>4. Len(f) = n
        BY <3>1, <3>3
      <3> QED
        BY <3>2, <3>4, Zenon
    <2>2. FlattenSeq(s) = FlattenSeq(f) \o x /\ FlattenSeq(f) \in Seq(S)
      BY <2>1, FlattenAppend
    <2> QED
      BY <2>2
  <1> HIDE DEF T
  <1>3. T = Nat
    BY <1>1, <1>2, Induction DEF T
  <1>4. Len(seqs) \in T
    BY <1>3
  <1> QED
    BY <1>4 DEF T

\* The first n elements of a sequence.
LEMMA PrefixType ==
    ASSUME NEW S, NEW s \in Seq(S), NEW n \in Nat, n <= Len(s)
    PROVE  /\ SubSeq(s, 1, n) \in Seq(S)
           /\ Len(SubSeq(s, 1, n)) = n
           /\ \A i \in 1 .. n : SubSeq(s, 1, n)[i] = s[i]
  OBVIOUS

\* A sequence that is not empty is another one with an element behind it.
LEMMA LastOf ==
    ASSUME NEW S, NEW s \in Seq(S), NEW n \in Nat, Len(s) = n + 1
    PROVE  \E e \in Seq(S), c \in S : s = Append(e, c) /\ Len(e) = n
  <1>1. PICK m \in Nat : m = Len(s)
    OBVIOUS
  <1>2. m # 0 /\ m = n + 1
    BY <1>1
  <1>3. s # <<>>
    BY <1>1, <1>2, EmptySeq
  <1>4. PICK e \in Seq(S), c \in S : s = Append(e, c)
    BY <1>3, SequenceEmptyOrAppend
  <1>5. PICK k \in Nat : k = Len(e) /\ m = k + 1
    BY <1>1, <1>4, AppendProperties, LenProperties
  <1>6. k = n
    BY <1>2, <1>5
  <1> QED
    BY <1>4, <1>5, <1>6

(***************************************************************************)
(* A fold over a sequence goes from prefix to prefix.                      *)
(***************************************************************************)
LEMMA MaxPrefix ==
    ASSUME NEW k \in Nat
    PROVE  /\ 1 .. k + 1 # {}
           /\ Max(1 .. k + 1) = k + 1
           /\ (1 .. k + 1) \ {k + 1} = 1 .. k
           /\ 1 .. 0 = {}
  BY DEF Max

\* The function by which MapThenFoldSet, and so FoldLeft, folds the numbers up to n: largest
\* last.
FoldsUp(g, step, base, n) ==
    \A s \in SUBSET (1 .. n) :
        /\ s = {} => g[s] = base
        /\ s # {} => Max(s) \in 1 .. n /\ g[s] = step[<<g[s \ {Max(s)}], Max(s)>>]

\* That function exists, where every step stays in one set.
LEMMA FoldExists ==
    ASSUME NEW X, NEW base \in X, NEW m \in Nat, NEW step \in [X \X (1 .. m) -> X]
    PROVE  \E g \in [SUBSET (1 .. m) -> X] : FoldsUp(g, step, base, m)
  <1> DEFINE Good(n, g) == FoldsUp(g, step, base, n)
             T == {n \in Nat : n <= m => \E g \in [SUBSET (1 .. n) -> X] : Good(n, g)}
  <1>1. 0 \in T
    <2> DEFINE g0 == [s \in SUBSET (1 .. 0) |-> base]
    <2>1. \A s \in SUBSET (1 .. 0) : s = {}
      OBVIOUS
    <2>2. g0 \in [SUBSET (1 .. 0) -> X] /\ \A s \in SUBSET (1 .. 0) : g0[s] = base
      OBVIOUS
    <2> HIDE DEF g0
    <2>3. Good(0, g0)
      BY <2>1, <2>2 DEF FoldsUp
    <2> QED
      BY <2>2, <2>3
  <1>2. ASSUME NEW n \in T PROVE n + 1 \in T
    <2> HIDE DEF Good
    <2>a. n + 1 \in Nat
      OBVIOUS
    <2> SUFFICES ASSUME n + 1 <= m PROVE \E g \in [SUBSET (1 .. n + 1) -> X] : Good(n + 1, g)
      BY <2>a, Zenon
    <2>0. n \in Nat /\ n <= m
      OBVIOUS
    <2>1. PICK g \in [SUBSET (1 .. n) -> X] : Good(n, g)
      BY <2>0
    <2> HIDE DEF T
    <2> USE DEF Good, FoldsUp
    <2> DEFINE N == n + 1
               h == [s \in SUBSET (1 .. N) |-> IF N \in s THEN step[<<g[s \ {N}], N>>] ELSE g[s]]
    <2>2. ASSUME NEW s \in SUBSET (1 .. N), N \in s
          PROVE  s \ {N} \in SUBSET (1 .. n) /\ Max(s) = N
      <3>1. \A x \in s : x \in 1 .. N
        OBVIOUS
      <3>2. \A x \in s : x <= N /\ (x # N => x \in 1 .. n)
        BY <3>1, <2>0
      <3>3. Max(s) \in s /\ Max(s) >= N
        <4>1. N \in s /\ \A y \in s : N >= y
          BY <2>2, <3>2, <2>0
        <4> HIDE DEF N
        <4> QED
          BY <4>1 DEF Max
      <3>4. Max(s) \in 1 .. N /\ Max(s) <= N
        BY <3>1, <3>2, <3>3
      <3> QED
        BY <3>2, <3>3, <3>4, <2>0
    <2>3. ASSUME NEW s \in SUBSET (1 .. N), N \notin s
          PROVE  s \in SUBSET (1 .. n)
      <3>1. \A x \in 1 .. N : x # N => x \in 1 .. n
        BY <2>0
      <3> QED
        BY <2>3, <3>1
    <2>5. N \in 1 .. m /\ \A x \in 1 .. n : x \in 1 .. N
      BY <2>0
    <2>4. h \in [SUBSET (1 .. N) -> X]
      <3> SUFFICES ASSUME NEW s \in SUBSET (1 .. N) PROVE h[s] \in X
        OBVIOUS
      <3>1. CASE N \in s
        BY <3>1, <2>2, <2>5
      <3>2. CASE N \notin s
        BY <3>2, <2>3
      <3> QED
        BY <3>1, <3>2
    <2>6. ASSUME NEW s \in SUBSET (1 .. N), s = {} PROVE h[s] = base
      BY <2>1, <2>6
    <2>7. ASSUME NEW s \in SUBSET (1 .. N), s # {}
          PROVE  Max(s) \in 1 .. N /\ h[s] = step[<<h[s \ {Max(s)}], Max(s)>>]
      <3>1. CASE N \in s
        <4>1. s \ {N} \in SUBSET (1 .. n) /\ Max(s) = N
          BY <3>1, <2>2
        <4>2. h[s \ {N}] = g[s \ {N}]
          OBVIOUS
        <4>3. N \in 1 .. N
          BY <2>0
        <4> QED
          BY <3>1, <4>1, <4>2, <4>3
      <3>2. CASE N \notin s
        <4>1. s \in SUBSET (1 .. n)
          BY <3>2, <2>3
        <4>2. Max(s) \in 1 .. n /\ g[s] = step[<<g[s \ {Max(s)}], Max(s)>>]
          BY <4>1, <2>1, <2>7
        <4>3. h[s] = g[s] /\ h[s \ {Max(s)}] = g[s \ {Max(s)}]
          BY <3>2
        <4> QED
          BY <4>2, <4>3, <2>5
      <3> QED
        BY <3>1, <3>2
    <2> HIDE DEF h
    <2>8. Good(N, h)
      BY <2>6, <2>7
    <2> QED
      BY <2>4, <2>8
  <1> HIDE DEF T, Good
  <1>3. T = Nat
    BY <1>1, <1>2, Induction DEF T
  <1>4. m \in T /\ m <= m
    BY <1>3
  <1>5. \E g \in [SUBSET (1 .. m) -> X] : Good(m, g)
    BY <1>4 DEF T
  <1> QED
    BY <1>5 DEF Good

(***************************************************************************)
(* Types of the two decoders.                                              *)
(***************************************************************************)
start == [ok |-> TRUE, data |-> <<>>, group |-> <<>>]
\* The decoder's state, with its type: less than a group is pending.
State == [ok : BOOLEAN, data : Seq(Byte), group : {g \in Seq(Digit) : Len(g) < 5}]

\* Five digits are a number.
LEMMA NumberType ==
    ASSUME NEW d1 \in Digit, NEW d2 \in Digit, NEW d3 \in Digit, NEW d4 \in Digit, NEW d5 \in Digit,
           NEW d, d[1] = d1, d[2] = d2, d[3] = d3, d[4] = d4, d[5] = d5
    PROVE  Number(d) \in Nat
  <1>1. /\ d1 \in Nat /\ d2 \in Nat /\ d3 \in Nat /\ d4 \in Nat /\ d5 \in Nat
        /\ RADIX \in Nat
    BY RadixAssumption DEF Digit
  <1>2. PICK n2 \in Nat : n2 = d1 * RADIX + d2
    BY <1>1
  <1>3. PICK n3 \in Nat : n3 = n2 * RADIX + d3
    BY <1>1
  <1>4. PICK n4 \in Nat : n4 = n3 * RADIX + d4
    BY <1>1
  <1>5. PICK n5 \in Nat : n5 = n4 * RADIX + d5
    BY <1>1
  <1> QED
    BY <1>2, <1>3, <1>4, <1>5 DEF Number

\* A number of 32 bits has four bytes.
LEMMA U32Type ==
    ASSUME NEW n \in Nat, n < WORD
    PROVE  u32(n) \in Seq(Byte) /\ Len(u32(n)) = 4
  <1>0. BYTE \in Nat \ {0} /\ BYTE * BYTE \in Nat /\ BYTE * BYTE * BYTE \in Nat
    BY RadixAssumption
  <1>1. PICK b1 \in Nat : b1 = n \div BYTE
    BY <1>0
  <1>2. PICK b2 \in Nat : b2 = b1 \div BYTE
    BY <1>0
  <1>3. PICK b3 \in Nat : b3 = b2 \div BYTE
    BY <1>0
  <1>4. b3 < BYTE
    <2>1. b1 < BYTE * BYTE * BYTE
      <3>1. n < BYTE * (BYTE * BYTE * BYTE)
        BY <1>0 DEF WORD
      <3> QED
        BY <1>0, <1>1, <3>1, DivLess
    <2>2. b2 < BYTE * BYTE
      <3>1. b1 < BYTE * (BYTE * BYTE)
        BY <1>0, <2>1
      <3> QED
        BY <1>0, <1>2, <3>1, DivLess
    <2> QED
      BY <1>0, <1>3, <2>2, DivLess
  <1>5. /\ b3 \in Byte /\ b2 % BYTE \in Byte /\ b1 % BYTE \in Byte /\ n % BYTE \in Byte
    BY <1>0, <1>4, DivMod DEF Byte
  <1>6. u32(n) = << b3, b2 % BYTE, b1 % BYTE, n % BYTE >>
    BY <1>1, <1>2, <1>3 DEF u32
  <1> QED
    BY <1>5, <1>6

\* The digits are characters, and none of them is one of the special ones.
LEMMA DigitType == Digit \subseteq Character /\ SPACE \notin Digit /\ ZEE \notin Digit /\ CONTROL \notin Digit
  BY DEF Digit, Character, SPACE, ZEE, CONTROL

\* What a `z' stands for are four bytes.
LEMMA ZeroBytes == <<0, 0, 0, 0>> \in Seq(Byte)
  BY RadixAssumption DEF Byte

\* The bound on a group's number is positive.
LEMMA WordType == WORD \in Nat \ {0}
  <1>1. BYTE \in Nat \ {0} /\ BYTE * BYTE \in Nat \ {0} /\ BYTE * BYTE * BYTE \in Nat \ {0}
    BY RadixAssumption
  <1> QED
    BY <1>1 DEF WORD

\* Setting a field of the state keeps its type.
LEMMA Fields ==
    ASSUME NEW st \in State, NEW d \in Seq(Byte), NEW g \in Seq(Digit), Len(g) < 5
    PROVE  /\ [st EXCEPT !.ok = FALSE] \in State
           /\ [st EXCEPT !.data = d] \in State
           /\ [st EXCEPT !.group = g] \in State
           /\ [st EXCEPT !.group = <<>>, !.data = d] \in State
  <1> DEFINE G == {h \in Seq(Digit) : Len(h) < 5}
  <1>1. g \in G /\ <<>> \in G
    OBVIOUS
  <1>2. State = [ok : BOOLEAN, data : Seq(Byte), group : G]
    BY DEF State
  <1> HIDE DEF G
  <1> QED
    BY <1>1, <1>2

\* One more digit in a group.
LEMMA FullGroup ==
    ASSUME NEW g \in Seq(Digit), NEW c \in Digit, NEW n \in Nat, n = Len(g)
    PROVE  /\ Append(g, c) \in Seq(Digit)
           /\ Len(Append(g, c)) = n + 1
           /\ n = 4 => Number(Append(g, c)) \in Nat
  <1>1. PICK h : h = Append(g, c)
    OBVIOUS
  <1>2. h \in Seq(Digit) /\ Len(h) = n + 1
    BY <1>1, AppendProperties
  <1>3. ASSUME n = 4 PROVE Number(h) \in Nat
    <2>1. \A i \in 1 .. 5 : h[i] \in Digit
      <3>1. \A i \in 1 .. Len(h) : h[i] \in Digit
        BY <1>2, ElementOfSeq
      <3> QED
        BY <1>2, <1>3, <3>1
    <2>2. h[1] \in Digit /\ h[2] \in Digit /\ h[3] \in Digit /\ h[4] \in Digit /\ h[5] \in Digit
      BY <2>1
    <2> QED
      BY <2>2, NumberType
  <1> QED
    BY <1>1, <1>2, <1>3

\* A character keeps the type of the device's decoder state.
LEMMA TakeType ==
    ASSUME NEW st \in State, NEW c \in Character
    PROVE  TakeCharacter(st, c) \in State
  <1>1. st.ok \in BOOLEAN /\ st.data \in Seq(Byte) /\ st.group \in Seq(Digit) /\ Len(st.group) < 5
    BY DEF State
  <1>2. PICK n \in Nat : n = Len(st.group)
    BY <1>1
  <1>3. [st EXCEPT !.ok = FALSE] \in State
    BY <1>1, Fields
  <1>4. [st EXCEPT !.data = @ \o <<0, 0, 0, 0>>] \in State
    <2>1. st.data \o <<0, 0, 0, 0>> \in Seq(Byte)
      BY <1>1, ZeroBytes, ConcatProperties
    <2> QED
      BY <1>1, <2>1, Fields
  <1> DEFINE g == Append(st.group, c)
  <1>5. ASSUME c \in Digit, Len(g) < 5 PROVE [st EXCEPT !.group = g] \in State
    <2>1. g \in Seq(Digit)
      BY <1>1, <1>2, <1>5, FullGroup
    <2> HIDE DEF g
    <2> QED
      BY <1>1, <1>5, <2>1, Fields
  <1>6. ASSUME c \in Digit, ~(Len(g) < 5), ~(Number(g) >= WORD)
        PROVE  [st EXCEPT !.group = <<>>, !.data = @ \o u32(Number(g))] \in State
    <2>1. g \in Seq(Digit) /\ Len(g) = n + 1 /\ (n = 4 => Number(g) \in Nat)
      BY <1>1, <1>2, <1>6, FullGroup
    <2> HIDE DEF g
    <2>a. n < 5 /\ ~(n + 1 < 5)
      BY <1>1, <1>2, <1>6, <2>1, Zenon
    <2>2. Number(g) \in Nat
      BY <2>1, <2>a
    <2>3. u32(Number(g)) \in Seq(Byte)
      BY <1>6, <2>2, U32Type, WordType
    <2>4. st.data \o u32(Number(g)) \in Seq(Byte)
      BY <1>1, <2>3, ConcatProperties
    <2> QED
      BY <1>1, <2>4, Fields
  <1> HIDE DEF g
  <1> QED
    BY <1>3, <1>4, <1>5, <1>6, Zenon DEF TakeCharacter, g

\* A character keeps the type of the host's decoder state.
LEMMA GoTakeType ==
    ASSUME NEW st \in State, NEW c \in Character, NEW room
    PROVE  GoTakeCharacter(st, c, room) \in State
  <1>1. st.ok \in BOOLEAN /\ st.data \in Seq(Byte) /\ st.group \in Seq(Digit) /\ Len(st.group) < 5
    BY DEF State
  <1>2. PICK n \in Nat : n = Len(st.group)
    BY <1>1
  <1>3. [st EXCEPT !.ok = FALSE] \in State
    BY <1>1, Fields
  <1>4. [st EXCEPT !.data = @ \o <<0, 0, 0, 0>>] \in State
    <2>1. st.data \o <<0, 0, 0, 0>> \in Seq(Byte)
      BY <1>1, ZeroBytes, ConcatProperties
    <2> QED
      BY <1>1, <2>1, Fields
  <1> DEFINE g == Append(st.group, c)
  <1>5. ASSUME c \in Digit, Len(g) < 5 PROVE [st EXCEPT !.group = g] \in State
    <2>1. g \in Seq(Digit)
      BY <1>1, <1>2, <1>5, FullGroup
    <2> HIDE DEF g
    <2> QED
      BY <1>1, <1>5, <2>1, Fields
  <1>6. ASSUME c \in Digit, ~(Len(g) < 5)
        PROVE  [st EXCEPT !.group = <<>>, !.data = @ \o u32(Number(g) % WORD)] \in State
    <2>1. g \in Seq(Digit) /\ Len(g) = n + 1 /\ (n = 4 => Number(g) \in Nat)
      BY <1>1, <1>2, <1>6, FullGroup
    <2> HIDE DEF g
    <2>a. n < 5 /\ ~(n + 1 < 5)
      BY <1>1, <1>2, <1>6, <2>1, Zenon
    <2>2. Number(g) \in Nat
      BY <2>1, <2>a
    <2>3. Number(g) % WORD \in Nat /\ Number(g) % WORD < WORD
      BY <2>2, WordType, DivMod
    <2>4. u32(Number(g) % WORD) \in Seq(Byte)
      BY <2>3, U32Type
    <2>5. st.data \o u32(Number(g) % WORD) \in Seq(Byte)
      BY <1>1, <2>4, ConcatProperties
    <2> QED
      BY <1>1, <2>5, Fields
  <1> HIDE DEF g
  <1> QED
    BY <1>3, <1>4, <1>5, <1>6, Zenon DEF GoTakeCharacter, g

(***************************************************************************)
(* Decoding goes character by character.                                   *)
(***************************************************************************)
Run(text) == FoldLeft(TakeCharacter, start, text)
\* The host's decoder, run over a text.
GoRun(text, room) == FoldLeft(LAMBDA s, c : GoTakeCharacter(s, c, room), start, text)

\* Both decoders start in a state.
LEMMA StartType == start \in State
  <1>1. <<>> \in Seq(Byte) /\ <<>> \in Seq(Digit) /\ Len(<<>>) < 5
    BY EmptySeq
  <1> QED
    BY <1>1 DEF State, start

\* The states gone through.
Steps(st, text) ==
    /\ st[0] = start
    /\ \A k \in 1 .. Len(text) : st[k] = TakeCharacter(st[k - 1], text[k])

\* The states the host's decoder goes through.
GoSteps(st, text, room) ==
    /\ st[0] = start
    /\ \A k \in 1 .. Len(text) : st[k] = GoTakeCharacter(st[k - 1], text[k], room)

\* The device's decoder goes through states, one for each character.
LEMMA RunSteps ==
    ASSUME NEW text \in Seq(Character)
    PROVE  \E st : Steps(st, text) /\ Run(text) = st[Len(text)]
  <1>0. PICK n \in Nat : n = Len(text) /\ DOMAIN text = 1 .. n
    BY LenProperties
  <1>1. \A k \in 1 .. n : text[k] \in Character
    BY <1>0, ElementOfSeq
  <1> DEFINE Right(g) == g = [s \in SUBSET (1 .. n) |->
                               IF s = {} THEN start ELSE TakeCharacter(g[s \ {Max(s)}], text[Max(s)])]
             c == CHOOSE g : Right(g)
  <1>2. \E g : Right(g)
    <2> DEFINE step == [p \in State \X (1 .. n) |-> TakeCharacter(p[1], text[p[2]])]
    <2>1. step \in [State \X (1 .. n) -> State]
      BY <1>1, TakeType
    <2>2. \A x \in State, k \in 1 .. n : step[<<x, k>>] = TakeCharacter(x, text[k])
      OBVIOUS
    <2> HIDE DEF step
    <2>3. PICK g \in [SUBSET (1 .. n) -> State] : FoldsUp(g, step, start, n)
      BY <2>1, StartType, FoldExists
    <2>4. \A s \in SUBSET (1 .. n) : g[s] = IF s = {} THEN start ELSE TakeCharacter(g[s \ {Max(s)}], text[Max(s)])
      <3> SUFFICES ASSUME NEW s \in SUBSET (1 .. n), s # {}
                   PROVE  g[s] = TakeCharacter(g[s \ {Max(s)}], text[Max(s)])
        BY <2>3 DEF FoldsUp
      <3>1. Max(s) \in 1 .. n /\ g[s \ {Max(s)}] \in State
        BY <2>3 DEF FoldsUp
      <3> QED
        BY <2>2, <2>3, <3>1 DEF FoldsUp
    <2> QED
      BY <2>4
  <1>3. Right(c)
    BY <1>2
  <1>4. Run(text) = c[1 .. n]
    BY <1>0, Zenon DEF Run, FoldLeft, MapThenFoldSet
  <1> HIDE DEF c
  <1>5. \A s \in SUBSET (1 .. n) : c[s] = IF s = {} THEN start ELSE TakeCharacter(c[s \ {Max(s)}], text[Max(s)])
    BY <1>3, Zenon
  <1> HIDE DEF Right
  <1> DEFINE st == [k \in 0 .. n |-> c[1 .. k]]
  <1>6. st[0] = start
    <2>1. 1 .. 0 = {} /\ 1 .. 0 \in SUBSET (1 .. n) /\ 0 \in 0 .. n
      OBVIOUS
    <2> QED
      BY <1>5, <2>1
  <1>7. ASSUME NEW k \in 1 .. n PROVE st[k] = TakeCharacter(st[k - 1], text[k])
    <2>1. k - 1 \in Nat /\ k - 1 \in 0 .. n /\ k \in 0 .. n /\ (k - 1) + 1 = k /\ 1 .. k \in SUBSET (1 .. n)
      OBVIOUS
    <2>2. 1 .. k # {} /\ Max(1 .. k) = k /\ (1 .. k) \ {k} = 1 .. k - 1
      BY <2>1, MaxPrefix
    <2>3. c[1 .. k] = TakeCharacter(c[1 .. k - 1], text[k])
      BY <1>5, <2>1, <2>2
    <2> QED
      BY <2>1, <2>3
  <1>8. st[n] = c[1 .. n]
    OBVIOUS
  <1> HIDE DEF st
  <1> QED
    BY <1>0, <1>4, <1>6, <1>7, <1>8 DEF Steps

\* The states before the last character do not depend on it.
LEMMA StepsAlike ==
    ASSUME NEW s \in Seq(Character), NEW c \in Character, NEW f, NEW g,
           Steps(f, s), Steps(g, Append(s, c))
    PROVE  /\ g[Len(s) + 1] = TakeCharacter(f[Len(s)], c)
           /\ f[Len(s)] \in State
  <1>0. PICK n \in Nat : n = Len(s)
    OBVIOUS
  <1>1. PICK t : t = Append(s, c)
    OBVIOUS
  <1>2. Len(t) = n + 1 /\ t[n + 1] = c /\ (\A k \in 1 .. n : t[k] = s[k] /\ s[k] \in Character)
    BY <1>0, <1>1, AppendProperties, ElementOfSeq
  <1>3. f[0] = start /\ g[0] = start
    BY DEF Steps
  <1>4. /\ \A k \in 1 .. n : f[k] = TakeCharacter(f[k - 1], s[k])
        /\ \A k \in 1 .. n + 1 : g[k] = TakeCharacter(g[k - 1], t[k])
    BY <1>0, <1>1, <1>2 DEF Steps
  <1> DEFINE T == {k \in Nat : k <= n => f[k] = g[k] /\ f[k] \in State}
  <1>5. 0 \in T
    BY <1>3, StartType
  <1>6. ASSUME NEW k \in T PROVE k + 1 \in T
    <2> SUFFICES ASSUME k + 1 <= n PROVE f[k + 1] = g[k + 1] /\ f[k + 1] \in State
      OBVIOUS
    <2>1. k + 1 \in 1 .. n /\ k + 1 \in 1 .. n + 1 /\ (k + 1) - 1 = k /\ f[k] = g[k] /\ f[k] \in State
      OBVIOUS
    <2> HIDE DEF T
    <2>2. f[k + 1] = TakeCharacter(f[k], s[k + 1]) /\ g[k + 1] = TakeCharacter(g[k], s[k + 1])
      BY <1>2, <1>4, <2>1
    <2> QED
      BY <1>2, <2>1, <2>2, TakeType
  <1> HIDE DEF T
  <1>7. T = Nat
    BY <1>5, <1>6, Induction DEF T
  <1>8. f[n] = g[n] /\ f[n] \in State
    BY <1>7 DEF T
  <1>9. n + 1 \in 1 .. n + 1 /\ (n + 1) - 1 = n
    OBVIOUS
  <1> QED
    BY <1>0, <1>2, <1>4, <1>8, <1>9

\* No text leaves the decoder where it starts.
LEMMA RunEmpty == Run(<<>>) = start
  <1>1. <<>> \in Seq(Character) /\ Len(<<>>) = 0
    BY EmptySeq
  <1>2. PICK st : Steps(st, <<>>) /\ Run(<<>>) = st[Len(<<>>)]
    BY <1>1, RunSteps
  <1> QED
    BY <1>1, <1>2 DEF Steps

\* One more character is one more step of the device's decoder.
LEMMA RunAppend ==
    ASSUME NEW s \in Seq(Character), NEW c \in Character
    PROVE  Run(Append(s, c)) = TakeCharacter(Run(s), c) /\ Run(s) \in State
  <1>1. PICK f : Steps(f, s) /\ Run(s) = f[Len(s)]
    BY RunSteps
  <1>2. Append(s, c) \in Seq(Character) /\ Len(Append(s, c)) = Len(s) + 1
    BY AppendProperties
  <1>3. PICK g : Steps(g, Append(s, c)) /\ Run(Append(s, c)) = g[Len(s) + 1]
    BY <1>2, RunSteps
  <1> QED
    BY <1>1, <1>3, StepsAlike

\* The host's decoder goes through states, one for each character.
LEMMA GoRunSteps ==
    ASSUME NEW text \in Seq(Character), NEW room
    PROVE  \E st : GoSteps(st, text, room) /\ GoRun(text, room) = st[Len(text)]
  <1>0. PICK n \in Nat : n = Len(text) /\ DOMAIN text = 1 .. n
    BY LenProperties
  <1>1. \A k \in 1 .. n : text[k] \in Character
    BY <1>0, ElementOfSeq
  <1> DEFINE Right(g) == g = [s \in SUBSET (1 .. n) |->
                               IF s = {} THEN start ELSE GoTakeCharacter(g[s \ {Max(s)}], text[Max(s)], room)]
             c == CHOOSE g : Right(g)
  <1>2. \E g : Right(g)
    <2> DEFINE step == [p \in State \X (1 .. n) |-> GoTakeCharacter(p[1], text[p[2]], room)]
    <2>1. step \in [State \X (1 .. n) -> State]
      BY <1>1, GoTakeType
    <2>2. \A x \in State, k \in 1 .. n : step[<<x, k>>] = GoTakeCharacter(x, text[k], room)
      OBVIOUS
    <2> HIDE DEF step
    <2>3. PICK g \in [SUBSET (1 .. n) -> State] : FoldsUp(g, step, start, n)
      BY <2>1, StartType, FoldExists
    <2>4. \A s \in SUBSET (1 .. n) : g[s] = IF s = {} THEN start ELSE GoTakeCharacter(g[s \ {Max(s)}], text[Max(s)], room)
      <3> SUFFICES ASSUME NEW s \in SUBSET (1 .. n), s # {}
                   PROVE  g[s] = GoTakeCharacter(g[s \ {Max(s)}], text[Max(s)], room)
        BY <2>3 DEF FoldsUp
      <3>1. Max(s) \in 1 .. n /\ g[s \ {Max(s)}] \in State
        BY <2>3 DEF FoldsUp
      <3> QED
        BY <2>2, <2>3, <3>1 DEF FoldsUp
    <2> QED
      BY <2>4
  <1>3. Right(c)
    BY <1>2
  <1>4. GoRun(text, room) = c[1 .. n]
    BY <1>0, Zenon DEF GoRun, FoldLeft, MapThenFoldSet
  <1> HIDE DEF c
  <1>5. \A s \in SUBSET (1 .. n) : c[s] = IF s = {} THEN start ELSE GoTakeCharacter(c[s \ {Max(s)}], text[Max(s)], room)
    BY <1>3, Zenon
  <1> HIDE DEF Right
  <1> DEFINE st == [k \in 0 .. n |-> c[1 .. k]]
  <1>6. st[0] = start
    <2>1. 1 .. 0 = {} /\ 1 .. 0 \in SUBSET (1 .. n) /\ 0 \in 0 .. n
      OBVIOUS
    <2> QED
      BY <1>5, <2>1
  <1>7. ASSUME NEW k \in 1 .. n PROVE st[k] = GoTakeCharacter(st[k - 1], text[k], room)
    <2>1. k - 1 \in Nat /\ k - 1 \in 0 .. n /\ k \in 0 .. n /\ (k - 1) + 1 = k /\ 1 .. k \in SUBSET (1 .. n)
      OBVIOUS
    <2>2. 1 .. k # {} /\ Max(1 .. k) = k /\ (1 .. k) \ {k} = 1 .. k - 1
      BY <2>1, MaxPrefix
    <2>3. c[1 .. k] = GoTakeCharacter(c[1 .. k - 1], text[k], room)
      BY <1>5, <2>1, <2>2
    <2> QED
      BY <2>1, <2>3
  <1>8. st[n] = c[1 .. n]
    OBVIOUS
  <1> HIDE DEF st
  <1> QED
    BY <1>0, <1>4, <1>6, <1>7, <1>8 DEF GoSteps

\* The states before the last character do not depend on it.
LEMMA GoStepsAlike ==
    ASSUME NEW s \in Seq(Character), NEW c \in Character, NEW f, NEW g, NEW room,
           GoSteps(f, s, room), GoSteps(g, Append(s, c), room)
    PROVE  /\ g[Len(s) + 1] = GoTakeCharacter(f[Len(s)], c, room)
           /\ f[Len(s)] \in State
  <1>0. PICK n \in Nat : n = Len(s)
    OBVIOUS
  <1>1. PICK t : t = Append(s, c)
    OBVIOUS
  <1>2. Len(t) = n + 1 /\ t[n + 1] = c /\ (\A k \in 1 .. n : t[k] = s[k] /\ s[k] \in Character)
    BY <1>0, <1>1, AppendProperties, ElementOfSeq
  <1>3. f[0] = start /\ g[0] = start
    BY DEF GoSteps
  <1>4. /\ \A k \in 1 .. n : f[k] = GoTakeCharacter(f[k - 1], s[k], room)
        /\ \A k \in 1 .. n + 1 : g[k] = GoTakeCharacter(g[k - 1], t[k], room)
    BY <1>0, <1>1, <1>2 DEF GoSteps
  <1> DEFINE T == {k \in Nat : k <= n => f[k] = g[k] /\ f[k] \in State}
  <1>5. 0 \in T
    BY <1>3, StartType
  <1>6. ASSUME NEW k \in T PROVE k + 1 \in T
    <2> SUFFICES ASSUME k + 1 <= n PROVE f[k + 1] = g[k + 1] /\ f[k + 1] \in State
      OBVIOUS
    <2>1. k + 1 \in 1 .. n /\ k + 1 \in 1 .. n + 1 /\ (k + 1) - 1 = k /\ f[k] = g[k] /\ f[k] \in State
      OBVIOUS
    <2> HIDE DEF T
    <2>2. f[k + 1] = GoTakeCharacter(f[k], s[k + 1], room) /\ g[k + 1] = GoTakeCharacter(g[k], s[k + 1], room)
      BY <1>2, <1>4, <2>1
    <2> QED
      BY <1>2, <2>1, <2>2, GoTakeType
  <1> HIDE DEF T
  <1>7. T = Nat
    BY <1>5, <1>6, Induction DEF T
  <1>8. f[n] = g[n] /\ f[n] \in State
    BY <1>7 DEF T
  <1>9. n + 1 \in 1 .. n + 1 /\ (n + 1) - 1 = n
    OBVIOUS
  <1> QED
    BY <1>0, <1>2, <1>4, <1>8, <1>9

\* No text leaves the host's decoder where it starts.
LEMMA GoRunEmpty ==
    ASSUME NEW room
    PROVE  GoRun(<<>>, room) = start
  <1>1. <<>> \in Seq(Character) /\ Len(<<>>) = 0
    BY EmptySeq
  <1>2. PICK st : GoSteps(st, <<>>, room) /\ GoRun(<<>>, room) = st[Len(<<>>)]
    BY <1>1, GoRunSteps
  <1> QED
    BY <1>1, <1>2 DEF GoSteps

\* One more character is one more step of the host's decoder.
LEMMA GoRunAppend ==
    ASSUME NEW s \in Seq(Character), NEW c \in Character, NEW room
    PROVE  GoRun(Append(s, c), room) = GoTakeCharacter(GoRun(s, room), c, room) /\ GoRun(s, room) \in State
  <1>1. PICK f : GoSteps(f, s, room) /\ GoRun(s, room) = f[Len(s)]
    BY GoRunSteps
  <1>2. Append(s, c) \in Seq(Character) /\ Len(Append(s, c)) = Len(s) + 1
    BY AppendProperties
  <1>3. PICK g : GoSteps(g, Append(s, c), room) /\ GoRun(Append(s, c), room) = g[Len(s) + 1]
    BY <1>2, GoRunSteps
  <1> QED
    BY <1>1, <1>3, GoStepsAlike

\* A set that holds the empty sequence and, with a sequence, each one longer by an element,
\* holds all sequences.
LEMMA SequenceInduction ==
    ASSUME NEW S, NEW T \in SUBSET Seq(S), <<>> \in T, \A s \in T, x \in S : Append(s, x) \in T
    PROVE  T = Seq(S)
  <1> DEFINE N == {n \in Nat : \A s \in Seq(S) : Len(s) = n => s \in T}
  <1>1. 0 \in N
    <2>1. \A s \in Seq(S) : Len(s) = 0 => s = <<>>
      OBVIOUS
    <2> QED
      BY <2>1
  <1>2. ASSUME NEW n \in N PROVE n + 1 \in N
    <2>0. n \in Nat /\ n + 1 \in Nat
      OBVIOUS
    <2> SUFFICES ASSUME NEW s \in Seq(S), Len(s) = n + 1 PROVE s \in T
      BY <2>0, Zenon
    <2>1. s # <<>>
      BY <2>0
    <2>2. PICK f \in Seq(S), x \in S : s = Append(f, x)
      BY <2>1, SequenceEmptyOrAppend
    <2>3. Len(s) = Len(f) + 1 /\ Len(f) \in Nat
      BY <2>2, AppendProperties, LenProperties
    <2>4. f \in T
      BY <2>0, <2>3
    <2> QED
      BY <2>2, <2>4
  <1> HIDE DEF N
  <1>3. N = Nat
    BY <1>1, <1>2, Induction DEF N
  <1>4. ASSUME NEW s \in Seq(S) PROVE s \in T
    <2>1. Len(s) \in N
      BY <1>3
    <2> QED
      BY <2>1 DEF N
  <1> QED
    BY <1>4

(***************************************************************************)
(* One character: how much it adds, and that the host takes it as the      *)
(* device does.                                                            *)
(***************************************************************************)
LEMMA FourOrLess == \A k \in Nat : k < 5 => k < 4 \/ k = 4
  OBVIOUS

\* How much one character adds to what is decoded and what is pending.
LEMMA TakenLengths ==
    ASSUME NEW st \in State, NEW c \in Character
    PROVE  /\ Len(TakeCharacter(st, c).data) \in {Len(st.data), Len(st.data) + 4}
           /\ c \in Digit /\ TakeCharacter(st, c).ok
                => /\ st.ok
                   /\ \/ /\ Len(st.group) < 4
                         /\ Len(TakeCharacter(st, c).data) = Len(st.data)
                         /\ Len(TakeCharacter(st, c).group) = Len(st.group) + 1
                      \/ /\ Len(st.group) = 4
                         /\ Len(TakeCharacter(st, c).data) = Len(st.data) + 4
                         /\ Len(TakeCharacter(st, c).group) = 0
  <1>a. PICK n \in Nat, k \in Nat : n = Len(st.data) /\ k = Len(st.group)
    BY DEF State
  <1>b. PICK next : next = TakeCharacter(st, c)
    OBVIOUS
  <1> USE <1>a, <1>b
  <1> SUFFICES /\ Len(next.data) \in {n, n + 4}
               /\ c \in Digit /\ next.ok
                    => /\ st.ok
                       /\ \/ k < 4 /\ Len(next.data) = n /\ Len(next.group) = k + 1
                          \/ k = 4 /\ Len(next.data) = n + 4 /\ Len(next.group) = 0
    BY Zenon
  <1> DEFINE g == Append(st.group, c)
  <1>0. k < 5
    BY DEF State
  <1>1. st.ok \in BOOLEAN /\ st.data \in Seq(Byte) /\ st.group \in Seq(Digit)
    BY DEF State
  <1>2. CASE ~st.ok \/ c = SPACE
    <2>1. next = st
      BY <1>2 DEF TakeCharacter
    <2> QED
      BY <1>2, <2>1, DigitType
  <1>3. CASE st.ok /\ c # SPACE /\ c \notin Digit
    <2>1. \/ next = [st EXCEPT !.data = @ \o <<0, 0, 0, 0>>]
          \/ next = [st EXCEPT !.ok = FALSE]
      BY <1>3 DEF TakeCharacter
    <2>2. Len(st.data \o <<0, 0, 0, 0>>) = n + 4
      <3>1. Len(<<0, 0, 0, 0>>) = 4
        OBVIOUS
      <3> QED
        BY <1>1, <3>1, ZeroBytes, ConcatProperties
    <2>3. next.data = st.data \/ next.data = st.data \o <<0, 0, 0, 0>>
      BY <1>1, <2>1 DEF State
    <2> QED
      BY <1>3, <2>2, <2>3
  <1>4. CASE st.ok /\ c \in Digit
    <2>1. next =
            IF Len(g) < 5 THEN [st EXCEPT !.group = g]
            ELSE IF Number(g) >= WORD THEN [st EXCEPT !.ok = FALSE]
            ELSE [st EXCEPT !.group = <<>>, !.data = @ \o u32(Number(g))]
      BY <1>4, DigitType, Zenon DEF TakeCharacter
    <2>2. g \in Seq(Digit) /\ Len(g) = k + 1 /\ (k = 4 => Number(g) \in Nat)
      BY <1>1, <1>4, FullGroup
    <2> HIDE DEF g
    <2>3. CASE k < 4
      <3>1. next = [st EXCEPT !.group = g]
        BY <2>1, <2>2, <2>3
      <3>2. next.data = st.data /\ next.group = g
        BY <3>1 DEF State
      <3> QED
        BY <1>4, <2>2, <2>3, <3>2
    <2>4. CASE k = 4 /\ Number(g) >= WORD
      <3>1. next = [st EXCEPT !.ok = FALSE]
        BY <2>1, <2>2, <2>4
      <3>2. next.data = st.data /\ ~next.ok
        BY <3>1 DEF State
      <3> QED
        BY <3>2
    <2>5. CASE k = 4 /\ ~(Number(g) >= WORD)
      <3>1. next = [st EXCEPT !.group = <<>>, !.data = @ \o u32(Number(g))]
        BY <2>1, <2>2, <2>5
      <3>2. next.data = st.data \o u32(Number(g)) /\ next.group = <<>>
        BY <3>1 DEF State
      <3>3. u32(Number(g)) \in Seq(Byte) /\ Len(u32(Number(g))) = 4
        BY <2>2, <2>5, U32Type, WordType
      <3>a. PICK u \in Seq(Byte) : u = u32(Number(g)) /\ Len(u) = 4
        BY <3>3
      <3>b. Len(st.data \o u) = Len(st.data) + Len(u)
        BY <1>1, ConcatProperties
      <3>4. Len(next.data) = n + 4
        BY <3>2, <3>a, <3>b
      <3>5. Len(next.group) = 0
        BY <3>2, EmptySeq
      <3> QED
        BY <1>4, <2>5, <3>4, <3>5
    <2>6. k < 4 \/ k = 4
      BY <1>0, FourOrLess, Zenon
    <2> QED
      BY <2>3, <2>4, <2>5, <2>6, Zenon
  <1> QED
    BY <1>1, <1>2, <1>3, <1>4, Zenon

\* A character that the device accepts does the same on the host, while there is room.
LEMMA TakenAlike ==
    ASSUME NEW st \in State, NEW c \in Character, NEW room \in Nat, room - Len(st.data) >= 4,
           TakeCharacter(st, c).ok
    PROVE  GoTakeCharacter(st, c, room) = TakeCharacter(st, c) /\ st.ok
  <1>1. st.ok \in BOOLEAN /\ st.data \in Seq(Byte) /\ st.group \in Seq(Digit) /\ Len(st.group) < 5
    BY DEF State
  <1>0. ~(room - Len(st.data) < 4)
    <2>1. Len(st.data) \in Nat
      BY <1>1
    <2> QED
      BY <2>1
  <1>2. st.ok
    BY DEF TakeCharacter
  <1>3. CASE c = SPACE
    BY <1>3 DEF TakeCharacter, GoTakeCharacter
  <1>4. ASSUME st.group # <<>> \/ c # ZEE, c \notin Digit, c # SPACE PROVE FALSE
    <2>1. TakeCharacter(st, c) = [st EXCEPT !.ok = FALSE]
      BY <1>2, <1>4 DEF TakeCharacter
    <2> QED
      BY <2>1 DEF State
  <1>5. CASE c = ZEE /\ st.group = <<>>
    <2>1. c \notin {SPACE, CONTROL}
      BY <1>5 DEF SPACE, ZEE, CONTROL
    <2> QED
      BY <1>0, <1>2, <1>5, <2>1, Zenon DEF TakeCharacter, GoTakeCharacter
  <1>6. CASE c \in Digit
    <2> DEFINE g == Append(st.group, c)
    <2>1. c \notin {SPACE, CONTROL} /\ c # ZEE /\ c # SPACE
      BY <1>6, DigitType
    <2>2. TakeCharacter(st, c) =
            IF Len(g) < 5 THEN [st EXCEPT !.group = g]
            ELSE IF Number(g) >= WORD THEN [st EXCEPT !.ok = FALSE]
            ELSE [st EXCEPT !.group = <<>>, !.data = @ \o u32(Number(g))]
      BY <1>2, <1>6, <2>1, Zenon DEF TakeCharacter
    <2>3. GoTakeCharacter(st, c, room) =
            IF Len(g) < 5 THEN [st EXCEPT !.group = g]
            ELSE [st EXCEPT !.group = <<>>, !.data = @ \o u32(Number(g) % WORD)]
      BY <1>0, <1>2, <1>6, <2>1, Zenon DEF GoTakeCharacter
    <2>4. PICK k \in Nat : k = Len(st.group)
      BY <1>1
    <2>5. Len(g) = k + 1 /\ (k = 4 => Number(g) \in Nat)
      BY <1>1, <1>6, <2>4, FullGroup
    <2>8. k < 4 \/ k = 4
      BY <1>1, <2>4, FourOrLess, Zenon
    <2> HIDE DEF g
    <2>6. CASE k < 4
      <3>1. Len(g) < 5
        BY <2>5, <2>6
      <3> QED
        BY <1>2, <2>2, <2>3, <3>1, Zenon
    <2>7. CASE k = 4
      <3>1. ~(Number(g) >= WORD)
        <4>1. SUFFICES ASSUME Number(g) >= WORD PROVE FALSE
          OBVIOUS
        <4>2. TakeCharacter(st, c) = [st EXCEPT !.ok = FALSE]
          BY <2>2, <2>5, <2>7, <4>1
        <4> QED
          BY <4>2 DEF State
      <3>2. Number(g) \in 0 .. WORD - 1
        BY <2>5, <2>7, <3>1, WordType
      <3>3. Number(g) % WORD = Number(g)
        BY <3>2, WordType, SmallMod
      <3>4. ~(Len(g) < 5)
        BY <2>5, <2>7
      <3> QED
        BY <1>2, <2>2, <2>3, <3>1, <3>3, <3>4, Zenon
    <2> QED
      BY <2>6, <2>7, <2>8
  <1> QED
    BY <1>2, <1>3, <1>4, <1>5, <1>6

(***************************************************************************)
(* A whole text: no character adds more than four bytes, five digits add   *)
(* four, and as long as the device goes along the host is where it is.     *)
(***************************************************************************)
LEMMA BytesSoFar ==
    ASSUME NEW text \in Seq(Character)
    PROVE  /\ Run(text) \in State
           /\ Len(Run(text).data) <= 4 * Len(text)
  <1> DEFINE T == {t \in Seq(Character) : Run(t) \in State /\ Len(Run(t).data) <= 4 * Len(t)}
  <1>1. <<>> \in T
    <2>1. <<>> \in Seq(Character) /\ Len(<<>>) = 0
      BY EmptySeq
    <2>2. start.data = <<>>
      BY DEF start
    <2> QED
      BY <2>1, <2>2, RunEmpty, StartType
  <1>2. ASSUME NEW t \in T, NEW c \in Character PROVE Append(t, c) \in T
    <2>1. t \in Seq(Character) /\ Run(t) \in State /\ Len(Run(t).data) <= 4 * Len(t)
      OBVIOUS
    <2>2. Append(t, c) \in Seq(Character) /\ Len(Append(t, c)) = Len(t) + 1
      BY <2>1, AppendProperties
    <2>3. Run(Append(t, c)) = TakeCharacter(Run(t), c)
      BY <2>1, RunAppend
    <2>4. Run(Append(t, c)) \in State
      BY <2>1, <2>3, TakeType
    <2>5. PICK n \in Nat, k \in Nat, m \in Nat : n = Len(Run(t).data) /\ k = Len(Run(t).group) /\ m = Len(t)
      BY <2>1 DEF State
    <2>6. Len(Run(Append(t, c)).data) \in {n, n + 4}
      BY <2>1, <2>3, <2>5, TakenLengths
    <2> HIDE DEF T
    <2>7. Len(Run(Append(t, c)).data) <= 4 * Len(Append(t, c))
      BY <2>1, <2>2, <2>5, <2>6
    <2> QED
      BY <2>2, <2>4, <2>7 DEF T
  <1> HIDE DEF T
  <1>3. T \in SUBSET Seq(Character)
    BY DEF T
  <1>4. T = Seq(Character)
    BY <1>1, <1>2, <1>3, SequenceInduction
  <1> QED
    BY <1>4 DEF T

\* After a text of digits only, four bytes are decoded for each five of them.
LEMMA DigitsSoFar ==
    ASSUME NEW text \in Seq(Digit), Run(text).ok
    PROVE  \E q \in Nat, r \in 0 .. 4 :
               Len(text) = 5 * q + r /\ Len(Run(text).data) = 4 * q /\ Len(Run(text).group) = r
  <1> DEFINE T == {t \in Seq(Digit) : Run(t).ok => \E q \in Nat, r \in 0 .. 4 :
                     Len(t) = 5 * q + r /\ Len(Run(t).data) = 4 * q /\ Len(Run(t).group) = r}
  <1>1. <<>> \in T
    <2>1. <<>> \in Seq(Digit) /\ Len(<<>>) = 0
      BY EmptySeq
    <2>2. start.data = <<>> /\ start.group = <<>>
      BY DEF start
    <2>3. Len(<<>>) = 5 * 0 + 0 /\ Len(Run(<<>>).data) = 4 * 0 /\ Len(Run(<<>>).group) = 0
      BY <2>1, <2>2, RunEmpty
    <2>4. 0 \in Nat /\ 0 \in 0 .. 4
      OBVIOUS
    <2> QED
      BY <2>1, <2>3, <2>4
  <1>2. ASSUME NEW t \in T, NEW c \in Digit PROVE Append(t, c) \in T
    <2>1. t \in Seq(Digit)
      OBVIOUS
    <2>2. Append(t, c) \in Seq(Digit) /\ Len(Append(t, c)) = Len(t) + 1
      BY <2>1, AppendProperties
    <2>a. t \in Seq(Character) /\ c \in Character
      BY <2>1, DigitType, SeqMonotonic
    <2>3. Run(Append(t, c)) = TakeCharacter(Run(t), c) /\ Run(t) \in State
      BY <2>a, RunAppend
    <2>4. ASSUME Run(Append(t, c)).ok
          PROVE  \E q \in Nat, r \in 0 .. 4 :
                     /\ Len(Append(t, c)) = 5 * q + r
                     /\ Len(Run(Append(t, c)).data) = 4 * q /\ Len(Run(Append(t, c)).group) = r
      <3>1. PICK n \in Nat, k \in Nat : n = Len(Run(t).data) /\ k = Len(Run(t).group)
        BY <2>3 DEF State
      <3> DEFINE next == TakeCharacter(Run(t), c)
      <3>2. /\ Run(t).ok
            /\ \/ k < 4 /\ Len(next.data) = n /\ Len(next.group) = k + 1
               \/ k = 4 /\ Len(next.data) = n + 4 /\ Len(next.group) = 0
        <4>1. next = TakeCharacter(Run(t), c) /\ next.ok
          BY <2>3, <2>4
        <4> HIDE DEF next, T
        <4> QED
          BY <4>1, <2>3, <2>a, <3>1, TakenLengths
      <3>3. PICK q \in Nat, r \in 0 .. 4 :
                Len(t) = 5 * q + r /\ Len(Run(t).data) = 4 * q /\ Len(Run(t).group) = r
        BY <3>2
      <3> HIDE DEF next, T
      <3>4. CASE k < 4
        <4>1. /\ Len(Append(t, c)) = 5 * q + (k + 1) /\ k + 1 \in 0 .. 4
              /\ Len(next.data) = 4 * q /\ Len(next.group) = k + 1
          BY <2>2, <3>1, <3>2, <3>3, <3>4
        <4> QED
          BY <2>3, <4>1 DEF next
      <3>5. CASE k = 4
        <4>1. /\ Len(Append(t, c)) = 5 * (q + 1) + 0 /\ 0 \in 0 .. 4 /\ q + 1 \in Nat
              /\ Len(next.data) = 4 * (q + 1) /\ Len(next.group) = 0
          BY <2>2, <3>1, <3>2, <3>3, <3>5
        <4> QED
          BY <2>3, <4>1 DEF next
      <3> QED
        BY <3>2, <3>4, <3>5
    <2> QED
      BY <2>2, <2>4
  <1> HIDE DEF T
  <1>3. T \in SUBSET Seq(Digit)
    BY DEF T
  <1>4. T = Seq(Digit)
    BY <1>1, <1>2, <1>3, SequenceInduction
  <1> QED
    BY <1>4 DEF T

\* What the device accepts the host decodes to the same, given room for four bytes a character.
LEMMA RunAlike ==
    ASSUME NEW text \in Seq(Character), NEW room \in Nat, 4 * Len(text) <= room, Run(text).ok
    PROVE  GoRun(text, room) = Run(text)
  <1> DEFINE T == {t \in Seq(Character) : 4 * Len(t) <= room /\ Run(t).ok => GoRun(t, room) = Run(t)}
  <1>1. <<>> \in T
    <2>1. <<>> \in Seq(Character)
      BY EmptySeq
    <2> QED
      BY <2>1, RunEmpty, GoRunEmpty
  <1>2. ASSUME NEW t \in T, NEW c \in Character PROVE Append(t, c) \in T
    <2>1. t \in Seq(Character)
      OBVIOUS
    <2>2. Append(t, c) \in Seq(Character) /\ Len(Append(t, c)) = Len(t) + 1
      BY <2>1, AppendProperties
    <2>3. Run(Append(t, c)) = TakeCharacter(Run(t), c) /\ Run(t) \in State
      BY <2>1, RunAppend
    <2>4. GoRun(Append(t, c), room) = GoTakeCharacter(GoRun(t, room), c, room)
      BY <2>1, GoRunAppend
    <2>5. Len(Run(t).data) <= 4 * Len(t)
      BY <2>1, BytesSoFar
    <2>6. PICK m \in Nat, n \in Nat : m = Len(t) /\ n = Len(Run(t).data)
      BY <2>1, <2>3 DEF State
    <2>7. ASSUME 4 * Len(Append(t, c)) <= room, Run(Append(t, c)).ok
          PROVE  GoRun(Append(t, c), room) = Run(Append(t, c))
      <3>1. 4 * (m + 1) <= room /\ n <= 4 * m
        BY <2>2, <2>5, <2>6, <2>7
      <3>2. room - n >= 4 /\ 4 * m <= room
        BY <3>1
      <3>3. GoTakeCharacter(Run(t), c, room) = TakeCharacter(Run(t), c) /\ Run(t).ok
        BY <2>3, <2>6, <2>7, <3>2, TakenAlike
      <3>4. GoRun(t, room) = Run(t)
        BY <2>6, <3>2, <3>3
      <3> QED
        BY <2>3, <2>4, <3>3, <3>4
    <2> QED
      BY <2>2, <2>7
  <1> HIDE DEF T
  <1>3. T \in SUBSET Seq(Character)
    BY DEF T
  <1>4. T = Seq(Character)
    BY <1>1, <1>2, <1>3, SequenceInduction
  <1> QED
    BY <1>4 DEF T

\* A short group, filled up, is a number.
LEMMA PadNumber ==
    ASSUME NEW g \in Seq(Digit), Len(g) < 5
    PROVE  Number(Pad(g)) \in Nat
  <1>1. PICK p : p = Pad(g)
    OBVIOUS
  <1>2. p = [k \in 1 .. 5 |-> IF k <= Len(g) THEN g[k] ELSE RADIX - 1]
    BY <1>1 DEF Pad
  <1>3. RADIX - 1 \in Digit /\ Len(g) \in Nat
    BY RadixAssumption DEF Digit
  <1>4. \A k \in 1 .. Len(g) : g[k] \in Digit
    BY ElementOfSeq
  <1>5. \A k \in 1 .. 5 : p[k] \in Digit
    BY <1>2, <1>3, <1>4
  <1>6. p[1] \in Digit /\ p[2] \in Digit /\ p[3] \in Digit /\ p[4] \in Digit /\ p[5] \in Digit
    BY <1>5
  <1> QED
    BY <1>1, <1>6, NumberType

\* Decoding on the device is running over the text and finishing.
LEMMA DecodeIsRun ==
    ASSUME NEW text
    PROVE  decode(text) = Finish(Run(text))
  BY DEF decode, Run, start

\* When the end of a text is accepted, and what it adds.
LEMMA Finished ==
    ASSUME NEW st, Finish(st).ok
    PROVE  /\ st.ok /\ Len(st.group) # 1
           /\ st.group = <<>> => Finish(st) = Decoded(st.data)
           /\ st.group # <<>> =>
                /\ ~(Number(Pad(st.group)) >= WORD)
                /\ Finish(st) = Decoded(st.data \o SubSeq(u32(Number(Pad(st.group))), 1, Len(st.group) - 1))
  <1>1. ~Refuse.ok
    BY DEF Refuse
  <1>2. st.ok /\ Len(st.group) # 1
    BY <1>1, Zenon DEF Finish
  <1>3. CASE st.group = <<>>
    BY <1>2, <1>3, Zenon DEF Finish
  <1>4. CASE st.group # <<>>
    <2>1. ~(Number(Pad(st.group)) >= WORD)
      BY <1>1, <1>2, <1>4, Zenon DEF Finish
    <2> QED
      BY <1>2, <1>4, <2>1, Zenon DEF Finish
  <1> QED
    BY <1>2, <1>3, <1>4, Zenon

\* The parts of an answer.
LEMMA DecodedData == \A d : Decoded(d).data = d /\ Decoded(d).ok
  BY DEF Decoded

\* Decoding on the host is running over the text, in room for it, and finishing.
LEMMA HostDecodeIsRun ==
    ASSUME NEW text
    PROVE  HostDecode(text) =
             LET st == GoRun(text, 4 * Len(text) + 4)
             IN  IF ~st.ok \/ Len(st.group) = 1 THEN Refuse
                 ELSE IF st.group = <<>> THEN Decoded(st.data)
                 ELSE Decoded(st.data \o SubSeq(u32(Number(Pad(st.group)) % WORD), 1, Len(st.group) - 1))
  BY Zenon DEF HostDecode, GoDecode, GoRun, start

(***************************************************************************)
(* What the device reads, the host reads too (ascii85.go:54-84 on Go's     *)
(* encoding/ascii85, a85.py:64-97), for every text.                        *)
(***************************************************************************)
THEOREM HostAgrees ==
    ASSUME NEW text \in Seq(Character)
    PROVE  HostReadsAlike(text)
  <1> SUFFICES ASSUME decode(text).ok PROVE HostDecode(text) = decode(text)
    BY DEF HostReadsAlike
  <1> DEFINE st == Run(text)
  <1>1. st \in State
    BY BytesSoFar
  <1>2. decode(text) = Finish(st)
    BY DecodeIsRun
  <1> HIDE DEF st
  <1>3. st.ok /\ Len(st.group) # 1
    BY <1>2, Finished
  <1>4. GoRun(text, 4 * Len(text) + 4) = st
    <2>1. Len(text) \in Nat
      OBVIOUS
    <2>2. 4 * Len(text) + 4 \in Nat /\ 4 * Len(text) <= 4 * Len(text) + 4
      BY <2>1
    <2> QED
      BY <1>3, <2>2, RunAlike DEF st
  <1>5. HostDecode(text) =
          IF st.group = <<>> THEN Decoded(st.data)
          ELSE Decoded(st.data \o SubSeq(u32(Number(Pad(st.group)) % WORD), 1, Len(st.group) - 1))
    BY <1>3, <1>4, HostDecodeIsRun, Zenon
  <1>6. CASE st.group = <<>>
    BY <1>2, <1>3, <1>5, <1>6, Zenon DEF Finish
  <1>7. CASE st.group # <<>>
    <2>1. ~(Number(Pad(st.group)) >= WORD)
      BY <1>2, <1>7, Finished
    <2>2. Number(Pad(st.group)) \in Nat
      BY <1>1, PadNumber DEF State
    <2>3. Number(Pad(st.group)) \in 0 .. WORD - 1
      BY <2>1, <2>2, WordType
    <2>4. Number(Pad(st.group)) % WORD = Number(Pad(st.group))
      BY <2>3, WordType, SmallMod
    <2> QED
      BY <1>2, <1>3, <1>5, <1>7, <2>1, <2>4, Zenon DEF Finish
  <1> QED
    BY <1>6, <1>7

(***************************************************************************)
(* The device counts characters instead of reading them (protocol.py:167): *)
(* the count decides how many bytes there will be.                         *)
(***************************************************************************)
LEMMA CountDecides ==
    ASSUME NEW n \in Nat, NEW q \in Nat, NEW r \in 0 .. 4, encoded_len(n) = 5 * q + r
    PROVE  /\ r = 0 => n = 4 * q
           /\ r > 1 => n = 4 * q + r - 1
  <1>1. PICK a \in Nat, b \in 0 .. 3 : a = n \div 4 /\ b = n % 4 /\ n = 4 * a + b
    OBVIOUS
  <1>2. 5 * q + r = 5 * a + (IF b = 0 THEN 0 ELSE b + 1)
    BY <1>1 DEF encoded_len
  <1> QED
    BY <1>1, <1>2

\* Counting characters frames an upload: a text as long as is declared for n bytes decodes to n
\* bytes or is refused (code.py's upload state, ascii85.py decode).
THEOREM CountFrames ==
    ASSUME NEW text \in Seq(Character), NEW n \in Nat
    PROVE  CountIsLength(text, n)
  <1> SUFFICES ASSUME Len(text) = encoded_len(n), decode(text).ok,
                      \A i \in DOMAIN text : text[i] \in Digit
               PROVE  Len(decode(text).data) = n
    BY DEF CountIsLength
  <1> DEFINE st == Run(text)
  <1>1. st \in State
    BY BytesSoFar
  <1>2. decode(text) = Finish(st)
    BY DecodeIsRun
  <1> HIDE DEF st
  <1>3. st.ok /\ Len(st.group) # 1
    BY <1>2, Finished
  <1>4. text \in Seq(Digit)
    BY IsASeq
  <1>5. PICK q \in Nat, r \in 0 .. 4 :
            Len(text) = 5 * q + r /\ Len(st.data) = 4 * q /\ Len(st.group) = r
    BY <1>3, <1>4, DigitsSoFar DEF st
  <1>6. st.data \in Seq(Byte) /\ st.group \in Seq(Digit) /\ Len(st.group) < 5
    BY <1>1 DEF State
  <1>7. CASE r = 0
    <2>1. st.group = <<>>
      BY <1>5, <1>6, <1>7, EmptySeq
    <2>2. decode(text).data = st.data
      BY <1>2, <1>3, <2>1 DEF Finish, Decoded
    <2> QED
      BY <1>5, <1>7, <2>2, CountDecides
  <1>8. CASE r > 1
    <2>1. st.group # <<>>
      BY <1>5, <1>8
    <2>2. ~(Number(Pad(st.group)) >= WORD)
      BY <1>2, <2>1, Finished
    <2>3. Number(Pad(st.group)) \in Nat
      BY <1>6, PadNumber
    <2>4. PICK u \in Seq(Byte) : u = u32(Number(Pad(st.group))) /\ Len(u) = 4
      BY <2>2, <2>3, U32Type, WordType
    <2>5. decode(text).data = st.data \o SubSeq(u, 1, r - 1)
      <3>1. decode(text) = Decoded(st.data \o SubSeq(u, 1, Len(st.group) - 1))
        BY <1>2, <2>1, <2>4, Finished
      <3> QED
        BY <1>5, <3>1, DecodedData, Zenon
    <2>6. SubSeq(u, 1, r - 1) \in Seq(Byte) /\ Len(SubSeq(u, 1, r - 1)) = r - 1
      <3>1. r - 1 \in 1 .. 3
        BY <1>8
      <3>2. \A i \in 1 .. r - 1 : u[i] \in Byte
        BY <2>4, <3>1, ElementOfSeq
      <3> QED
        BY <3>1, <3>2, SubSeqProperties
    <2>7. Len(st.data \o SubSeq(u, 1, r - 1)) = Len(st.data) + Len(SubSeq(u, 1, r - 1))
      BY <1>6, <2>6, ConcatProperties
    <2>8. Len(decode(text).data) = 4 * q + r - 1
      BY <1>5, <2>5, <2>6, <2>7
    <2>9. encoded_len(n) = 5 * q + r
      BY <1>5
    <2>10. n = 4 * q + r - 1
      BY <1>8, <2>9, CountDecides
    <2> QED
      BY <2>8, <2>10
  <1> QED
    BY <1>3, <1>5, <1>7, <1>8

(***************************************************************************)
(* Joining piece by piece, and cutting.                                    *)
(***************************************************************************)
UpTo(seqs, k) == FlattenSeq(SubSeq(seqs, 1, k))

\* Joining one by one: a member more is its elements behind what is joined so far.
LEMMA UpToStep ==
    ASSUME NEW S, NEW seqs \in Seq(Seq(S))
    PROVE  /\ UpTo(seqs, 0) = <<>>
           /\ UpTo(seqs, Len(seqs)) = FlattenSeq(seqs)
           /\ \A k \in 0 .. Len(seqs) : UpTo(seqs, k) \in Seq(S)
           /\ \A k \in 0 .. Len(seqs) - 1 :
                  seqs[k + 1] \in Seq(S) /\ UpTo(seqs, k + 1) = UpTo(seqs, k) \o seqs[k + 1]
  <1>1. SubSeq(seqs, 1, 0) = <<>>
    BY SubSeqEmpty
  <1>2. SubSeq(seqs, 1, Len(seqs)) = seqs
    BY SubSeqFull
  <1>3. ASSUME NEW k \in 0 .. Len(seqs) PROVE SubSeq(seqs, 1, k) \in Seq(Seq(S))
    <2>1. \A i \in 1 .. k : seqs[i] \in Seq(S)
      BY ElementOfSeq
    <2> QED
      BY <2>1, SubSeqProperties
  <1>4. ASSUME NEW k \in 0 .. Len(seqs) PROVE UpTo(seqs, k) \in Seq(S)
    BY <1>3, FlattenType DEF UpTo
  <1>5. ASSUME NEW k \in 0 .. Len(seqs) - 1
        PROVE  seqs[k + 1] \in Seq(S) /\ UpTo(seqs, k + 1) = UpTo(seqs, k) \o seqs[k + 1]
    <2>1. 1 \in 1 .. Len(seqs) /\ k + 1 \in 1 .. Len(seqs) /\ k \in 0 .. Len(seqs) /\ (k + 1) - 1 = k
      OBVIOUS
    <2>2. SubSeq(seqs, 1, k + 1) = SubSeq(seqs, 1, k) \o <<seqs[k + 1]>>
      BY <2>1, SubSeqRecursiveSecond
    <2>3. seqs[k + 1] \in Seq(S)
      BY <2>1, ElementOfSeq
    <2>4. SubSeq(seqs, 1, k) \in Seq(Seq(S))
      BY <1>3, <2>1
    <2>5. SubSeq(seqs, 1, k + 1) = Append(SubSeq(seqs, 1, k), seqs[k + 1])
      BY <2>2, <2>3, <2>4, AppendIsConcat
    <2> QED
      BY <2>3, <2>4, <2>5, FlattenAppend DEF UpTo
  <1> QED
    BY <1>1, <1>2, <1>4, <1>5, FlattenEmpty, Zenon DEF UpTo

\* What Cut makes of s: pieces of n, the last of what is left.
Pieces(s, n, c) ==
    /\ Len(c) = (Len(s) + n - 1) \div n
    /\ Len(c) \in Nat
    /\ Len(s) <= n * Len(c)
    /\ \A i \in 1 .. Len(c) :
           /\ n * (i - 1) \in 0 .. Len(s) - 1
           /\ c[i] = SubSeq(s, n * (i - 1) + 1, IF n * i < Len(s) THEN n * i ELSE Len(s))
    /\ \A i \in 1 .. Len(c) - 1 : n * i < Len(s)

\* Cut makes pieces.
LEMMA CutType ==
    ASSUME NEW S, NEW s \in Seq(S), NEW n \in Nat \ {0}
    PROVE  Cut(s, n) \in Seq(Seq(S)) /\ Pieces(s, n, Cut(s, n))
  <1>1. PICK L \in Nat : L = Len(s)
    OBVIOUS
  <1>2. PICK N \in Nat : N = (L + n - 1) \div n /\ n * N <= L + n - 1 /\ L <= n * N
    <2>1. L + n - 1 \in Nat
      OBVIOUS
    <2>2. /\ (L + n - 1) \div n \in Nat /\ (L + n - 1) % n \in 0 .. n - 1
          /\ L + n - 1 = n * ((L + n - 1) \div n) + ((L + n - 1) % n)
      BY <2>1, DivMod
    <2>3. n * ((L + n - 1) \div n) \in Nat
      BY <2>2
    <2> QED
      BY <2>2, <2>3
  <1>3. ASSUME NEW i \in 1 .. N PROVE n * (i - 1) \in 0 .. L - 1 /\ n * i \in Nat
    <2>1. n * (i - 1) <= n * (N - 1) /\ n * (N - 1) = n * N - n /\ n * (i - 1) \in Nat /\ n * N \in Nat /\ n * i \in Nat
      OBVIOUS
    <2> QED
      BY <1>2, <2>1
  <1>4. ASSUME NEW i \in 1 .. N - 1 PROVE n * i < L
    <2>1. i + 1 \in 1 .. N /\ (i + 1) - 1 = i
      OBVIOUS
    <2> QED
      BY <1>3, <2>1, SMTT(30)
  <1> DEFINE e(i) == SubSeq(s, n * (i - 1) + 1, IF n * i < L THEN n * i ELSE L)
  <1>5. Cut(s, n) = [i \in 1 .. N |-> e(i)]
    BY <1>1, <1>2 DEF Cut
  <1>6. ASSUME NEW i \in 1 .. N PROVE e(i) \in Seq(S)
    <2>1. PICK a \in Nat, b \in Nat : a = n * (i - 1) + 1 /\ b = (IF n * i < L THEN n * i ELSE L) /\ b <= L /\ a >= 1
      BY <1>3
    <2>2. \A j \in a .. b : s[j] \in S
      BY <1>1, <2>1, ElementOfSeq
    <2>3. SubSeq(s, a, b) \in Seq(S)
      BY <2>1, <2>2, SubSeqProperties
    <2> QED
      BY <2>1, <2>3
  <1> HIDE DEF e
  <1>7. [i \in 1 .. N |-> e(i)] \in Seq(Seq(S))
    BY <1>6
  <1>8. Len([i \in 1 .. N |-> e(i)]) = N
    OBVIOUS
  <1>9. \A i \in 1 .. N : Cut(s, n)[i] = SubSeq(s, n * (i - 1) + 1, IF n * i < Len(s) THEN n * i ELSE Len(s))
    BY <1>1, <1>5 DEF e
  <1> QED
    BY <1>1, <1>2, <1>3, <1>4, <1>5, <1>7, <1>8, <1>9 DEF Pieces

\* The pieces put together again are the sequence they were cut from.
Rejoins(s, n, c) ==
    \A k \in 0 .. Len(c) : UpTo(c, k) = SubSeq(s, 1, IF n * k < Len(s) THEN n * k ELSE Len(s))

\* The pieces joined again are what was cut, as far as they go.
LEMMA CutRejoined ==
    ASSUME NEW S, NEW s \in Seq(S), NEW n \in Nat \ {0}
    PROVE  Rejoins(s, n, Cut(s, n)) /\ FlattenSeq(Cut(s, n)) = s
  <1>1. PICK L \in Nat : L = Len(s)
    OBVIOUS
  <1>2. PICK c \in Seq(Seq(S)) : c = Cut(s, n)
    BY CutType
  <1>3. PICK N \in Nat : /\ N = Len(c)
                         /\ L <= n * N
                         /\ \A i \in 1 .. N :
                                /\ n * (i - 1) \in 0 .. L - 1
                                /\ c[i] = SubSeq(s, n * (i - 1) + 1, IF n * i < L THEN n * i ELSE L)
    BY <1>1, <1>2, CutType DEF Pieces
  <1> DEFINE end(k) == IF n * k < L THEN n * k ELSE L
             T == {k \in Nat : k <= N => UpTo(c, k) = SubSeq(s, 1, end(k))}
  <1>4. 0 \in T
    <2>1. end(0) = 0
      BY <1>1
    <2>2. SubSeq(s, 1, 0) = <<>>
      BY SubSeqEmpty
    <2>3. UpTo(c, 0) = <<>>
      BY UpToStep
    <2> QED
      BY <2>1, <2>2, <2>3
  <1>5. ASSUME NEW k \in T PROVE k + 1 \in T
    <2>0. k + 1 \in Nat /\ k \in Nat
      OBVIOUS
    <2> SUFFICES ASSUME k + 1 <= N PROVE UpTo(c, k + 1) = SubSeq(s, 1, end(k + 1))
      BY <2>0, Zenon
    <2>1. UpTo(c, k) = SubSeq(s, 1, end(k))
      BY <2>0
    <2> HIDE DEF T
    <2>2. k + 1 \in 1 .. N /\ (k + 1) - 1 = k /\ k \in 0 .. N - 1
      BY <2>0
    <2>3. n * k \in 0 .. L - 1 /\ n * k < L
      BY <1>3, <2>2
    <2>4. c[k + 1] = SubSeq(s, n * k + 1, end(k + 1))
      BY <1>3, <2>2
    <2>5. end(k) = n * k
      BY <2>3
    <2>6. end(k + 1) \in n * k .. L
      <3>1. n * (k + 1) = n * k + n /\ n * k \in Nat
        BY <2>0
      <3> QED
        BY <2>3, <3>1
    <2> HIDE DEF end
    <2>7. UpTo(c, k + 1) = UpTo(c, k) \o c[k + 1]
      BY <1>3, <2>2, UpToStep
    <2>8. SubSeq(s, 1, n * k) \o SubSeq(s, n * k + 1, end(k + 1)) = SubSeq(s, 1, end(k + 1))
      <3>1. 1 \in 1 .. Len(s) + 1 /\ n * k \in 1 - 1 .. Len(s) /\ end(k + 1) \in n * k .. Len(s)
        BY <1>1, <2>3, <2>6
      <3> QED
        BY <3>1, ConcatAdjacentSubSeq
    <2> QED
      BY <2>1, <2>4, <2>5, <2>7, <2>8
  <1> HIDE DEF T, end
  <1>6. T = Nat
    BY <1>4, <1>5, Induction DEF T
  <1>7. \A k \in 0 .. N : UpTo(c, k) = SubSeq(s, 1, end(k))
    BY <1>6, SMTT(30) DEF T
  <1>8. FlattenSeq(c) = s
    <2>1. UpTo(c, N) = SubSeq(s, 1, end(N))
      BY <1>7
    <2>2. end(N) = L
      <3>1. n * N \in Nat
        OBVIOUS
      <3> QED
        BY <1>3, <3>1 DEF end
    <2>3. SubSeq(s, 1, L) = s
      BY <1>1, SubSeqFull
    <2> QED
      BY <1>3, <2>1, <2>2, <2>3, UpToStep
  <1> QED
    BY <1>1, <1>2, <1>3, <1>7, <1>8 DEF end, Rejoins

(***************************************************************************)
(* The groups of an encoding, and how they are read back one by one.       *)
(***************************************************************************)
LEMMA WordOfBytes ==
    ASSUME NEW b \in Seq(Byte)
    PROVE  Word(b) \in Nat
  <1>1. PICK L \in Nat : L = Len(b)
    OBVIOUS
  <1>3. BYTE \in Nat
    BY RadixAssumption
  <1>2. \A k \in 1 .. L : b[k] \in Nat
    <2>1. \A k \in 1 .. L : b[k] \in Byte
      BY <1>1, ElementOfSeq
    <2> QED
      BY <1>3, <2>1 DEF Byte
  <1> DEFINE at(k) == IF k <= L THEN b[k] ELSE 0
  <1>4. at(1) \in Nat /\ at(2) \in Nat /\ at(3) \in Nat /\ at(4) \in Nat
    BY <1>2
  <1>5. Word(b) = ((at(1) * BYTE + at(2)) * BYTE + at(3)) * BYTE + at(4)
    BY <1>1 DEF Word
  <1> HIDE DEF at
  <1>a. PICK a1 \in Nat, a2 \in Nat, a3 \in Nat, a4 \in Nat :
            Word(b) = ((a1 * BYTE + a2) * BYTE + a3) * BYTE + a4
    BY <1>4, <1>5
  <1>6. PICK x \in Nat : x = a1 * BYTE + a2
    BY <1>3
  <1>7. PICK y \in Nat : y = x * BYTE + a3
    BY <1>3
  <1>8. y * BYTE + a4 \in Nat
    BY <1>3
  <1> QED
    BY <1>a, <1>6, <1>7, <1>8

\* A number is written with five digits.
LEMMA DigitsType ==
    ASSUME NEW v \in Nat
    PROVE  Digits(v) \in Seq(Digit) /\ Len(Digits(v)) = 5
  <1>0. RADIX \in Nat \ {0}
    BY RadixAssumption
  <1>1. PICK d1 \in Nat : d1 = v \div RADIX
    BY <1>0
  <1>2. PICK d2 \in Nat : d2 = d1 \div RADIX
    BY <1>0
  <1>3. PICK d3 \in Nat : d3 = d2 \div RADIX
    BY <1>0
  <1>4. PICK d4 \in Nat : d4 = d3 \div RADIX
    BY <1>0
  <1>5. \A x \in Nat : x % RADIX \in Digit
    BY <1>0 DEF Digit
  <1>6. Digits(v) = << d4 % RADIX, d3 % RADIX, d2 % RADIX, d1 % RADIX, v % RADIX >>
    BY <1>1, <1>2, <1>3, <1>4 DEF Digits
  <1>7. PICK e1 \in Digit, e2 \in Digit, e3 \in Digit, e4 \in Digit, e5 \in Digit :
            Digits(v) = <<e1, e2, e3, e4, e5>>
    BY <1>5, <1>6
  <1> QED
    BY <1>7

\* A group of bytes is encoded to one digit more.
LEMMA EncodeGroupType ==
    ASSUME NEW b \in Seq(Byte), Len(b) \in 1 .. 4
    PROVE  EncodeGroup(b) \in Seq(Digit) /\ Len(EncodeGroup(b)) = Len(b) + 1
  <1>1. PICK d \in Seq(Digit) : d = Digits(Word(b)) /\ Len(d) = 5
    BY WordOfBytes, DigitsType
  <1>2. PICK n \in Nat : n = Len(b) + 1 /\ n <= 5
    <2>a. PICK m \in 1 .. 4 : m = Len(b)
      BY Zenon
    <2>1. m \in Nat /\ m = Len(b) /\ m <= 4
      BY <2>a, SMTT(30)
    <2>2. m + 1 \in Nat /\ m + 1 <= 5
      BY <2>1
    <2> QED
      BY <2>1, <2>2
  <1>4. SubSeq(d, 1, n) \in Seq(Digit) /\ Len(SubSeq(d, 1, n)) = n
    BY <1>1, <1>2, PrefixType
  <1> QED
    BY <1>1, <1>2, <1>4 DEF EncodeGroup

\* Digits behind whole groups are gathered.
LEMMA RunGathers ==
    ASSUME NEW t \in Seq(Character), Run(t).ok, Run(t).group = <<>>,
           NEW d \in Seq(Digit), Len(d) <= 4
    PROVE  Run(t \o d) = [ok |-> TRUE, data |-> Run(t).data, group |-> d]
  <1> DEFINE T == {e \in Seq(Digit) : Len(e) <= 4 =>
                       Run(t \o e) = [ok |-> TRUE, data |-> Run(t).data, group |-> e]}
  <1>1. <<>> \in T
    <2>1. <<>> \in Seq(Digit)
      BY EmptySeq
    <2>2. t \o <<>> = t
      BY ConcatEmptySeq
    <2>3. Run(t) = [ok |-> TRUE, data |-> Run(t).data, group |-> <<>>]
      <3>1. PICK st \in State : st = Run(t)
        BY BytesSoFar
      <3>2. st.ok = TRUE /\ st.group = <<>>
        BY <3>1 DEF State
      <3>3. st = [ok |-> st.ok, data |-> st.data, group |-> st.group]
        BY DEF State
      <3> QED
        BY <3>1, <3>2, <3>3
    <2> QED
      BY <2>1, <2>2, <2>3
  <1>2. ASSUME NEW e \in T, NEW c \in Digit PROVE Append(e, c) \in T
    <2>1. e \in Seq(Digit) /\ e \in Seq(Character) /\ c \in Character
      BY DigitType, SeqMonotonic
    <2>2. PICK n \in Nat : n = Len(e) /\ Len(Append(e, c)) = n + 1 /\ Append(e, c) \in Seq(Digit)
      BY <2>1, AppendProperties, LenProperties, SMTT(30)
    <2>3. ASSUME n + 1 <= 4
          PROVE  Run(t \o Append(e, c)) = [ok |-> TRUE, data |-> Run(t).data, group |-> Append(e, c)]
      <3>1. Run(t \o e) = [ok |-> TRUE, data |-> Run(t).data, group |-> e]
        BY <2>2, <2>3
      <3> HIDE DEF T
      <3>2. t \o e \in Seq(Character)
        BY <2>1, ConcatProperties
      <3>3. t \o Append(e, c) = Append(t \o e, c)
        <4>1. Append(e, c) = e \o <<c>> /\ Append(t \o e, c) = (t \o e) \o <<c>>
          BY <2>1, <3>2, AppendIsConcat
        <4>2. <<c>> \in Seq(Character)
          BY <2>1
        <4> QED
          BY <2>1, <4>1, <4>2, ConcatAssociative
      <3>4. Run(Append(t \o e, c)) = TakeCharacter(Run(t \o e), c)
        BY <2>1, <3>2, RunAppend
      <3>5. Len(Append(e, c)) < 5
        BY <2>2, <2>3
      <3>6. c # SPACE /\ c # ZEE
        BY DigitType
      <3> DEFINE st == [ok |-> TRUE, data |-> Run(t).data, group |-> e]
      <3>7. st.ok /\ st.group = e
        OBVIOUS
      <3>8. TakeCharacter(st, c) = [st EXCEPT !.group = Append(e, c)]
        <4> HIDE DEF st
        <4> QED
          BY <3>5, <3>6, <3>7, Zenon DEF TakeCharacter
      <3> QED
        BY <3>1, <3>3, <3>4, <3>8
    <2> QED
      BY <2>2, <2>3
  <1> HIDE DEF T
  <1>3. T \in SUBSET Seq(Digit)
    BY DEF T
  <1>4. T = Seq(Digit)
    BY <1>1, <1>2, <1>3, SequenceInduction
  <1> QED
    BY <1>4 DEF T

\* The fifth completes the group.
LEMMA RunGroup ==
    ASSUME NEW t \in Seq(Character), Run(t).ok, Run(t).group = <<>>,
           NEW b \in Seq(Byte), Len(b) = 4
    PROVE  Run(t \o EncodeGroup(b)) = [ok |-> TRUE, data |-> Run(t).data \o b, group |-> <<>>]
  <1>0. Len(b) \in 1 .. 4
    <2>1. 4 \in 1 .. 4
      OBVIOUS
    <2> QED
      BY <2>1, Zenon
  <1>1. PICK d \in Seq(Digit) : d = EncodeGroup(b) /\ Len(d) = 5
    <2>1. EncodeGroup(b) \in Seq(Digit) /\ Len(EncodeGroup(b)) = 4 + 1
      BY <1>0, EncodeGroupType, Zenon
    <2>2. 4 + 1 = 5
      OBVIOUS
    <2> QED
      BY <2>1, <2>2, Zenon
  <1>2. PICK e \in Seq(Digit), c \in Digit : d = Append(e, c) /\ Len(e) = 4
    <2>1. 4 \in Nat /\ 4 + 1 = 5
      OBVIOUS
    <2> QED
      <3>1. Len(d) = 4 + 1
        BY <1>1, <2>1, Zenon
      <3> QED
        BY <2>1, <3>1, LastOf, ZenonT(60)
  <1>3. Len(e) = 4 /\ Len(d) = 5 /\ Len(e) <= 4
    <2>1. 4 <= 4
      OBVIOUS
    <2> QED
      BY <1>1, <1>2, <2>1, Zenon
  <1>4. Run(t \o e) = [ok |-> TRUE, data |-> Run(t).data, group |-> e]
    BY <1>3, RunGathers, Zenon
  <1>5. e \in Seq(Character) /\ c \in Character /\ t \o e \in Seq(Character)
    BY DigitType, SeqMonotonic, ConcatProperties
  <1>6. t \o d = Append(t \o e, c)
    <2>1. d = e \o <<c>> /\ Append(t \o e, c) = (t \o e) \o <<c>>
      BY <1>2, <1>5, AppendIsConcat
    <2>2. <<c>> \in Seq(Character)
      BY <1>5
    <2> QED
      BY <1>5, <2>1, <2>2, ConcatAssociative
  <1>7. Run(t \o d) = TakeCharacter(Run(t \o e), c)
    BY <1>5, <1>6, RunAppend
  <1>8. ~(Number(d) >= WORD) /\ u32(Number(d)) = b
    <2>1. Pad(d) = [k \in 1 .. 5 |-> d[k]]
      BY <1>1 DEF Pad
    <2>2. Number(Pad(d)) = Number(d)
      BY <2>1 DEF Number
    <2>3. Number(d) < WORD /\ SubSeq(u32(Number(d)), 1, 4) = b
      BY <1>0, <1>1, <2>2, GroupComesBack, Zenon
    <2>4. Number(d) \in Nat
      BY <1>2, <1>3, FullGroup
    <2>5. PICK u \in Seq(Byte) : u = u32(Number(d)) /\ Len(u) = 4
      BY <2>3, <2>4, U32Type
    <2>6. SubSeq(u, 1, 4) = u
      BY <2>5, SubSeqFull
    <2>7. ~(Number(d) >= WORD)
      BY <2>3, <2>4, WordType
    <2> QED
      BY <2>3, <2>5, <2>6, <2>7, Zenon
  <1>9. c # SPACE /\ c # ZEE /\ ~(Len(d) < 5)
    BY <1>3, DigitType
  <1> DEFINE st == [ok |-> TRUE, data |-> Run(t).data, group |-> e]
  <1>10. st.ok /\ st.group = e /\ st.data = Run(t).data
    OBVIOUS
  <1>11. TakeCharacter(st, c) = [st EXCEPT !.group = <<>>, !.data = @ \o b]
    <2> HIDE DEF st
    <2> QED
      BY <1>2, <1>8, <1>9, <1>10, Zenon DEF TakeCharacter
  <1>12. TakeCharacter(st, c) = [ok |-> TRUE, data |-> Run(t).data \o b, group |-> <<>>]
    BY <1>11
  <1> QED
    BY <1>1, <1>4, <1>7, <1>12

\* The groups that the device encodes, digit by digit.
Groups(data) == [i \in DOMAIN Cut(data, 4) |-> EncodeGroup(Cut(data, 4)[i])]

\* Pieces of four bytes, and the rest.
InFours(data, q, r, c) ==
    /\ c \in Seq(Seq(Byte))
    /\ Len(c) = IF r = 0 THEN q ELSE q + 1
    /\ \A i \in 1 .. q : /\ c[i] = SubSeq(data, 4 * (i - 1) + 1, 4 * i)
                         /\ c[i] \in Seq(Byte) /\ Len(c[i]) = 4
    /\ r # 0 => /\ c[q + 1] = SubSeq(data, 4 * q + 1, 4 * q + r)
                /\ c[q + 1] \in Seq(Byte) /\ Len(c[q + 1]) = r

\* q whole groups and one of r bytes.
LEMMA CutInFours ==
    ASSUME NEW data \in Seq(Byte), NEW q \in Nat, NEW r \in 0 .. 3, Len(data) = 4 * q + r
    PROVE  InFours(data, q, r, Cut(data, 4))
  <1>1. PICK L \in Nat : L = Len(data) /\ L = 4 * q + r
    OBVIOUS
  <1>n. PICK N \in Nat : N = IF r = 0 THEN q ELSE q + 1
    OBVIOUS
  <1>2. PICK c \in Seq(Seq(Byte)) :
            /\ c = Cut(data, 4)
            /\ Len(c) = (L + 4 - 1) \div 4
            /\ \A i \in 1 .. Len(c) : c[i] = SubSeq(data, 4 * (i - 1) + 1, IF 4 * i < L THEN 4 * i ELSE L)
    <2>1. 4 \in Nat \ {0}
      OBVIOUS
    <2>2. Cut(data, 4) \in Seq(Seq(Byte)) /\ Pieces(data, 4, Cut(data, 4))
      BY <2>1, CutType
    <2>3. PICK c \in Seq(Seq(Byte)) : c = Cut(data, 4)
      BY <2>2
    <2>4. Pieces(data, 4, c)
      BY <2>2, <2>3, Zenon
    <2>5. /\ Len(c) = (Len(data) + 4 - 1) \div 4
          /\ \A i \in 1 .. Len(c) : c[i] = SubSeq(data, 4 * (i - 1) + 1, IF 4 * i < Len(data) THEN 4 * i ELSE Len(data))
      BY <2>4, Zenon DEF Pieces
    <2> QED
      BY <1>1, <2>3, <2>5, Zenon
  <1>3. (L + 4 - 1) \div 4 = N
    BY <1>1, <1>n
  <1>4. \A i \in 1 .. N : c[i] = SubSeq(data, 4 * (i - 1) + 1, IF 4 * i < L THEN 4 * i ELSE L)
    BY <1>2, <1>3
  <1>5. ASSUME NEW i \in 1 .. q
        PROVE  /\ c[i] = SubSeq(data, 4 * (i - 1) + 1, 4 * i)
               /\ c[i] \in Seq(Byte) /\ Len(c[i]) = 4
    <2>1. i \in 1 .. N /\ (IF 4 * i < L THEN 4 * i ELSE L) = 4 * i
      BY <1>1, <1>n
    <2>2. PICK a \in Nat : a = 4 * (i - 1) + 1 /\ a >= 1 /\ 4 * i = a + 3 /\ a + 3 <= L
      BY <1>1
    <2>3. c[i] = SubSeq(data, a, a + 3)
      BY <1>4, <2>1, <2>2
    <2>4. \A j \in a .. a + 3 : data[j] \in Byte
      <3>1. \A j \in 1 .. L : data[j] \in Byte
        BY <1>1, ElementOfSeq
      <3> QED
        BY <2>2, <3>1
    <2>5. SubSeq(data, a, a + 3) \in Seq(Byte) /\ Len(SubSeq(data, a, a + 3)) = IF a <= a + 3 THEN (a + 3) - a + 1 ELSE 0
      BY <2>4, SubSeqProperties
    <2>6. (IF a <= a + 3 THEN (a + 3) - a + 1 ELSE 0) = 4
      OBVIOUS
    <2> QED
      BY <2>2, <2>3, <2>5, <2>6, Zenon
  <1>6. ASSUME r # 0
        PROVE  /\ c[q + 1] = SubSeq(data, 4 * q + 1, 4 * q + r)
               /\ c[q + 1] \in Seq(Byte) /\ Len(c[q + 1]) = r
    <2>1. /\ q + 1 \in 1 .. N /\ (IF 4 * (q + 1) < L THEN 4 * (q + 1) ELSE L) = 4 * q + r
          /\ 4 * ((q + 1) - 1) + 1 = 4 * q + 1
      BY <1>1, <1>6, <1>n
    <2>2. PICK a \in Nat : a = 4 * q + 1 /\ a >= 1 /\ 4 * q + r = a + (r - 1) /\ a + (r - 1) <= L
      BY <1>1
    <2>3. c[q + 1] = SubSeq(data, a, a + (r - 1))
      BY <1>4, <2>1, <2>2
    <2>4. \A j \in a .. a + (r - 1) : data[j] \in Byte
      <3>1. \A j \in 1 .. L : data[j] \in Byte
        BY <1>1, ElementOfSeq
      <3> QED
        BY <2>2, <3>1
    <2>5. /\ SubSeq(data, a, a + (r - 1)) \in Seq(Byte)
          /\ Len(SubSeq(data, a, a + (r - 1))) = IF a <= a + (r - 1) THEN (a + (r - 1)) - a + 1 ELSE 0
      BY <2>4, SubSeqProperties
    <2>6. (IF a <= a + (r - 1) THEN (a + (r - 1)) - a + 1 ELSE 0) = r
      BY <1>6
    <2> QED
      BY <2>2, <2>3, <2>5, <2>6, Zenon
  <1> QED
    BY <1>2, <1>3, <1>5, <1>6, <1>n, Zenon DEF InFours

\* The groups of full pieces, and the last one.
LEMMA GroupsType ==
    ASSUME NEW data \in Seq(Byte), NEW q \in Nat, NEW r \in 0 .. 3, Len(data) = 4 * q + r
    PROVE  /\ Groups(data) \in Seq(Seq(Digit))
           /\ Len(Groups(data)) = IF r = 0 THEN q ELSE q + 1
           /\ \A i \in 1 .. q : Groups(data)[i] = EncodeGroup(Cut(data, 4)[i])
           /\ r # 0 => Groups(data)[q + 1] = EncodeGroup(Cut(data, 4)[q + 1])
  <1>1. PICK N \in Nat : N = IF r = 0 THEN q ELSE q + 1
    OBVIOUS
  <1>a. InFours(data, q, r, Cut(data, 4))
    BY CutInFours
  <1>2. PICK c : c = Cut(data, 4)
    OBVIOUS
  <1>3. c \in Seq(Seq(Byte)) /\ Len(c) = N
    BY <1>a, <1>1, <1>2, Zenon DEF InFours
  <1>4. DOMAIN c = 1 .. N
    BY <1>3, LenProperties
  <1>5. Groups(data) = [i \in 1 .. N |-> EncodeGroup(c[i])]
    BY <1>2, <1>4 DEF Groups
  <1>6. ASSUME NEW i \in 1 .. N PROVE EncodeGroup(c[i]) \in Seq(Digit)
    <2>1. c[i] \in Seq(Byte) /\ Len(c[i]) \in 1 .. 4
      <3>1. CASE i \in 1 .. q
        <4>1. c[i] \in Seq(Byte) /\ Len(c[i]) = 4
          BY <1>a, <1>2, <3>1, Zenon DEF InFours
        <4>2. 4 \in 1 .. 4
          OBVIOUS
        <4> QED
          BY <4>1, <4>2, Zenon
      <3>2. CASE i = q + 1 /\ r # 0
        <4>1. c[i] \in Seq(Byte) /\ Len(c[i]) = r
          BY <1>a, <1>2, <3>2, Zenon DEF InFours
        <4>2. r \in 1 .. 4
          BY <3>2
        <4> QED
          BY <4>1, <4>2, Zenon
      <3> QED
        BY <1>1, <3>1, <3>2
    <2> QED
      BY <2>1, EncodeGroupType
  <1>7. [i \in 1 .. N |-> EncodeGroup(c[i])] \in Seq(Seq(Digit))
    BY <1>6
  <1>8. Len([i \in 1 .. N |-> EncodeGroup(c[i])]) = N
    OBVIOUS
  <1>9. \A i \in 1 .. N : Groups(data)[i] = EncodeGroup(c[i])
    BY <1>5
  <1>10. (\A i \in 1 .. q : i \in 1 .. N) /\ (r # 0 => q + 1 \in 1 .. N)
    BY <1>1
  <1> QED
    BY <1>1, <1>2, <1>5, <1>7, <1>8, <1>9, <1>10, Zenon

\* The whole groups, one by one: five digits each, read as the four bytes they were made of.
LEMMA GroupsRead ==
    ASSUME NEW data \in Seq(Byte), NEW q \in Nat, NEW r \in 0 .. 3, Len(data) = 4 * q + r
    PROVE  LET t == UpTo(Groups(data), q)
           IN  /\ t \in Seq(Digit) /\ Len(t) = 5 * q
               /\ Run(t) = [ok |-> TRUE, data |-> SubSeq(data, 1, 4 * q), group |-> <<>>]
  <1>1. PICK g \in Seq(Seq(Digit)) : g = Groups(data)
    BY GroupsType
  <1>2. PICK N \in Nat : N = Len(g) /\ q <= N
    <2>1. PICK N \in Nat : N = (IF r = 0 THEN q ELSE q + 1) /\ q <= N
      OBVIOUS
    <2> QED
      BY <1>1, <2>1, GroupsType, Zenon
  <1>3. PICK L \in Nat : L = Len(data) /\ L = 4 * q + r
    OBVIOUS
  <1>a. InFours(data, q, r, Cut(data, 4))
    BY CutInFours
  <1>4. ASSUME NEW i \in 1 .. q
        PROVE  \E b \in Seq(Byte) : /\ b = SubSeq(data, 4 * (i - 1) + 1, 4 * i)
                                    /\ Len(b) = 4 /\ g[i] = EncodeGroup(b)
    <2>1. /\ Cut(data, 4)[i] = SubSeq(data, 4 * (i - 1) + 1, 4 * i)
          /\ Cut(data, 4)[i] \in Seq(Byte) /\ Len(Cut(data, 4)[i]) = 4
      BY <1>a, Zenon DEF InFours
    <2>2. g[i] = EncodeGroup(Cut(data, 4)[i])
      BY <1>1, GroupsType, Zenon
    <2> QED
      BY <2>1, <2>2, Zenon
  <1> DEFINE Good(k) == /\ UpTo(g, k) \in Seq(Digit) /\ Len(UpTo(g, k)) = 5 * k
                        /\ Run(UpTo(g, k)) = [ok |-> TRUE, data |-> SubSeq(data, 1, 4 * k), group |-> <<>>]
             T == {k \in Nat : k <= q => Good(k)}
  <1>5. 0 \in T
    <2>1. UpTo(g, 0) = <<>>
      BY UpToStep
    <2>2. SubSeq(data, 1, 4 * 0) = <<>>
      BY SubSeqEmpty
    <2>3. <<>> \in Seq(Digit) /\ Len(<<>>) = 5 * 0
      BY EmptySeq
    <2>4. Good(0)
      BY <2>1, <2>2, <2>3, RunEmpty, Zenon DEF start
    <2> QED
      BY <2>4
  <1>6. ASSUME NEW k \in T PROVE k + 1 \in T
    <2>0. k \in Nat /\ k + 1 \in Nat
      OBVIOUS
    <2> HIDE DEF Good
    <2> SUFFICES ASSUME k + 1 <= q PROVE Good(k + 1)
      BY <2>0, Zenon
    <2>1. Good(k)
      BY <2>0
    <2> HIDE DEF T
    <2>2. k \in 0 .. N - 1 /\ k + 1 \in 1 .. q /\ (k + 1) - 1 = k /\ k \in 0 .. N /\ k + 1 \in 0 .. N
      BY <1>2, <2>0
    <2>3. PICK b \in Seq(Byte) : b = SubSeq(data, 4 * k + 1, 4 * (k + 1)) /\ Len(b) = 4 /\ g[k + 1] = EncodeGroup(b)
      BY <1>4, <2>2
    <2>4. UpTo(g, k + 1) = UpTo(g, k) \o EncodeGroup(b)
      BY <1>2, <2>2, <2>3, UpToStep
    <2>5. PICK t \in Seq(Digit) : t = UpTo(g, k) /\ Len(t) = 5 * k
      BY <2>1 DEF Good
    <2>6. PICK d \in Seq(Digit) : d = EncodeGroup(b) /\ Len(d) = 5
      <3>1. 4 \in 1 .. 4 /\ 4 + 1 = 5
        OBVIOUS
      <3> QED
        BY <2>3, <3>1, EncodeGroupType, Zenon
    <2>7. t \o d \in Seq(Digit) /\ Len(t \o d) = 5 * (k + 1)
      <3>1. t \o d \in Seq(Digit) /\ Len(t \o d) = Len(t) + Len(d)
        BY ConcatProperties
      <3>2. 5 * k + 5 = 5 * (k + 1)
        BY <2>0
      <3> QED
        BY <2>5, <2>6, <3>1, <3>2, Zenon
    <2>8. t \in Seq(Character)
      BY DigitType, SeqMonotonic
    <2>9. Run(t) = [ok |-> TRUE, data |-> SubSeq(data, 1, 4 * k), group |-> <<>>]
      BY <2>1, <2>5 DEF Good
    <2>10. Run(t \o d) = [ok |-> TRUE, data |-> SubSeq(data, 1, 4 * k) \o b, group |-> <<>>]
      <3>1. Run(t).ok /\ Run(t).group = <<>> /\ Run(t).data = SubSeq(data, 1, 4 * k)
        <4>1. PICK taken : taken = SubSeq(data, 1, 4 * k)
          OBVIOUS
        <4>2. Run(t) = [ok |-> TRUE, data |-> taken, group |-> <<>>]
          BY <2>9, <4>1
        <4>3. Run(t).ok = TRUE /\ Run(t).group = <<>> /\ Run(t).data = taken
          BY <4>2
        <4> QED
          BY <4>1, <4>3
      <3> QED
        BY <2>3, <2>6, <2>8, <3>1, RunGroup
    <2>11. SubSeq(data, 1, 4 * k) \o b = SubSeq(data, 1, 4 * (k + 1))
      <3>1. /\ 1 \in 1 .. L + 1 /\ 4 * k \in 1 - 1 .. L /\ 4 * (k + 1) \in 4 * k .. L
        BY <1>3, <2>2
      <3> QED
        BY <1>3, <2>3, <3>1, ConcatAdjacentSubSeq
    <2> QED
      BY <2>4, <2>5, <2>6, <2>7, <2>10, <2>11, Zenon DEF Good
  <1> HIDE DEF Good, T
  <1>7. T = Nat
    BY <1>5, <1>6, Induction DEF T
  <1>8. q \in T /\ q <= q
    BY <1>7
  <1>9. Good(q)
    BY <1>8 DEF T
  <1> QED
    BY <1>1, <1>9, Zenon DEF Good

\* A number of bytes in fours, and the length encoded_len says.
LEMMA QuotientOf ==
    ASSUME NEW n \in Nat
    PROVE  \E q \in Nat, r \in 0 .. 3 :
               n = 4 * q + r /\ encoded_len(n) = IF r = 0 THEN 5 * q ELSE 5 * q + r + 1
  <1>1. PICK q \in Nat, r \in 0 .. 3 : q = n \div 4 /\ r = n % 4 /\ n = 4 * q + r
    OBVIOUS
  <1> QED
    BY <1>1 DEF encoded_len

\* The digits of a last group of one to three bytes.
LEMMA SomeDigits == \A r \in 1 .. 3 : r + 1 \in Nat /\ r + 1 <= 4 /\ r + 1 # 0 /\ r + 1 # 1 /\ r \in 1 .. 4 /\ r + 1 - 1 = r
  OBVIOUS

\* What the encoder writes: digits, as many as foretold, and read back.
Faithful(data) ==
    /\ encode(data) \in Seq(Digit)
    /\ Len(encode(data)) = encoded_len(Len(data))
    /\ decode(encode(data)) = Decoded(data)

\* What is encoded decodes to what it was, and is as long as was said.
LEMMA EncodeIsFaithful ==
    ASSUME NEW data \in Seq(Byte)
    PROVE  Faithful(data)
  <1>1. PICK L \in Nat : L = Len(data)
    OBVIOUS
  <1>2. PICK q \in Nat, r \in 0 .. 3 :
            L = 4 * q + r /\ encoded_len(L) = IF r = 0 THEN 5 * q ELSE 5 * q + r + 1
    BY QuotientOf
  <1>3. Len(data) = 4 * q + r
    BY <1>1, <1>2
  <1>4. PICK g \in Seq(Seq(Digit)) :
            /\ g = Groups(data)
            /\ Len(g) = IF r = 0 THEN q ELSE q + 1
            /\ r # 0 => g[q + 1] = EncodeGroup(Cut(data, 4)[q + 1])
    BY <1>3, GroupsType
  <1>5. PICK t \in Seq(Digit) :
            /\ t = UpTo(g, q) /\ Len(t) = 5 * q
            /\ Run(t) = [ok |-> TRUE, data |-> SubSeq(data, 1, 4 * q), group |-> <<>>]
    BY <1>3, <1>4, GroupsRead, Zenon
  <1>6. encode(data) = FlattenSeq(g)
    BY <1>4, Zenon DEF encode, Groups
  <1>7. UpTo(g, Len(g)) = FlattenSeq(g)
    BY UpToStep
  <1>8. t \in Seq(Character)
    BY DigitType, SeqMonotonic
  <1>9. PICK head : head = SubSeq(data, 1, 4 * q)
    OBVIOUS
  <1>10. Run(t).ok = TRUE /\ Run(t).group = <<>> /\ Run(t).data = head
    BY <1>5, <1>9
  <1>11. CASE r = 0
    <2>1. Len(g) = q
      BY <1>4, <1>11
    <2>2. encode(data) = t
      BY <1>5, <1>6, <1>7, <2>1, Zenon
    <2>3. encoded_len(L) = 5 * q /\ L = 4 * q
      BY <1>2, <1>11
    <2>4. head = data
      <3>1. SubSeq(data, 1, L) = data
        BY <1>1, SubSeqFull
      <3> QED
        BY <1>9, <2>3, <3>1, Zenon
    <2>5. Finish(Run(t)) = Decoded(data)
      <3>1. Len(<<>>) # 1
        OBVIOUS
      <3> QED
        BY <1>10, <2>4, <3>1, Zenon DEF Finish
    <2> QED
      BY <1>1, <1>5, <2>2, <2>3, <2>5, DecodeIsRun, Zenon DEF Faithful
  <1>12. CASE r # 0
    <2>0. PICK m \in 1 .. 3 : m = r
      BY <1>12
    <2>1. PICK b \in Seq(Byte) :
              /\ b = SubSeq(data, 4 * q + 1, 4 * q + r)
              /\ Len(b) = m
              /\ g[q + 1] = EncodeGroup(b)
      <3>1. InFours(data, q, r, Cut(data, 4))
        BY <1>3, CutInFours
      <3>2. /\ Cut(data, 4)[q + 1] = SubSeq(data, 4 * q + 1, 4 * q + r)
            /\ Cut(data, 4)[q + 1] \in Seq(Byte) /\ Len(Cut(data, 4)[q + 1]) = r
        BY <1>12, <3>1, Zenon DEF InFours
      <3> QED
        BY <1>4, <1>12, <2>0, <3>2, Zenon
    <2>2. m \in 1 .. 4 /\ m + 1 \in Nat /\ m + 1 <= 4 /\ m + 1 # 0 /\ m + 1 # 1 /\ m + 1 - 1 = m
      BY SomeDigits
    <2>3. PICK d \in Seq(Digit) : d = EncodeGroup(b) /\ Len(d) = m + 1
      BY <2>1, <2>2, EncodeGroupType, Zenon
    <2>4. Len(g) = q + 1 /\ q \in 0 .. Len(g) - 1
      <3>1. PICK N \in Nat : N = q + 1 /\ q \in 0 .. N - 1
        OBVIOUS
      <3>2. Len(g) = N
        BY <1>4, <1>12, <3>1
      <3> QED
        BY <3>1, <3>2, Zenon
    <2>5. UpTo(g, q + 1) = t \o d
      BY <1>5, <2>1, <2>3, <2>4, UpToStep, Zenon
    <2>6. encode(data) = t \o d
      BY <1>6, <1>7, <2>4, <2>5, Zenon
    <2>7. t \o d \in Seq(Digit) /\ Len(t \o d) = Len(t) + Len(d)
      BY ConcatProperties
    <2>8. encoded_len(L) = 5 * q + (m + 1)
      BY <1>2, <1>12, <2>0
    <2>9. Run(t \o d) = [ok |-> TRUE, data |-> head, group |-> d]
      <3>1. Len(d) <= 4
        BY <2>2, <2>3, Zenon
      <3> QED
        BY <1>8, <1>10, <3>1, RunGathers, Zenon
    <2>10. Finish(Run(t \o d)) = Decoded(head \o b)
      <3>1. Number(Pad(d)) < WORD /\ SubSeq(u32(Number(Pad(d))), 1, m) = b
        <4>1. Len(b) \in 1 .. 4
          BY <2>1, <2>2, Zenon
        <4> QED
          BY <2>1, <2>3, <4>1, GroupComesBack, Zenon
      <3>2. ~(Number(Pad(d)) >= WORD)
        <4>1. Len(d) < 5
          BY <2>2, <2>3
        <4>2. Number(Pad(d)) \in Nat
          BY <4>1, PadNumber
        <4> QED
          BY <3>1, <4>2, WordType
      <3>3. d # <<>>
        <4>1. Len(<<>>) = 0
          OBVIOUS
        <4> QED
          BY <2>2, <2>3, <4>1, Zenon
      <3>4. Len(d) # 1 /\ Len(d) - 1 = m
        <4>1. PICK k \in Nat : k = Len(d) /\ k = m + 1
          BY <2>2, <2>3, Zenon
        <4>2. k # 1 /\ k - 1 = m
          BY <4>1
        <4> QED
          BY <4>1, <4>2, Zenon
      <3> DEFINE st == [ok |-> TRUE, data |-> head, group |-> d]
      <3>5. st.ok = TRUE /\ st.data = head /\ st.group = d
        OBVIOUS
      <3> HIDE DEF st
      <3>6. Finish(st) = Decoded(head \o b)
        BY <3>1, <3>2, <3>3, <3>4, <3>5, Zenon DEF Finish
      <3> QED
        BY <2>9, <3>6, Zenon DEF st
    <2>11. head \o b = data
      <3>1. 1 \in 1 .. L + 1 /\ 4 * q \in 1 - 1 .. L /\ L \in 4 * q .. L
        BY <1>2
      <3>2. SubSeq(data, 1, 4 * q) \o SubSeq(data, 4 * q + 1, L) = SubSeq(data, 1, L)
        BY <1>1, <3>1, ConcatAdjacentSubSeq
      <3>3. SubSeq(data, 1, L) = data
        BY <1>1, SubSeqFull
      <3> QED
        BY <1>2, <1>9, <2>1, <3>2, <3>3, Zenon
    <2>12. decode(t \o d) = Decoded(data)
      BY <2>10, <2>11, DecodeIsRun, Zenon
    <2> QED
      BY <1>1, <1>5, <2>3, <2>6, <2>7, <2>8, <2>12, Zenon DEF Faithful
  <1> QED
    BY <1>11, <1>12

(***************************************************************************)
(* The host's shorthand for a group of zeroes, written out.                *)
(***************************************************************************)
Symbol == Digit \cup {ZEE}
\* A symbol in digits: the short form of a zero group is spelt out.
Spelt(c) == IF c = ZEE THEN <<0, 0, 0, 0, 0>> ELSE <<c>>
\* A text with its short forms spelt out.
Expand(t) == FlattenSeq([i \in DOMAIN t |-> Spelt(t[i])])

\* What is spelt are digits.
LEMMA SpeltType ==
    ASSUME NEW c \in Symbol
    PROVE  Spelt(c) \in Seq(Digit)
  <1>1. 0 \in Digit
    BY RadixAssumption DEF Digit
  <1>2. <<0, 0, 0, 0, 0>> \in Seq(Digit)
    BY <1>1
  <1>3. c # ZEE => <<c>> \in Seq(Digit)
    BY DEF Symbol
  <1> QED
    BY <1>2, <1>3, Zenon DEF Spelt

\* Nothing is spelt as nothing.
LEMMA ExpandEmpty == Expand(<<>>) = <<>>
  <1>1. [i \in DOMAIN <<>> |-> Spelt(<<>>[i])] = <<>>
    OBVIOUS
  <1> QED
    BY <1>1, FlattenEmpty DEF Expand

\* One more symbol is its spelling behind the rest.
LEMMA ExpandAppend ==
    ASSUME NEW t \in Seq(Symbol), NEW c \in Symbol
    PROVE  Expand(Append(t, c)) = Expand(t) \o Spelt(c)
  <1>1. PICK n \in Nat : n = Len(t) /\ DOMAIN t = 1 .. n
    BY LenProperties
  <1> DEFINE e == [i \in 1 .. n |-> Spelt(t[i])]
  <1>2. /\ DOMAIN Append(t, c) = 1 .. n + 1
        /\ \A i \in 1 .. n : Append(t, c)[i] = t[i]
        /\ Append(t, c)[n + 1] = c
    BY <1>1, AppendProperties
  <1>3. \A i \in 1 .. n : Spelt(t[i]) \in Seq(Digit)
    BY <1>1, SpeltType, ElementOfSeq
  <1>4. e \in Seq(Seq(Digit)) /\ Len(e) = n
    BY <1>3
  <1>5. Spelt(c) \in Seq(Digit)
    BY SpeltType
  <1>6. [i \in 1 .. n + 1 |-> Spelt(Append(t, c)[i])] = Append(e, Spelt(c))
    <2> DEFINE f == [i \in 1 .. n + 1 |-> Spelt(Append(t, c)[i])]
    <2>1. \A i \in 1 .. n + 1 : i \in 1 .. n \/ i = n + 1
      OBVIOUS
    <2>2. \A i \in 1 .. n + 1 : Spelt(Append(t, c)[i]) \in Seq(Digit)
      BY <1>2, <1>3, <1>5, <2>1, Zenon
    <2>3. f \in Seq(Seq(Digit)) /\ Len(f) = n + 1
      <3> DEFINE h(i) == Spelt(Append(t, c)[i])
      <3>1. \A i \in 1 .. n + 1 : h(i) \in Seq(Digit)
        BY <2>2
      <3>2. n + 1 \in Nat
        OBVIOUS
      <3> HIDE DEF h
      <3>3. [i \in 1 .. n + 1 |-> h(i)] \in Seq(Seq(Digit)) /\ Len([i \in 1 .. n + 1 |-> h(i)]) = n + 1
        BY <3>1, <3>2
      <3> QED
        BY <3>3 DEF h
    <2>4. \A i \in 1 .. n + 1 : f[i] = Spelt(Append(t, c)[i])
      OBVIOUS
    <2>5. \A i \in 1 .. n : e[i] = Spelt(t[i])
      OBVIOUS
    <2>6. PICK p \in Seq(Seq(Digit)) : /\ p = Append(e, Spelt(c)) /\ Len(p) = n + 1
                                     /\ \A i \in 1 .. n : p[i] = e[i]
                                     /\ p[n + 1] = Spelt(c)
      <3> HIDE DEF e
      <3> QED
        BY <1>4, <1>5, AppendProperties, ZenonT(60)
    <2>7. \A i \in 1 .. n : i \in 1 .. n + 1
      OBVIOUS
    <2>8. n + 1 \in 1 .. n + 1
      OBVIOUS
    <2> HIDE DEF e, f
    <2>9. \A i \in 1 .. n + 1 : f[i] = p[i]
      <3>1. ASSUME NEW i \in 1 .. n PROVE f[i] = p[i]
        BY <1>2, <2>4, <2>5, <2>6, <2>7, <3>1, Zenon
      <3>2. f[n + 1] = p[n + 1]
        <4>1. f[n + 1] = Spelt(Append(t, c)[n + 1])
          BY <2>4, <2>8
        <4>2. Append(t, c)[n + 1] = c /\ p[n + 1] = Spelt(c)
          BY <1>2, <2>6
        <4> QED
          BY <4>1, <4>2
      <3> QED
        BY <2>1, <3>1, <3>2, Zenon
    <2>10. f = p
      BY <2>3, <2>6, <2>9, SeqEqual
    <2> QED
      BY <2>6, <2>10 DEF f
  <1> QED
    BY <1>1, <1>2, <1>4, <1>5, <1>6, FlattenAppend DEF Expand

\* A spelt text has only digits.
LEMMA ExpandType ==
    ASSUME NEW t \in Seq(Symbol)
    PROVE  Expand(t) \in Seq(Digit)
  <1> DEFINE T == {s \in Seq(Symbol) : Expand(s) \in Seq(Digit)}
  <1>1. <<>> \in T
    BY ExpandEmpty, EmptySeq
  <1>2. ASSUME NEW s \in T, NEW c \in Symbol PROVE Append(s, c) \in T
    <2>1. Expand(s) \o Spelt(c) \in Seq(Digit)
      BY SpeltType, ConcatProperties
    <2>2. Append(s, c) \in Seq(Symbol)
      BY AppendProperties
    <2> QED
      BY <2>1, <2>2, ExpandAppend
  <1> HIDE DEF T
  <1>3. T \in SUBSET Seq(Symbol)
    BY DEF T
  <1>4. T = Seq(Symbol)
    BY <1>1, <1>2, <1>3, SequenceInduction
  <1> QED
    BY <1>4 DEF T

\* Two texts are spelt one behind the other.
LEMMA ExpandConcat ==
    ASSUME NEW t \in Seq(Symbol), NEW s \in Seq(Symbol)
    PROVE  Expand(t \o s) = Expand(t) \o Expand(s)
  <1> DEFINE T == {e \in Seq(Symbol) : Expand(t \o e) = Expand(t) \o Expand(e)}
  <1>1. <<>> \in T
    <2>1. t \o <<>> = t /\ Expand(t) \o <<>> = Expand(t)
      BY ConcatEmptySeq, ExpandType
    <2>2. <<>> \in Seq(Symbol)
      BY EmptySeq
    <2> QED
      BY <2>1, <2>2, ExpandEmpty
  <1>2. ASSUME NEW e \in T, NEW c \in Symbol PROVE Append(e, c) \in T
    <2>1. Expand(t \o e) = Expand(t) \o Expand(e) /\ e \in Seq(Symbol)
      OBVIOUS
    <2> HIDE DEF T
    <2>2. t \o e \in Seq(Symbol) /\ Append(e, c) \in Seq(Symbol)
      BY <2>1, ConcatProperties, AppendProperties
    <2>3. t \o Append(e, c) = Append(t \o e, c)
      <3>1. Append(e, c) = e \o <<c>> /\ Append(t \o e, c) = (t \o e) \o <<c>>
        BY <2>1, <2>2, AppendIsConcat
      <3>2. <<c>> \in Seq(Symbol)
        OBVIOUS
      <3> QED
        BY <2>1, <3>1, <3>2, ConcatAssociative
    <2>4. Expand(Append(t \o e, c)) = Expand(t \o e) \o Spelt(c) /\ Expand(Append(e, c)) = Expand(e) \o Spelt(c)
      BY <2>1, <2>2, ExpandAppend
    <2>5. (Expand(t) \o Expand(e)) \o Spelt(c) = Expand(t) \o (Expand(e) \o Spelt(c))
      <3>1. Expand(t) \in Seq(Digit) /\ Expand(e) \in Seq(Digit) /\ Spelt(c) \in Seq(Digit)
        BY <2>1, ExpandType, SpeltType
      <3> QED
        BY <3>1, ConcatAssociative, SMTT(30)
    <2>6. Expand(t \o Append(e, c)) = Expand(t) \o Expand(Append(e, c))
      BY <2>1, <2>3, <2>4, <2>5, Zenon
    <2> QED
      BY <2>2, <2>6 DEF T
  <1> HIDE DEF T
  <1>3. T \in SUBSET Seq(Symbol)
    BY DEF T
  <1>4. T = Seq(Symbol)
    BY <1>1, <1>2, <1>3, SequenceInduction
  <1> QED
    BY <1>4 DEF T

\* Digits are spelt as themselves.
LEMMA ExpandDigits ==
    ASSUME NEW t \in Seq(Digit)
    PROVE  t \in Seq(Symbol) /\ Expand(t) = t
  <1>1. Digit \subseteq Symbol
    BY DEF Symbol
  <1> DEFINE T == {e \in Seq(Digit) : Expand(e) = e}
  <1>2. <<>> \in T
    BY ExpandEmpty, EmptySeq
  <1>3. ASSUME NEW e \in T, NEW c \in Digit PROVE Append(e, c) \in T
    <2>1. Expand(e) = e /\ e \in Seq(Digit) /\ e \in Seq(Symbol) /\ c \in Symbol
      BY <1>1, SeqMonotonic
    <2> HIDE DEF T
    <2>2. Spelt(c) = <<c>>
      BY DigitType DEF Spelt
    <2>3. Append(e, c) = e \o <<c>> /\ Append(e, c) \in Seq(Digit)
      BY <2>1, AppendIsConcat, AppendProperties
    <2> QED
      BY <2>1, <2>2, <2>3, ExpandAppend DEF T
  <1> HIDE DEF T
  <1>4. T \in SUBSET Seq(Digit)
    BY DEF T
  <1>5. T = Seq(Digit)
    BY <1>2, <1>3, <1>4, SequenceInduction
  <1>6. t \in Seq(Symbol)
    BY <1>1, SeqMonotonic
  <1> QED
    BY <1>5, <1>6 DEF T

\* Four zeroes are the digits of zero.
LEMMA ZeroGroup == EncodeGroup(<<0, 0, 0, 0>>) = <<0, 0, 0, 0, 0>>
  <1>1. Word(<<0, 0, 0, 0>>) = 0
    BY RadixAssumption DEF Word
  <1>2. 0 \div RADIX = 0 /\ 0 % RADIX = 0
    BY RadixAssumption
  <1>3. Digits(0) = <<0, 0, 0, 0, 0>>
    BY <1>2, Zenon DEF Digits
  <1>4. SubSeq(<<0, 0, 0, 0, 0>>, 1, Len(<<0, 0, 0, 0>>) + 1) = <<0, 0, 0, 0, 0>>
    <2>1. Len(<<0, 0, 0, 0>>) + 1 = 5 /\ Len(<<0, 0, 0, 0, 0>>) = 5
      OBVIOUS
    <2>2. <<0, 0, 0, 0, 0>> \in Seq(Nat)
      OBVIOUS
    <2>3. SubSeq(<<0, 0, 0, 0, 0>>, 1, Len(<<0, 0, 0, 0, 0>>)) = <<0, 0, 0, 0, 0>>
      BY <2>2, SubSeqFull
    <2> QED
      BY <2>1, <2>3, Zenon
  <1> QED
    BY <1>1, <1>3, <1>4, Zenon DEF EncodeGroup

\* A group as the host writes it is, spelt out, the group as the device writes it.
LEMMA GoGroup ==
    ASSUME NEW b \in Seq(Byte), Len(b) \in 1 .. 4
    PROVE  GoEncodeGroup(b) \in Seq(Symbol) /\ Expand(GoEncodeGroup(b)) = EncodeGroup(b)
  <1>1. CASE b = <<0, 0, 0, 0>>
    <2>1. GoEncodeGroup(b) = <<ZEE>>
      BY <1>1 DEF GoEncodeGroup
    <2>2. <<ZEE>> \in Seq(Symbol) /\ ZEE \in Symbol
      BY DEF Symbol
    <2>3. <<ZEE>> = Append(<<>>, ZEE)
      OBVIOUS
    <2>4. <<>> \in Seq(Symbol)
      BY EmptySeq
    <2>5. Expand(<<ZEE>>) = <<>> \o Spelt(ZEE)
      BY <2>2, <2>3, <2>4, ExpandAppend, ExpandEmpty
    <2>6. Spelt(ZEE) \in Seq(Digit) /\ Spelt(ZEE) = <<0, 0, 0, 0, 0>>
      BY <2>2, SpeltType DEF Spelt
    <2>7. <<>> \o Spelt(ZEE) = Spelt(ZEE)
      BY <2>6, ConcatEmptySeq
    <2> QED
      BY <1>1, <2>1, <2>2, <2>5, <2>6, <2>7, ZeroGroup, Zenon
  <1>2. CASE b # <<0, 0, 0, 0>>
    <2>1. GoEncodeGroup(b) = EncodeGroup(b)
      BY <1>2 DEF GoEncodeGroup
    <2> QED
      BY <2>1, EncodeGroupType, ExpandDigits
  <1> QED
    BY <1>1, <1>2

\* Every piece is of one to four bytes.
LEMMA PiecesOfFour ==
    ASSUME NEW data \in Seq(Byte)
    PROVE  \E c \in Seq(Seq(Byte)), N \in Nat :
               /\ c = Cut(data, 4) /\ N = Len(c) /\ DOMAIN c = 1 .. N
               /\ \A i \in 1 .. N : c[i] \in Seq(Byte) /\ Len(c[i]) \in 1 .. 4
  <1>1. PICK L \in Nat : L = Len(data)
    OBVIOUS
  <1>2. PICK q \in Nat, r \in 0 .. 3 : L = 4 * q + r
    BY QuotientOf
  <1>3. InFours(data, q, r, Cut(data, 4))
    BY <1>1, <1>2, CutInFours
  <1>4. PICK c \in Seq(Seq(Byte)) : c = Cut(data, 4)
    BY <1>3 DEF InFours
  <1>5. PICK N \in Nat : N = IF r = 0 THEN q ELSE q + 1
    OBVIOUS
  <1>6. N = Len(c)
    BY <1>3, <1>4, <1>5, Zenon DEF InFours
  <1>7. DOMAIN c = 1 .. N
    BY <1>6, LenProperties
  <1>8. ASSUME NEW i \in 1 .. N PROVE c[i] \in Seq(Byte) /\ Len(c[i]) \in 1 .. 4
    <2>1. CASE i \in 1 .. q
      <3>1. 4 \in 1 .. 4
        OBVIOUS
      <3> QED
        BY <1>3, <1>4, <2>1, <3>1, Zenon DEF InFours
    <2>2. CASE i = q + 1 /\ r # 0
      <3>1. r \in 1 .. 4
        BY <2>2
      <3> QED
        BY <1>3, <1>4, <2>2, <3>1, Zenon DEF InFours
    <2> QED
      BY <1>5, <2>1, <2>2
  <1> QED
    BY <1>4, <1>6, <1>7, <1>8, Zenon

\* The host sends what the device's own encoder would.
LEMMA HostEncodesAlike ==
    ASSUME NEW data \in Seq(Byte)
    PROVE  HostEncode(data) = encode(data)
  <1>1. PICK c \in Seq(Seq(Byte)), N \in Nat :
               /\ c = Cut(data, 4) /\ N = Len(c) /\ DOMAIN c = 1 .. N
               /\ \A i \in 1 .. N : c[i] \in Seq(Byte) /\ Len(c[i]) \in 1 .. 4
    BY PiecesOfFour
  <1> DEFINE g == [i \in 1 .. N |-> EncodeGroup(c[i])]
             h == [i \in 1 .. N |-> GoEncodeGroup(c[i])]
  <1>2. \A i \in 1 .. N : /\ EncodeGroup(c[i]) \in Seq(Digit)
                          /\ GoEncodeGroup(c[i]) \in Seq(Symbol)
                          /\ Expand(GoEncodeGroup(c[i])) = EncodeGroup(c[i])
    BY <1>1, EncodeGroupType, GoGroup
  <1>3. g \in Seq(Seq(Digit)) /\ Len(g) = N /\ h \in Seq(Seq(Symbol)) /\ Len(h) = N
    BY <1>2
  <1>4. \A i \in 1 .. N : g[i] = EncodeGroup(c[i]) /\ h[i] = GoEncodeGroup(c[i])
    OBVIOUS
  <1>5. encode(data) = FlattenSeq(g) /\ GoEncode(data) = FlattenSeq(h)
    BY <1>1, Zenon DEF encode, GoEncode
  <1>6. HostEncode(data) = Expand(GoEncode(data))
    BY Zenon DEF HostEncode, Expand, Spelt
  <1> HIDE DEF g, h
  <1> DEFINE T == {k \in Nat : k <= N => Expand(UpTo(h, k)) = UpTo(g, k)}
  <1>7. 0 \in T
    <2>1. UpTo(h, 0) = <<>> /\ UpTo(g, 0) = <<>>
      BY <1>3, UpToStep
    <2> QED
      BY <2>1, ExpandEmpty
  <1>8. ASSUME NEW k \in T PROVE k + 1 \in T
    <2>0. k \in Nat /\ k + 1 \in Nat
      OBVIOUS
    <2> SUFFICES ASSUME k + 1 <= N PROVE Expand(UpTo(h, k + 1)) = UpTo(g, k + 1)
      BY <2>0, Zenon
    <2>1. Expand(UpTo(h, k)) = UpTo(g, k)
      BY <2>0
    <2> HIDE DEF T
    <2>2. k \in 0 .. N - 1 /\ k \in 0 .. N /\ k + 1 \in 1 .. N
      BY <2>0
    <2>3. UpTo(h, k + 1) = UpTo(h, k) \o h[k + 1] /\ UpTo(h, k) \in Seq(Symbol) /\ h[k + 1] \in Seq(Symbol)
      BY <1>3, <2>2, UpToStep
    <2>4. UpTo(g, k + 1) = UpTo(g, k) \o g[k + 1]
      BY <1>3, <2>2, UpToStep
    <2>5. Expand(h[k + 1]) = g[k + 1]
      BY <1>2, <1>4, <2>2
    <2> QED
      BY <2>1, <2>3, <2>4, <2>5, ExpandConcat
  <1> HIDE DEF T
  <1>9. T = Nat
    BY <1>7, <1>8, Induction DEF T
  <1>10. Expand(UpTo(h, N)) = UpTo(g, N)
    <2>1. N \in T /\ N <= N
      BY <1>9
    <2> QED
      BY <2>1 DEF T
  <1>11. UpTo(h, N) = FlattenSeq(h) /\ UpTo(g, N) = FlattenSeq(g)
    BY <1>3, UpToStep
  <1> QED
    BY <1>5, <1>6, <1>10, <1>11, Zenon

\* Texts that lead to one state lead on alike.
LEMMA RunOnAlike ==
    ASSUME NEW s \in Seq(Character), NEW t \in Seq(Character), Run(s) = Run(t), NEW d \in Seq(Character)
    PROVE  Run(s \o d) = Run(t \o d)
  <1> DEFINE T == {e \in Seq(Character) : Run(s \o e) = Run(t \o e)}
  <1>1. <<>> \in T
    <2>1. s \o <<>> = s /\ t \o <<>> = t /\ <<>> \in Seq(Character)
      BY ConcatEmptySeq, EmptySeq
    <2> QED
      BY <2>1
  <1>2. ASSUME NEW e \in T, NEW c \in Character PROVE Append(e, c) \in T
    <2>1. Run(s \o e) = Run(t \o e) /\ e \in Seq(Character)
      OBVIOUS
    <2> HIDE DEF T
    <2>2. s \o e \in Seq(Character) /\ t \o e \in Seq(Character) /\ Append(e, c) \in Seq(Character) /\ <<c>> \in Seq(Character)
      BY <2>1, ConcatProperties, AppendProperties
    <2>3. s \o Append(e, c) = Append(s \o e, c) /\ t \o Append(e, c) = Append(t \o e, c)
      <3>1. /\ Append(e, c) = e \o <<c>> /\ Append(s \o e, c) = (s \o e) \o <<c>>
            /\ Append(t \o e, c) = (t \o e) \o <<c>>
        BY <2>1, <2>2, AppendIsConcat
      <3>2. (s \o e) \o <<c>> = s \o (e \o <<c>>) /\ (t \o e) \o <<c>> = t \o (e \o <<c>>)
        <4>1. (s \o e) \o <<c>> = s \o (e \o <<c>>)
          BY <2>1, <2>2, ConcatAssociative, SMTT(30)
        <4>2. (t \o e) \o <<c>> = t \o (e \o <<c>>)
          BY <2>1, <2>2, ConcatAssociative, SMTT(30)
        <4> QED
          BY <4>1, <4>2
      <3> QED
        BY <3>1, <3>2, Zenon
    <2>4. Run(Append(s \o e, c)) = TakeCharacter(Run(s \o e), c) /\ Run(Append(t \o e, c)) = TakeCharacter(Run(t \o e), c)
      BY <2>2, RunAppend
    <2> QED
      BY <2>1, <2>2, <2>3, <2>4, Zenon DEF T
  <1> HIDE DEF T
  <1>3. T \in SUBSET Seq(Character)
    BY DEF T
  <1>4. T = Seq(Character)
    BY <1>1, <1>2, <1>3, SequenceInduction
  <1> QED
    BY <1>4 DEF T

\* A line break is nothing to either decoder.
LEMMA RunSpace ==
    ASSUME NEW s \in Seq(Character), NEW d \in Seq(Character)
    PROVE  Run(s \o Append(d, SPACE)) = Run(s \o d)
  <1>1. SPACE \in Character
    BY DEF Character
  <1>2. s \o d \in Seq(Character) /\ Append(d, SPACE) \in Seq(Character) /\ <<SPACE>> \in Seq(Character)
    BY <1>1, ConcatProperties, AppendProperties
  <1>3. s \o Append(d, SPACE) = Append(s \o d, SPACE)
    <2>1. Append(d, SPACE) = d \o <<SPACE>> /\ Append(s \o d, SPACE) = (s \o d) \o <<SPACE>>
      BY <1>1, <1>2, AppendIsConcat
    <2> QED
      BY <1>2, <2>1, ConcatAssociative
  <1>4. Run(Append(s \o d, SPACE)) = TakeCharacter(Run(s \o d), SPACE)
    BY <1>1, <1>2, RunAppend
  <1> QED
    BY <1>3, <1>4, Zenon DEF TakeCharacter

\* A line has a width.
LEMMA LineWidthType == LINE_WIDTH \in Nat \ {0}
  BY RadixAssumption

\* What the host sends is complete with its last line, not before, and is what was meant.
THEOREM UploadArrives ==
    ASSUME NEW data \in Seq(Byte)
    PROVE  Arrives(data)
  <1>1. PICK t \in Seq(Digit) : t = encode(data) /\ Len(t) = encoded_len(Len(data)) /\ decode(t) = Decoded(data)
    BY EncodeIsFaithful DEF Faithful
  <1>2. HostEncode(data) = t
    BY <1>1, HostEncodesAlike
  <1>3. PICK lines \in Seq(Seq(Digit)) : lines = Cut(t, LINE_WIDTH)
    BY CutType, LineWidthType
  <1>4. Pieces(t, LINE_WIDTH, lines) /\ Rejoins(t, LINE_WIDTH, lines) /\ FlattenSeq(lines) = t
    BY <1>3, CutType, CutRejoined, LineWidthType, Zenon
  <1>5. HostEncodeLines(data) = lines
    BY <1>2, <1>3, Zenon DEF HostEncodeLines
  <1>6. ASSUME NEW k \in 1 .. Len(lines) - 1
        PROVE  Len(FlattenSeq(SubSeq(lines, 1, k))) < encoded_len(Len(data))
    <2>1. LINE_WIDTH * k < Len(t)
      BY <1>4 DEF Pieces
    <2>2. k \in 0 .. Len(lines)
      OBVIOUS
    <2>3. UpTo(lines, k) = SubSeq(t, 1, IF LINE_WIDTH * k < Len(t) THEN LINE_WIDTH * k ELSE Len(t))
      BY <1>4, <2>2, Zenon DEF Rejoins
    <2>4. PICK m \in Nat : m = LINE_WIDTH * k
      BY LineWidthType
    <2>5. UpTo(lines, k) = SubSeq(t, 1, m) /\ m < Len(t)
      BY <2>1, <2>3, <2>4, Zenon
    <2>6. m <= Len(t)
      BY <2>5
    <2>7. Len(SubSeq(t, 1, m)) = m
      BY <2>6, PrefixType
    <2> QED
      BY <1>1, <2>5, <2>7, Zenon DEF UpTo
  <1>7. SubSeq(lines, 1, Len(lines)) = lines
    BY SubSeqFull
  <1> QED
    BY <1>1, <1>4, <1>5, <1>6, <1>7, Zenon DEF Arrives

\* What `read' answers, line breaks and all, the host decodes to what is stored.
THEOREM AnswerComesBack ==
    ASSUME NEW data \in Seq(Byte)
    PROVE  ComesBack(data)
  <1>1. PICK t \in Seq(Digit) : t = encode(data) /\ decode(t) = Decoded(data)
    BY EncodeIsFaithful DEF Faithful
  <1>2. PICK c \in Seq(Seq(Digit)) : c = Cut(t, LINE_WIDTH)
    BY CutType, LineWidthType
  <1>3. FlattenSeq(c) = t
    BY <1>2, CutRejoined, LineWidthType, Zenon
  <1>4. PICK N \in Nat : N = Len(c) /\ DOMAIN c = 1 .. N
    BY LenProperties
  <1> DEFINE s == [i \in 1 .. N |-> Append(c[i], SPACE)]
  <1>5. SPACE \in Character
    BY DEF Character
  <1>6. \A i \in 1 .. N : c[i] \in Seq(Digit) /\ c[i] \in Seq(Character)
    <2>1. \A i \in 1 .. N : c[i] \in Seq(Digit)
      BY <1>4, ElementOfSeq
    <2> QED
      BY <2>1, DigitType, SeqMonotonic
  <1>7. \A i \in 1 .. N : Append(c[i], SPACE) \in Seq(Character)
    BY <1>5, <1>6, AppendProperties
  <1>8. s \in Seq(Seq(Character)) /\ Len(s) = N
    <2> DEFINE h(i) == Append(c[i], SPACE)
    <2>1. \A i \in 1 .. N : h(i) \in Seq(Character)
      BY <1>7
    <2> HIDE DEF h
    <2>2. [i \in 1 .. N |-> h(i)] \in Seq(Seq(Character)) /\ Len([i \in 1 .. N |-> h(i)]) = N
      BY <2>1
    <2> QED
      BY <2>2 DEF h
  <1>9. \A i \in 1 .. N : s[i] = Append(c[i], SPACE)
    OBVIOUS
  <1>10. c \in Seq(Seq(Character))
    <2>1. \A x \in Seq(Digit) : x \in Seq(Character)
      BY DigitType, SeqMonotonic
    <2>2. Seq(Digit) \subseteq Seq(Character)
      BY <2>1
    <2> QED
      BY <2>2, SeqMonotonic
  <1>11. FlattenSeq([i \in DOMAIN Cut(encode(data), LINE_WIDTH) |->
                                Append(Cut(encode(data), LINE_WIDTH)[i], SPACE)]) = FlattenSeq(s)
    BY <1>1, <1>2, <1>4, Zenon
  <1> HIDE DEF s
  <1> DEFINE T == {k \in Nat : k <= N => Run(UpTo(s, k)) = Run(UpTo(c, k))}
  <1>12. 0 \in T
    <2>1. UpTo(s, 0) = <<>> /\ UpTo(c, 0) = <<>>
      BY <1>8, UpToStep
    <2> QED
      BY <2>1
  <1>13. ASSUME NEW k \in T PROVE k + 1 \in T
    <2>0. k \in Nat /\ k + 1 \in Nat
      OBVIOUS
    <2> SUFFICES ASSUME k + 1 <= N PROVE Run(UpTo(s, k + 1)) = Run(UpTo(c, k + 1))
      BY <2>0, Zenon
    <2>1. Run(UpTo(s, k)) = Run(UpTo(c, k))
      BY <2>0
    <2> HIDE DEF T
    <2>2. k \in 0 .. N - 1 /\ k \in 0 .. N /\ k + 1 \in 1 .. N
      BY <2>0
    <2>3. UpTo(s, k + 1) = UpTo(s, k) \o s[k + 1] /\ UpTo(s, k) \in Seq(Character)
      BY <1>8, <2>2, UpToStep
    <2>4. UpTo(c, k + 1) = UpTo(c, k) \o c[k + 1] /\ UpTo(c, k) \in Seq(Character)
      BY <1>4, <1>10, <2>2, UpToStep
    <2>5. s[k + 1] = Append(c[k + 1], SPACE) /\ c[k + 1] \in Seq(Character)
      BY <1>6, <1>9, <2>2
    <2>6. Run(UpTo(s, k) \o Append(c[k + 1], SPACE)) = Run(UpTo(s, k) \o c[k + 1])
      BY <2>3, <2>5, RunSpace
    <2>7. Run(UpTo(s, k) \o c[k + 1]) = Run(UpTo(c, k) \o c[k + 1])
      BY <2>1, <2>3, <2>4, <2>5, RunOnAlike
    <2> QED
      BY <2>3, <2>4, <2>5, <2>6, <2>7, Zenon
  <1> HIDE DEF T
  <1>14. T = Nat
    BY <1>12, <1>13, Induction DEF T
  <1>15. Run(UpTo(s, N)) = Run(UpTo(c, N))
    BY <1>14 DEF T
  <1>16. UpTo(s, N) = FlattenSeq(s) /\ UpTo(c, N) = t /\ UpTo(s, N) \in Seq(Character)
    <2>1. N \in 0 .. N
      OBVIOUS
    <2> QED
      BY <1>3, <1>4, <1>8, <1>10, <2>1, UpToStep
  <1>17. PICK text \in Seq(Character) : text = FlattenSeq(s)
    BY <1>16
  <1>18. decode(text) = Decoded(data)
    BY <1>1, <1>15, <1>16, <1>17, DecodeIsRun, Zenon
  <1>19. decode(text).ok
    BY <1>18, DecodedData
  <1>20. HostDecode(text) = Decoded(data)
    BY <1>18, <1>19, HostAgrees, Zenon DEF HostReadsAlike
  <1> QED
    BY <1>11, <1>17, <1>20, Zenon DEF ComesBack
=============================================================================
