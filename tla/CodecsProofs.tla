---------------------------- MODULE CodecsProofs ----------------------------
(***************************************************************************)
(* The configuration codec of both ends, for every configuration and every *)
(* string of bytes: what is written is read, both ends read and write      *)
(* alike, and damage to a byte is seen.  The properties of Codecs follow   *)
(* from these facts and an invariant that says how a blob was damaged.     *)
(***************************************************************************)
EXTENDS Codecs, Ascii85Proofs

(***************************************************************************)
(* Repeated reading goes item by item.                                     *)
(***************************************************************************)
Onto(item, r) ==
    IF r.ok
    THEN IF item[r.pos].ok THEN Device!Read(Append(r.val, item[r.pos].val), item[r.pos].pos)
         ELSE item[r.pos]
    ELSE r

\* What reading n items from p has come to, item after item.
Readings(item, p, n, st) ==
    /\ st[0] = Device!Read(<<>>, p)
    /\ \A k \in 1 .. n : st[k] = Onto(item, st[k - 1])

\* The function by which Repeat folds the numbers up to n.
GoesUp(g, item, p, n) ==
    g = [s \in SUBSET (1 .. n) |-> IF s = {} THEN Device!Read(<<>>, p) ELSE Onto(item, g[s \ {Max(s)}])]

\* The largest of a set of numbers up to n + 1.
LEMMA TopOf ==
    ASSUME NEW n \in Nat, NEW s \in SUBSET (1 .. n + 1)
    PROVE  /\ n + 1 \in s => s \ {n + 1} \in SUBSET (1 .. n) /\ Max(s) = n + 1 /\ s # {}
           /\ n + 1 \notin s => s \in SUBSET (1 .. n)
           /\ s \in SUBSET (1 .. n) => n + 1 \notin s
           /\ s \ {Max(s)} \in SUBSET (1 .. n + 1) /\ (n + 1 \notin s => n + 1 \notin s \ {Max(s)})
  <1>0. n + 1 \in 1 .. n + 1 /\ \A x \in 1 .. n + 1 : x <= n + 1 /\ (x # n + 1 => x \in 1 .. n) /\ x \in Nat
    OBVIOUS
  <1>1. ASSUME n + 1 \in s PROVE s \ {n + 1} \in SUBSET (1 .. n) /\ Max(s) = n + 1
    <2>1. Max(s) \in s /\ Max(s) >= n + 1
      <3>1. n + 1 \in s /\ \A y \in s : n + 1 >= y
        BY <1>0, <1>1
      <3> QED
        BY <3>1 DEF Max
    <2>2. Max(s) <= n + 1 /\ Max(s) \in Nat
      BY <1>0, <2>1
    <2> QED
      BY <1>0, <2>1, <2>2
  <1>2. n + 1 \notin s => s \in SUBSET (1 .. n)
    BY <1>0
  <1>3. n + 1 \notin 1 .. n
    OBVIOUS
  <1> QED
    BY <1>1, <1>2, <1>3

\* That function exists.
LEMMA GoesUpExists ==
    ASSUME NEW item, NEW p, NEW m \in Nat
    PROVE  \E g : GoesUp(g, item, p, m)
  <1> DEFINE T == {n \in Nat : \E g : GoesUp(g, item, p, n)}
  <1>1. 0 \in T
    <2> DEFINE g0 == [s \in SUBSET (1 .. 0) |-> Device!Read(<<>>, p)]
    <2>1. \A s \in SUBSET (1 .. 0) : s = {}
      OBVIOUS
    <2>2. GoesUp(g0, item, p, 0)
      BY <2>1 DEF GoesUp
    <2> QED
      BY <2>2
  <1>2. ASSUME NEW n \in T PROVE n + 1 \in T
    <2>0. n \in Nat /\ n + 1 \in Nat
      OBVIOUS
    <2>1. PICK g : GoesUp(g, item, p, n)
      OBVIOUS
    <2> HIDE DEF T
    <2> DEFINE h == [s \in SUBSET (1 .. n + 1) |-> IF n + 1 \in s THEN Onto(item, g[s \ {n + 1}]) ELSE g[s]]
    <2>2. \A s \in SUBSET (1 .. n) : g[s] = IF s = {} THEN Device!Read(<<>>, p) ELSE Onto(item, g[s \ {Max(s)}])
      BY <2>1, Zenon DEF GoesUp
    <2>3. \A s \in SUBSET (1 .. n + 1) : h[s] = IF n + 1 \in s THEN Onto(item, g[s \ {n + 1}]) ELSE g[s]
      OBVIOUS
    <2>4. ASSUME NEW s \in SUBSET (1 .. n + 1)
          PROVE  h[s] = IF s = {} THEN Device!Read(<<>>, p) ELSE Onto(item, h[s \ {Max(s)}])
      <3> HIDE DEF h
      <3>0. SUBSET (1 .. n) \subseteq SUBSET (1 .. n + 1)
        BY <2>0
      <3>1. CASE n + 1 \in s
        <4>1. s \ {n + 1} \in SUBSET (1 .. n) /\ Max(s) = n + 1 /\ s # {}
          BY <2>0, <3>1, TopOf
        <4>2. h[s \ {n + 1}] = g[s \ {n + 1}]
          BY <2>3, <3>0, <4>1
        <4> QED
          BY <2>3, <3>1, <4>1, <4>2
      <3>2. CASE n + 1 \notin s
        <4>1. s \in SUBSET (1 .. n) /\ s \ {Max(s)} \in SUBSET (1 .. n + 1) /\ n + 1 \notin s \ {Max(s)}
          BY <2>0, <3>2, TopOf
        <4>2. h[s] = g[s] /\ h[s \ {Max(s)}] = g[s \ {Max(s)}]
          BY <2>3, <3>2, <4>1
        <4> QED
          BY <2>2, <4>1, <4>2
      <3> QED
        BY <3>1, <3>2
    <2>5. h = [s \in SUBSET (1 .. n + 1) |-> IF s = {} THEN Device!Read(<<>>, p) ELSE Onto(item, h[s \ {Max(s)}])]
      <3> DEFINE f == [s \in SUBSET (1 .. n + 1) |-> IF s = {} THEN Device!Read(<<>>, p) ELSE Onto(item, h[s \ {Max(s)}])]
      <3>1. \A s \in SUBSET (1 .. n + 1) : h[s] = f[s]
        <4> HIDE DEF h
        <4> QED
          BY <2>4
      <3>2. DOMAIN h = SUBSET (1 .. n + 1) /\ DOMAIN f = SUBSET (1 .. n + 1)
        OBVIOUS
      <3>3. h = [s \in DOMAIN h |-> h[s]] /\ f = [s \in DOMAIN f |-> f[s]]
        OBVIOUS
      <3> HIDE DEF h, f
      <3>4. h = f
        BY <3>1, <3>2, <3>3
      <3> QED
        BY <3>4 DEF f
    <2> HIDE DEF h
    <2>6. GoesUp(h, item, p, n + 1)
      BY <2>5, Zenon DEF GoesUp
    <2> QED
      BY <2>0, <2>6 DEF T
  <1> HIDE DEF T
  <1>3. T = Nat
    BY <1>1, <1>2, Induction DEF T
  <1> QED
    BY <1>3 DEF T

\* Repeat is the last of the readings.
LEMMA RepeatReadings ==
    ASSUME NEW item, NEW p, NEW n \in Nat
    PROVE  \E st : Readings(item, p, n, st) /\ Device!Repeat(n, item, p) = st[n]
  <1> DEFINE Right(g) == g = [s \in SUBSET (1 .. n) |-> IF s = {} THEN Device!Read(<<>>, p) ELSE Onto(item, g[s \ {Max(s)}])]
             c == CHOOSE g : Right(g)
  <1>0. \E g : Right(g)
    <2>1. PICK g : GoesUp(g, item, p, n)
      BY GoesUpExists, Zenon
    <2>2. Right(g)
      BY <2>1, Zenon DEF GoesUp
    <2> HIDE DEF Right
    <2> QED
      BY <2>2
  <1>1. c = [s \in SUBSET (1 .. n) |-> IF s = {} THEN Device!Read(<<>>, p) ELSE Onto(item, c[s \ {Max(s)}])]
    BY <1>0
  <1>2. DOMAIN [i \in 1 .. n |-> i] = 1 .. n
    OBVIOUS
  <1>3. Device!Repeat(n, item, p) = c[1 .. n]
    BY <1>2, Zenon DEF Device!Repeat, Device!FoldLeft, Device!MapThenFoldSet, Device!Max, Max,
       Onto, Device!Then, Device!Read
  <1> HIDE DEF c
  <1>5. \A s \in SUBSET (1 .. n) : c[s] = IF s = {} THEN Device!Read(<<>>, p) ELSE Onto(item, c[s \ {Max(s)}])
    BY <1>1, Zenon
  <1> DEFINE st == [k \in 0 .. n |-> c[1 .. k]]
  <1>6. st[0] = Device!Read(<<>>, p)
    <2>1. 1 .. 0 = {} /\ 1 .. 0 \in SUBSET (1 .. n) /\ 0 \in 0 .. n
      OBVIOUS
    <2> QED
      BY <1>5, <2>1
  <1>7. ASSUME NEW k \in 1 .. n PROVE st[k] = Onto(item, st[k - 1])
    <2>1. k - 1 \in Nat /\ k - 1 \in 0 .. n /\ k \in 0 .. n /\ (k - 1) + 1 = k /\ 1 .. k \in SUBSET (1 .. n)
      OBVIOUS
    <2>2. 1 .. k # {} /\ Max(1 .. k) = k /\ (1 .. k) \ {k} = 1 .. k - 1
      BY <2>1, MaxPrefix
    <2>3. c[1 .. k] = Onto(item, c[1 .. k - 1])
      BY <1>5, <2>1, <2>2
    <2> QED
      BY <2>1, <2>3
  <1>8. st[n] = c[1 .. n]
    OBVIOUS
  <1> HIDE DEF st
  <1> QED
    BY <1>3, <1>6, <1>7, <1>8 DEF Readings

\* Both ends repeat alike.
LEMMA RepeatHosts == \A n, item, p : Host!Repeat(n, item, p) = Device!Repeat(n, item, p)
  BY Zenon DEF Host!Repeat, Device!Repeat, Host!Then, Device!Then, Host!Read, Device!Read,
               Host!FoldLeft, Device!FoldLeft, Host!MapThenFoldSet, Device!MapThenFoldSet, Host!Max, Device!Max

\* No items are read where they would start.
LEMMA RepeatZero ==
    ASSUME NEW item, NEW p
    PROVE  Device!Repeat(0, item, p) = Device!Read(<<>>, p)
  <1>1. 0 \in Nat
    OBVIOUS
  <1>2. PICK st : Readings(item, p, 0, st) /\ Device!Repeat(0, item, p) = st[0]
    BY <1>1, RepeatReadings
  <1> QED
    BY <1>2, Zenon DEF Readings

\* One more item is read behind the others.
LEMMA RepeatNext ==
    ASSUME NEW item, NEW p, NEW n \in Nat
    PROVE  Device!Repeat(n + 1, item, p) = Onto(item, Device!Repeat(n, item, p))
  <1>1. n + 1 \in Nat /\ n + 1 \in 1 .. n + 1 /\ (n + 1) - 1 = n
    OBVIOUS
  <1>2. PICK f : Readings(item, p, n, f) /\ Device!Repeat(n, item, p) = f[n]
    BY RepeatReadings
  <1>3. PICK g : Readings(item, p, n + 1, g) /\ Device!Repeat(n + 1, item, p) = g[n + 1]
    BY <1>1, RepeatReadings
  <1>4. f[0] = g[0]
    BY <1>2, <1>3, Zenon DEF Readings
  <1>5. (\A k \in 1 .. n : f[k] = Onto(item, f[k - 1])) /\ (\A k \in 1 .. n + 1 : g[k] = Onto(item, g[k - 1]))
    BY <1>2, <1>3, Zenon DEF Readings
  <1> DEFINE T == {k \in Nat : k <= n => f[k] = g[k]}
  <1>6. 0 \in T
    BY <1>4
  <1>7. ASSUME NEW k \in T PROVE k + 1 \in T
    <2>0. k \in Nat /\ k + 1 \in Nat
      OBVIOUS
    <2> SUFFICES ASSUME k + 1 <= n PROVE f[k + 1] = g[k + 1]
      BY <2>0, Zenon
    <2>1. f[k] = g[k]
      BY <2>0
    <2> HIDE DEF T
    <2>2. k + 1 \in 1 .. n /\ k + 1 \in 1 .. n + 1 /\ (k + 1) - 1 = k
      BY <2>0
    <2>3. f[k + 1] = Onto(item, f[(k + 1) - 1]) /\ g[k + 1] = Onto(item, g[(k + 1) - 1])
      BY <1>5, <2>2, Zenon
    <2> QED
      BY <2>1, <2>2, <2>3, Zenon
  <1> HIDE DEF T
  <1>8. T = Nat
    BY <1>6, <1>7, Induction DEF T
  <1>9. f[n] = g[n]
    BY <1>8 DEF T
  <1>10. g[n + 1] = Onto(item, g[(n + 1) - 1])
    BY <1>1, <1>5, Zenon
  <1> QED
    BY <1>1, <1>2, <1>3, <1>9, <1>10, Zenon

\* Where the k-th of n items may start, and that both read it alike there.
Follows(d, h, n, Q) ==
    \A k \in 0 .. n - 1 : \A q \in Q[k] : d[q].ok => h[q] = d[q] /\ d[q].pos \in Q[k + 1]

\* Where each item that the device accepts is read alike by the host, all of them are.
LEMMA RepeatAlike ==
    ASSUME NEW d, NEW h, NEW n \in Nat, NEW Q, NEW p \in Q[0], Follows(d, h, n, Q),
           Device!Repeat(n, d, p).ok
    PROVE  Device!Repeat(n, h, p) = Device!Repeat(n, d, p) /\ Device!Repeat(n, d, p).pos \in Q[n]
  <1> DEFINE R(k) == Device!Repeat(k, d, p)
             T == {k \in Nat : k <= n /\ R(k).ok => Device!Repeat(k, h, p) = R(k) /\ R(k).pos \in Q[k]}
  <1>1. 0 \in T
    <2>1. R(0) = Device!Read(<<>>, p) /\ Device!Repeat(0, h, p) = Device!Read(<<>>, p)
      BY RepeatZero
    <2>2. Device!Read(<<>>, p).pos = p
      BY DEF Device!Read
    <2> QED
      BY <2>1, <2>2
  <1>2. ASSUME NEW k \in T PROVE k + 1 \in T
    <2>0. k \in Nat /\ k + 1 \in Nat
      OBVIOUS
    <2> SUFFICES ASSUME k + 1 <= n, R(k + 1).ok
                 PROVE  Device!Repeat(k + 1, h, p) = R(k + 1) /\ R(k + 1).pos \in Q[k + 1]
      BY <2>0, Zenon
    <2>1. R(k).ok => Device!Repeat(k, h, p) = R(k) /\ R(k).pos \in Q[k]
      BY <2>0
    <2>2. R(k + 1) = Onto(d, R(k)) /\ Device!Repeat(k + 1, h, p) = Onto(h, Device!Repeat(k, h, p))
      BY <2>0, RepeatNext
    <2> HIDE DEF T, R
    <2>3. R(k).ok
      BY <2>2 DEF Onto
    <2>4. k \in 0 .. n - 1
      BY <2>0
    <2>5. d[R(k).pos].ok => h[R(k).pos] = d[R(k).pos] /\ d[R(k).pos].pos \in Q[k + 1]
      BY <2>1, <2>3, <2>4, Zenon DEF Follows
    <2>6. d[R(k).pos].ok
      BY <2>2, <2>3, Zenon DEF Onto
    <2>7. R(k + 1) = Device!Read(Append(R(k).val, d[R(k).pos].val), d[R(k).pos].pos)
      BY <2>2, <2>3, <2>6, Zenon DEF Onto
    <2>8. Device!Repeat(k + 1, h, p) = R(k + 1)
      BY <2>1, <2>2, <2>3, <2>5, <2>6, Zenon DEF Onto
    <2>9. \A v, q : Device!Read(v, q).pos = q
      BY DEF Device!Read
    <2>10. R(k + 1).pos = d[R(k).pos].pos
      BY <2>7, <2>9
    <2> QED
      BY <2>5, <2>6, <2>8, <2>10
  <1> HIDE DEF T
  <1>3. T = Nat
    BY <1>1, <1>2, Induction DEF T
  <1> QED
    BY <1>3 DEF T

(***************************************************************************)
(* Both ends read one field the same way.                                  *)
(***************************************************************************)
LEMMA FieldsAlike ==
    /\ \A v, p : Host!Read(v, p) = Device!Read(v, p)
    /\ Host!Refuse = Device!Refuse
    /\ \A buf, p, n : Host!Take(buf, p, n) = Device!Take(buf, p, n)
    /\ \A buf, p : Host!ReadU8(buf, p) = Device!ReadU8(buf, p) /\ Host!ReadU16(buf, p) = Device!ReadU16(buf, p)
    /\ \A buf, p : Host!u16(buf, p) = Device!u16(buf, p)
    /\ \A buf : Host!Positions(buf) = Device!Positions(buf)
    /\ \A k, m : Host!KeyStep(k, m) = Device!KeyStep(k, m)
    /\ \A t : /\ Host!TextStep(t) = Device!TextStep(t) /\ Host!ConsumerStep(t) = Device!ConsumerStep(t)
              /\ Host!DelayStep(t) = Device!DelayStep(t) /\ Host!Decoded(t) = Device!Decoded(t)
  BY Zenon DEF Host!Read, Device!Read, Host!Refuse, Device!Refuse, Host!Take, Device!Take,
     Host!ReadU8, Device!ReadU8,
     Host!ReadU16, Device!ReadU16, Host!u16, Device!u16, Host!Positions, Device!Positions, Host!KeyStep, Device!KeyStep,
     Host!TextStep, Device!TextStep, Host!ConsumerStep, Device!ConsumerStep, Host!DelayStep, Device!DelayStep,
     Host!Decoded, Device!Decoded, Host!STEP_KEY, Device!STEP_KEY, Host!STEP_TEXT, Device!STEP_TEXT,
     Host!STEP_CONSUMER, Device!STEP_CONSUMER, Host!STEP_DELAY, Device!STEP_DELAY

\* The parts of a reading.
LEMMA ReadFields == \A v, p : Device!Read(v, p).ok = TRUE /\ Device!Read(v, p).val = v /\ Device!Read(v, p).pos = p
  BY DEF Device!Read

\* A refusal is no reading.
LEMMA Refused == ~Device!Refuse.ok
  BY DEF Device!Refuse

(***************************************************************************)
(* What one end reads, step by step, binding by binding.                   *)
(***************************************************************************)
\* Wherever the device reads something, the host reads the same, and both go on from a position
\* within the buffer.
Alike(buf, dev, host) == dev.ok => host = dev /\ dev.pos \in 0 .. Len(buf)

\* What is read ends inside of the buffer.
LEMMA TakeEnds ==
    ASSUME NEW buf, NEW p \in Nat, NEW n \in Nat, Len(buf) \in Nat
    PROVE  /\ Device!Take(buf, p, n).ok => Device!Take(buf, p, n).pos \in 0 .. Len(buf)
           /\ Device!ReadU8(buf, p).ok => Device!ReadU8(buf, p).pos \in 0 .. Len(buf)
           /\ Device!ReadU16(buf, p).ok => Device!ReadU16(buf, p).pos \in 0 .. Len(buf)
  BY DEF Device!Take, Device!ReadU8, Device!ReadU16, Device!Read, Device!Refuse

\* A step, by its type, at either end.
LEMMA DeviceStep ==
    ASSUME NEW buf, NEW p, NEW t, t = Device!ReadU8(buf, p)
    PROVE  LET k == Device!Take(buf, t.pos, 2)
               n == Device!ReadU8(buf, t.pos)
               s == Device!Take(buf, n.pos, n.val)
               v == Device!ReadU16(buf, t.pos)
               this == Device!decode_step(buf, p)
           IN  /\ ~t.ok => this = t
               /\ t.ok /\ t.val = 0 => this = IF k.ok THEN Device!Read(Device!KeyStep(k.val[1], k.val[2]), k.pos) ELSE k
               /\ t.ok /\ t.val = 1 /\ ~n.ok => this = n
               /\ t.ok /\ t.val = 1 /\ n.ok /\ ~s.ok => this = s
               /\ t.ok /\ t.val = 1 /\ n.ok /\ s.ok
                    => this = IF Device!Utf8(s.val) THEN Device!Read(Device!TextStep(s.val), s.pos) ELSE Device!Refuse
               /\ t.ok /\ t.val = 2 => this = IF v.ok THEN Device!Read(Device!ConsumerStep(v.val), v.pos) ELSE v
               /\ t.ok /\ t.val = 3 => this = IF v.ok THEN Device!Read(Device!DelayStep(v.val), v.pos) ELSE v
               /\ t.ok /\ t.val \notin {0, 1, 2, 3} => this = Device!Refuse
  BY SMTT(30) DEF Device!decode_step, Device!Then, Device!STEP_KEY, Device!STEP_TEXT,
     Device!STEP_CONSUMER, Device!STEP_DELAY

\* The cases of the host's decodeStep.
LEMMA HostStep ==
    ASSUME NEW buf, NEW p, NEW t, t = Device!ReadU8(buf, p)
    PROVE  LET k == Device!Take(buf, t.pos, 2)
               n == Device!ReadU8(buf, t.pos)
               s == Device!Take(buf, n.pos, n.val)
               v == Device!ReadU16(buf, t.pos)
               this == Host!decodeStep(buf, p)
           IN  /\ ~t.ok => this = t
               /\ t.ok /\ t.val = 0 => this = IF k.ok THEN Device!Read(Device!KeyStep(k.val[1], k.val[2]), k.pos) ELSE k
               /\ t.ok /\ t.val = 1 /\ ~n.ok => this = n
               /\ t.ok /\ t.val = 1 /\ n.ok => this = IF s.ok THEN Device!Read(Device!TextStep(s.val), s.pos) ELSE s
               /\ t.ok /\ t.val = 2 => this = IF v.ok THEN Device!Read(Device!ConsumerStep(v.val), v.pos) ELSE v
               /\ t.ok /\ t.val = 3 => this = IF v.ok THEN Device!Read(Device!DelayStep(v.val), v.pos) ELSE v
               /\ t.ok /\ t.val \notin {0, 1, 2, 3} => this = Device!Refuse
  BY FieldsAlike DEF Host!decodeStep, Host!Then, Host!STEP_KEY, Host!STEP_TEXT,
     Host!STEP_CONSUMER, Host!STEP_DELAY

\* A step that the device accepts the host reads alike.
LEMMA StepAlike ==
    ASSUME NEW buf \in Seq(Nat), NEW p \in 0 .. Len(buf)
    PROVE  Alike(buf, Device!decode_step(buf, p), Host!decodeStep(buf, p))
  <1> DEFINE D == Device!decode_step(buf, p)
             H == Host!decodeStep(buf, p)
  <1>1. PICK t : t = Device!ReadU8(buf, p)
    OBVIOUS
  <1> SUFFICES ASSUME D.ok PROVE H = D /\ D.pos \in 0 .. Len(buf)
    BY DEF Alike
  <1>2. t.ok
    BY <1>1, DeviceStep
  <1>3. t.pos \in Nat /\ t.val \in Nat
    BY <1>1, <1>2, ElementOfSeq DEF Device!ReadU8, Device!Read, Device!Refuse
  <1>4. PICK k, n, v : /\ k = Device!Take(buf, t.pos, 2) /\ n = Device!ReadU8(buf, t.pos) /\ v = Device!ReadU16(buf, t.pos)
    OBVIOUS
  <1>5. PICK s : s = Device!Take(buf, n.pos, n.val)
    OBVIOUS
  <1>6. (k.ok => k.pos \in 0 .. Len(buf)) /\ (v.ok => v.pos \in 0 .. Len(buf))
    BY <1>3, <1>4, TakeEnds
  <1>7. n.ok => n.pos \in Nat /\ n.val \in Nat
    BY <1>3, <1>4, ElementOfSeq, SMTT(30) DEF Device!ReadU8, Device!Read, Device!Refuse
  <1>8. n.ok /\ s.ok => s.pos \in 0 .. Len(buf)
    <2>1. ASSUME n.ok PROVE s.ok => s.pos \in 0 .. Len(buf)
      <3>1. n.pos \in Nat /\ n.val \in Nat /\ Len(buf) \in Nat
        BY <1>7, <2>1
      <3> QED
        BY <1>5, <3>1, TakeEnds
    <2> QED
      BY <2>1
  <1> HIDE DEF D, H
  <1>9. CASE t.val = 0
    <2>1. /\ D = IF k.ok THEN Device!Read(Device!KeyStep(k.val[1], k.val[2]), k.pos) ELSE k
          /\ H = D
      BY <1>1, <1>2, <1>4, <1>9, DeviceStep, HostStep DEF D, H
    <2> QED
      BY <1>6, <2>1, ReadFields
  <1>10. CASE t.val = 1
    <2>1. n.ok /\ s.ok /\ D = IF Device!Utf8(s.val) THEN Device!Read(Device!TextStep(s.val), s.pos) ELSE Device!Refuse
      BY <1>1, <1>2, <1>4, <1>5, <1>10, DeviceStep DEF D
    <2>2. H = Device!Read(Device!TextStep(s.val), s.pos)
      BY <1>1, <1>2, <1>4, <1>5, <1>10, <2>1, HostStep DEF H
    <2> QED
      BY <1>8, <2>1, <2>2, ReadFields, Refused
  <1>11. CASE t.val = 2
    <2>1. /\ D = IF v.ok THEN Device!Read(Device!ConsumerStep(v.val), v.pos) ELSE v
          /\ H = D
      BY <1>1, <1>2, <1>4, <1>11, DeviceStep, HostStep DEF D, H
    <2> QED
      BY <1>6, <2>1, ReadFields
  <1>12. CASE t.val = 3
    <2>1. /\ D = IF v.ok THEN Device!Read(Device!DelayStep(v.val), v.pos) ELSE v
          /\ H = D
      BY <1>1, <1>2, <1>4, <1>12, DeviceStep, HostStep DEF D, H
    <2> QED
      BY <1>6, <2>1, ReadFields
  <1>13. CASE t.val \notin {0, 1, 2, 3}
    <2>1. D = Device!Refuse
      BY <1>1, <1>2, <1>13, DeviceStep DEF D
    <2> QED
      BY <2>1, Refused
  <1> QED
    BY <1>9, <1>10, <1>11, <1>12, <1>13 DEF D, H

\* The device's readings of steps, wherever they start.
StepItems(buf) == [r \in 0 .. Len(buf) |-> Device!decode_step(buf, r)]
\* The host's.
HostStepItems(buf) == [r \in 0 .. Len(buf) |-> Host!decodeStep(buf, r)]

\* A binding, of the bytes in front of its steps and the steps.
TheBinding(b, steps) == [color |-> SubSeq(b, 1, 3), steps |-> steps]

\* decode_binding, by what its parts are read as.
LEMMA DeviceBinding ==
    ASSUME NEW buf, NEW p, NEW b, b = Device!Take(buf, p, 4),
           NEW s, s = Device!Repeat(b.val[4], StepItems(buf), b.pos)
    PROVE  /\ ~b.ok => Device!decode_binding(buf, p) = b
           /\ b.ok => Device!decode_binding(buf, p)
                        = IF b.val[4] > MAX_STEPS THEN Device!Refuse
                          ELSE IF s.ok THEN Device!Read(TheBinding(b.val, s.val), s.pos) ELSE s
  BY DEF Device!decode_binding, Device!Then, StepItems, Device!Positions, TheBinding

\* decodeBinding, by what its parts are read as.
LEMMA HostBinding ==
    ASSUME NEW buf, NEW p, NEW b, b = Device!Take(buf, p, 4),
           NEW s, s = Device!Repeat(b.val[4], HostStepItems(buf), b.pos)
    PROVE  /\ ~b.ok => Host!decodeBinding(buf, p) = b
           /\ b.ok => Host!decodeBinding(buf, p)
                        = IF b.val[4] > MAX_STEPS THEN Device!Refuse
                          ELSE IF s.ok THEN Device!Read(TheBinding(b.val, s.val), s.pos) ELSE s
  BY FieldsAlike, RepeatHosts DEF Host!decodeBinding, Host!Then, HostStepItems, Device!Positions,
     TheBinding

\* A reader of items that both ends read alike, repeated.
LEMMA ItemsAlike ==
    ASSUME NEW buf \in Seq(Nat), NEW n \in Nat, NEW d, NEW h, NEW p \in 0 .. Len(buf),
           \A q \in 0 .. Len(buf) : Alike(buf, d[q], h[q])
    PROVE  Alike(buf, Device!Repeat(n, d, p), Device!Repeat(n, h, p))
  <1> DEFINE Q == [k \in 0 .. n |-> 0 .. Len(buf)]
  <1>1. \A k \in 0 .. n - 1 : k \in 0 .. n /\ k + 1 \in 0 .. n
    OBVIOUS
  <1>2. \A k \in 0 .. n : Q[k] = 0 .. Len(buf)
    OBVIOUS
  <1>3. 0 \in 0 .. n /\ n \in 0 .. n
    OBVIOUS
  <1> HIDE DEF Q
  <1>4. Follows(d, h, n, Q)
    <2> SUFFICES ASSUME NEW k \in 0 .. n - 1, NEW q \in Q[k], d[q].ok
                 PROVE  h[q] = d[q] /\ d[q].pos \in Q[k + 1]
      BY DEF Follows
    <2>1. q \in 0 .. Len(buf) /\ Q[k + 1] = 0 .. Len(buf)
      BY <1>1, <1>2
    <2> QED
      BY <2>1 DEF Alike
  <1>5. p \in Q[0] /\ Q[n] = 0 .. Len(buf)
    BY <1>2, <1>3
  <1> QED
    <2>1. ASSUME Device!Repeat(n, d, p).ok
          PROVE  Device!Repeat(n, h, p) = Device!Repeat(n, d, p) /\ Device!Repeat(n, d, p).pos \in Q[n]
      BY <1>4, <1>5, <2>1, RepeatAlike
    <2> QED
      BY <1>5, <2>1, Zenon DEF Alike

\* Bytes that are taken are numbers, and end inside of the buffer.
LEMMA TakeVal ==
    ASSUME NEW buf \in Seq(Nat), NEW p \in Nat, NEW n \in Nat, Device!Take(buf, p, n).ok
    PROVE  /\ Device!Take(buf, p, n).pos \in 0 .. Len(buf)
           /\ \A i \in 1 .. n : Device!Take(buf, p, n).val[i] \in Nat
  <1>1. p + n <= Len(buf) /\ Device!Take(buf, p, n) = Device!Read(SubSeq(buf, p + 1, p + n), p + n)
    BY DEF Device!Take, Device!Refuse
  <1>2. \A j \in p + 1 .. p + n : buf[j] \in Nat
    BY <1>1, ElementOfSeq
  <1>3. \A i \in 1 .. (p + n) - (p + 1) + 1 : SubSeq(buf, p + 1, p + n)[i] = buf[(p + 1) + i - 1]
    BY <1>2, SubSeqProperties
  <1>4. \A i \in 1 .. n : SubSeq(buf, p + 1, p + n)[i] \in Nat
    BY <1>2, <1>3
  <1>5. p + n \in 0 .. Len(buf)
    BY <1>1
  <1>6. Device!Take(buf, p, n).pos = p + n /\ Device!Take(buf, p, n).val = SubSeq(buf, p + 1, p + n)
    <2>1. /\ Device!Read(SubSeq(buf, p + 1, p + n), p + n).pos = p + n
          /\ Device!Read(SubSeq(buf, p + 1, p + n), p + n).val = SubSeq(buf, p + 1, p + n)
      BY ReadFields, Zenon
    <2> QED
      BY <1>1, <2>1, Zenon
  <1> QED
    BY <1>4, <1>5, <1>6, Zenon

\* A byte that is read is a number, and ends inside of the buffer.
LEMMA U8Val ==
    ASSUME NEW buf \in Seq(Nat), NEW p \in Nat, Device!ReadU8(buf, p).ok
    PROVE  Device!ReadU8(buf, p).pos \in 0 .. Len(buf) /\ Device!ReadU8(buf, p).val \in Nat
  BY ElementOfSeq DEF Device!ReadU8, Device!Read, Device!Refuse

\* A binding that the device accepts the host reads alike.
LEMMA BindingAlike ==
    ASSUME NEW buf \in Seq(Nat), NEW p \in 0 .. Len(buf)
    PROVE  Alike(buf, Device!decode_binding(buf, p), Host!decodeBinding(buf, p))
  <1> DEFINE D == Device!decode_binding(buf, p)
             H == Host!decodeBinding(buf, p)
  <1> SUFFICES ASSUME D.ok PROVE H = D /\ D.pos \in 0 .. Len(buf)
    BY DEF Alike
  <1>1. PICK b : b = Device!Take(buf, p, 4)
    OBVIOUS
  <1>2. PICK s, g : s = Device!Repeat(b.val[4], StepItems(buf), b.pos) /\ g = Device!Repeat(b.val[4], HostStepItems(buf), b.pos)
    OBVIOUS
  <1>3. b.ok
    BY <1>1, <1>2, DeviceBinding
  <1>4. p \in Nat /\ 4 \in Nat /\ 4 \in 1 .. 4
    OBVIOUS
  <1>5. b.pos \in 0 .. Len(buf) /\ b.val[4] \in Nat
    BY <1>1, <1>3, <1>4, TakeVal
  <1>6. Alike(buf, s, g)
    <2>1. \A q \in 0 .. Len(buf) : Alike(buf, StepItems(buf)[q], HostStepItems(buf)[q])
      BY StepAlike DEF StepItems, HostStepItems
    <2> QED
      BY <1>2, <1>5, <2>1, ItemsAlike
  <1>7. D = IF b.val[4] > MAX_STEPS THEN Device!Refuse
            ELSE IF s.ok THEN Device!Read(TheBinding(b.val, s.val), s.pos) ELSE s
    BY <1>1, <1>2, <1>3, DeviceBinding
  <1>8. H = IF b.val[4] > MAX_STEPS THEN Device!Refuse
            ELSE IF g.ok THEN Device!Read(TheBinding(b.val, g.val), g.pos) ELSE g
    BY <1>1, <1>2, <1>3, HostBinding
  <1> HIDE DEF D, H
  <1>9. ~(b.val[4] > MAX_STEPS) /\ s.ok /\ D = Device!Read(TheBinding(b.val, s.val), s.pos)
    BY <1>7, Refused
  <1>10. g = s /\ s.pos \in 0 .. Len(buf)
    BY <1>6, <1>9 DEF Alike
  <1> QED
    BY <1>8, <1>9, <1>10, ReadFields

\* The device's readings of bindings, wherever they start.
BindingItems(buf) == [r \in 0 .. Len(buf) |-> Device!decode_binding(buf, r)]
\* The host's.
HostBindingItems(buf) == [r \in 0 .. Len(buf) |-> Host!decodeBinding(buf, r)]

\* A profile, of its name, its fixed bytes, its tap binding and its slots.
TheProfile(name, f, tap, slots) ==
    [name |-> name, dwell_ms |-> Device!u16(f, 0), tap_max_ms |-> Device!u16(f, 2), overflow |-> f[5],
     ext_count |-> f[6], brightness |-> f[7], idle_mode |-> f[8],
     idle_color |-> SubSeq(f, 9, 11), tap |-> tap, slots |-> slots]

\* What the device refuses before it reads bindings.
DeviceRefuses(name, f) ==
    \/ ~Device!Utf8(name)
    \/ f[5] > Device!OVERFLOW_CLAMP
    \/ f[8] > Device!IDLE_RAINBOW
    \/ f[12] \notin 1 .. MAX_SLOTS

\* A profile that the device accepts the host reads alike.
LEMMA ProfileAlike ==
    ASSUME NEW buf \in Seq(Nat), NEW p \in 0 .. Len(buf)
    PROVE  Alike(buf, Device!decode_profile(buf, p), Host!decodeProfile(buf, p))
  <1> DEFINE D == Device!decode_profile(buf, p)
             H == Host!decodeProfile(buf, p)
  <1> SUFFICES ASSUME D.ok PROVE H = D /\ D.pos \in 0 .. Len(buf)
    BY DEF Alike
  <1>1. PICK len : len = Device!ReadU8(buf, p)
    OBVIOUS
  <1>2. PICK name : name = Device!Take(buf, len.pos, len.val)
    OBVIOUS
  <1>3. PICK f : f = Device!Take(buf, name.pos, 12)
    OBVIOUS
  <1>4. PICK tap, tap2 : tap = Device!decode_binding(buf, f.pos) /\ tap2 = Host!decodeBinding(buf, f.pos)
    OBVIOUS
  <1>5. PICK slots : slots = Device!Repeat(f.val[12], BindingItems(buf), tap.pos)
    OBVIOUS
  <1>6. PICK slots2 : slots2 = Device!Repeat(f.val[12], HostBindingItems(buf), tap2.pos)
    OBVIOUS
  <1>7. D = IF ~len.ok THEN len
               ELSE IF len.val > MAX_NAME_LEN THEN Device!Refuse
               ELSE IF ~name.ok THEN name
               ELSE IF ~f.ok THEN f
               ELSE IF DeviceRefuses(name.val, f.val) THEN Device!Refuse
               ELSE IF ~tap.ok THEN tap
               ELSE IF ~slots.ok THEN slots
               ELSE Device!Read(TheProfile(name.val, f.val, tap.val, slots.val), slots.pos)
    BY <1>1, <1>2, <1>3, <1>4, <1>5, ZenonT(60) DEF Device!decode_profile, Device!Then, BindingItems,
       Device!Positions, TheProfile, DeviceRefuses
  <1>8. H = IF ~len.ok THEN len
               ELSE IF len.val > MAX_NAME_LEN THEN Device!Refuse
               ELSE IF ~name.ok THEN name
               ELSE IF ~f.ok THEN f
               ELSE IF f.val[12] \notin 1 .. MAX_SLOTS THEN Device!Refuse
               ELSE IF ~tap2.ok THEN tap2
               ELSE IF ~slots2.ok THEN slots2
               ELSE Device!Read(TheProfile(name.val, f.val, tap2.val, slots2.val), slots2.pos)
    BY <1>1, <1>2, <1>3, <1>4, <1>6, FieldsAlike, RepeatHosts, ZenonT(60) DEF Host!decodeProfile, Host!Then,
       HostBindingItems, Device!Positions, TheProfile
  <1> HIDE DEF D, H
  <1>9. /\ len.ok /\ name.ok /\ f.ok /\ tap.ok /\ slots.ok
        /\ ~(len.val > MAX_NAME_LEN) /\ ~DeviceRefuses(name.val, f.val)
        /\ D = Device!Read(TheProfile(name.val, f.val, tap.val, slots.val), slots.pos)
    BY <1>7, Refused
  <1>10. f.val[12] \in 1 .. MAX_SLOTS
    BY <1>9 DEF DeviceRefuses
  <1>11. len.pos \in Nat /\ len.val \in Nat
    BY <1>1, <1>9, U8Val
  <1>12. name.pos \in Nat /\ 12 \in Nat
    BY <1>2, <1>9, <1>11, TakeVal
  <1>13. f.pos \in 0 .. Len(buf)
    BY <1>3, <1>9, <1>12, TakeVal
  <1>14. tap2 = tap /\ tap.pos \in 0 .. Len(buf)
    BY <1>4, <1>9, <1>13, BindingAlike DEF Alike
  <1>15. Alike(buf, slots, slots2)
    <2>1. \A q \in 0 .. Len(buf) : Alike(buf, BindingItems(buf)[q], HostBindingItems(buf)[q])
      BY BindingAlike DEF BindingItems, HostBindingItems
    <2>2. f.val[12] \in Nat
      BY <1>10
    <2> QED
      BY <1>5, <1>6, <1>14, <2>1, <2>2, ItemsAlike
  <1>16. slots2 = slots /\ slots.pos \in 0 .. Len(buf)
    BY <1>9, <1>15 DEF Alike
  <1>17. H = D
    BY <1>8, <1>9, <1>10, <1>14, <1>16
  <1> QED
    BY <1>9, <1>16, <1>17, ReadFields

\* Both ends count in 16 bits.
LEMMA WordsAlike == Device!WORD \in Nat \ {0} /\ Device!WORD = 256 * 256 /\ Host!WORD = Device!WORD
  BY DEF Device!WORD, Host!WORD

\* A word is below the bound.
LEMMA WordRange == ASSUME NEW c \in Words PROVE c \in Nat /\ c < Device!WORD
  <1>1. PICK W \in Nat : W = Device!WORD
    BY WordsAlike
  <1>2. c \in 0 .. W - 1
    BY <1>1, Zenon DEF Words
  <1>3. c \in Nat /\ c < W
    BY <1>2
  <1> QED
    BY <1>1, <1>3, Zenon

\* Both flip a bit alike.
LEMMA FlipsAlike == \A v, bit : Host!Flip(v, bit) = Device!Flip(v, bit)
  BY Zenon DEF Host!Flip, Device!Flip

\* Both shift alike.
LEMMA ShiftsAlike == \A crc : Host!Shift(crc) = Device!Shift(crc)
  <1>1. SUFFICES ASSUME NEW crc PROVE Host!Shift(crc) = Device!Shift(crc)
    OBVIOUS
  <1>2. PICK s : s = (2 * crc) % Device!WORD
    OBVIOUS
  <1>3. Host!Shift(crc) = IF 2 * crc >= Device!WORD THEN Host!Flip(Host!Flip(Host!Flip(s, 1), 32), 16 * 256) ELSE s
    BY <1>2, WordsAlike, ZenonT(60) DEF Host!Shift
  <1>4. Device!Shift(crc) = IF 2 * crc >= Device!WORD THEN Device!Flip(Device!Flip(Device!Flip(s, 1), 32), 16 * 256) ELSE s
    BY <1>2, Zenon DEF Device!Shift
  <1> QED
    BY <1>3, <1>4, FlipsAlike

\* A flipped bit inside of a word leaves a word.
LEMMA FlipWord ==
    ASSUME NEW v \in Words, NEW bit \in Nat \ {0}, NEW m \in Nat, Device!WORD = bit * (2 * m)
    PROVE  Device!Flip(v, bit) \in Words
  <1>1. PICK q \in Nat, r \in 0 .. bit - 1 : q = v \div bit /\ v = bit * q + r
    BY DivMod, WordsAlike DEF Words
  <1>2. CASE q % 2 = 1
    <2>1. q >= 1
      BY <1>2
    <2>2. bit * q >= bit
      BY <2>1
    <2>3. v - bit \in 0 .. Device!WORD - 1
      BY <1>1, <2>2 DEF Words
    <2> QED
      BY <1>1, <1>2, <2>3 DEF Device!Flip, Words
  <1>3. CASE q % 2 # 1
    <2>1. PICK h \in Nat : q = 2 * h
      <3>1. q \div 2 \in Nat /\ q % 2 \in 0 .. 1 /\ q = 2 * (q \div 2) + (q % 2)
        BY DivMod
      <3> QED
        BY <1>3, <3>1
    <2>2. h < m
      <3>1. SUFFICES ASSUME h >= m PROVE FALSE
        OBVIOUS
      <3>2. bit * (2 * h) >= bit * (2 * m)
        BY <3>1
      <3>3. v >= Device!WORD
        BY <1>1, <2>1, <3>2
      <3> QED
        BY <3>3 DEF Words
    <2>3. bit * (2 * h + 2) <= bit * (2 * m)
      BY <2>2
    <2>4. bit * (2 * h + 2) = bit * (2 * h) + 2 * bit
      OBVIOUS
    <2>5. v + bit \in 0 .. Device!WORD - 1
      BY <1>1, <2>1, <2>3, <2>4 DEF Words
    <2>6. Device!Flip(v, bit) = v + bit
      BY <1>1, <1>3, Zenon DEF Device!Flip
    <2> QED
      BY <2>5, <2>6 DEF Words
  <1> QED
    BY <1>2, <1>3

\* A shifted word is a word.
LEMMA ShiftWord == ASSUME NEW crc \in Words PROVE Device!Shift(crc) \in Words
  <1>2. PICK s \in Words : s = (2 * crc) % Device!WORD
    <2>1. 2 * crc \in Nat
      <3>1. crc \in Nat
        BY WordRange, Zenon
      <3> QED
        BY <3>1
    <2>2. (2 * crc) % Device!WORD \in 0 .. Device!WORD - 1
      <3>1. PICK k \in Nat : k = 2 * crc
        BY <2>1
      <3>2. PICK w \in Nat \ {0} : w = Device!WORD
        BY WordsAlike
      <3>3. k % w \in 0 .. w - 1
        BY DivMod
      <3> QED
        BY <3>1, <3>2, <3>3, Zenon
    <2> QED
      BY <2>2 DEF Words
  <1>3. Device!Flip(s, 1) \in Words
    <2>1. 1 \in Nat \ {0} /\ 128 * 256 \in Nat /\ Device!WORD = 1 * (2 * (128 * 256))
      BY WordsAlike
    <2> QED
      BY <2>1, FlipWord
  <1>4. Device!Flip(Device!Flip(s, 1), 32) \in Words
    <2>1. 32 \in Nat \ {0} /\ 4 * 256 \in Nat /\ Device!WORD = 32 * (2 * (4 * 256))
      BY WordsAlike
    <2> QED
      BY <1>3, <2>1, FlipWord
  <1>5. Device!Flip(Device!Flip(Device!Flip(s, 1), 32), 16 * 256) \in Words
    <2>1. 16 * 256 \in Nat \ {0} /\ 8 \in Nat /\ Device!WORD = (16 * 256) * (2 * 8)
      BY WordsAlike
    <2> QED
      BY <1>4, <2>1, FlipWord
  <1>6. Device!Shift(crc) = IF 2 * crc >= Device!WORD THEN Device!Flip(Device!Flip(Device!Flip(s, 1), 32), 16 * 256) ELSE s
    BY <1>2, Zenon DEF Device!Shift
  <1> QED
    BY <1>5, <1>6

\* Both shift by a byte alike.
LEMMA EightShiftsAlike ==
    ASSUME NEW crc \in Words
    PROVE  Device!EightShifts[crc] \in Words /\ Host!EightShifts[crc] = Device!EightShifts[crc]
  <1>1. PICK a \in Words : a = Device!Shift(crc)
    BY ShiftWord
  <1>2. PICK b \in Words : b = Device!Shift(a)
    BY ShiftWord
  <1>3. PICK c \in Words : c = Device!Shift(b)
    BY ShiftWord
  <1>4. PICK d \in Words : d = Device!Shift(c)
    BY ShiftWord
  <1>5. PICK e \in Words : e = Device!Shift(d)
    BY ShiftWord
  <1>6. PICK f \in Words : f = Device!Shift(e)
    BY ShiftWord
  <1>7. PICK g \in Words : g = Device!Shift(f)
    BY ShiftWord
  <1>8. PICK h \in Words : h = Device!Shift(g)
    BY ShiftWord
  <1>9. Device!EightShifts[crc] = h
    BY <1>1, <1>2, <1>3, <1>4, <1>5, <1>6, <1>7, <1>8 DEF Device!EightShifts, Words
  <1>10. Host!EightShifts[crc] = h
    <2>1. /\ a = Host!Shift(crc) /\ b = Host!Shift(a) /\ c = Host!Shift(b) /\ d = Host!Shift(c)
          /\ e = Host!Shift(d) /\ f = Host!Shift(e) /\ g = Host!Shift(f) /\ h = Host!Shift(g)
      BY <1>1, <1>2, <1>3, <1>4, <1>5, <1>6, <1>7, <1>8, ShiftsAlike, Zenon
    <2> QED
      BY <2>1, WordsAlike DEF Host!EightShifts, Words
  <1> QED
    BY <1>9, <1>10

\* Both take the exclusive or alike.
LEMMA XorsAlike == \A a, b : Host!Xor(a, b) = Device!Xor(a, b)
  BY Zenon DEF Host!Xor, Device!Xor

\* An exclusive or of bytes is a byte.
LEMMA XorByte == \A a, b : Device!Xor(a, b) \in 0 .. 255
  <1> DEFINE bit(k, a, b) == IF (a \div k) % 2 = (b \div k) % 2 THEN 0 ELSE k
  <1>1. ASSUME NEW a, NEW b, NEW k PROVE bit(k, a, b) = 0 \/ bit(k, a, b) = k
    OBVIOUS
  <1>2. ASSUME NEW a, NEW b PROVE Device!Xor(a, b) \in 0 .. 255
    <2>1. Device!Xor(a, b) = bit(1, a, b) + bit(2, a, b) + bit(4, a, b) + bit(8, a, b) + bit(16, a, b) + bit(32, a, b) + bit(64, a, b) + bit(128, a, b)
      BY Zenon DEF Device!Xor
    <2> HIDE DEF bit
    <2>2. \E x \in Nat : x = bit(1, a, b) + bit(2, a, b) + bit(4, a, b) + bit(8, a, b) /\ x <= 15
      BY <1>1
    <2>3. \E x \in Nat : x = bit(16, a, b) + bit(32, a, b) + bit(64, a, b) + bit(128, a, b) /\ x <= 240
      BY <1>1
    <2> QED
      BY <1>1, <2>1
  <1> QED
    BY <1>2

\* What the checksum becomes with one byte more: the device's.
OneByte(crc, byte) == Device!EightShifts[256 * Device!Xor(crc \div 256, byte) + (crc % 256)]
\* The host's.
HostByte(crc, byte) == Host!EightShifts[256 * Host!Xor(crc \div 256, byte) + (crc % 256)]

\* The middle of a stretch.
Middle(a, b) == (a + b) \div 2

\* It lies in the stretch, before its end.
LEMMA MiddleBetween ==
    ASSUME NEW a \in Nat, NEW b \in Nat, a < b
    PROVE  Middle(a, b) \in a .. b - 1
  <1>1. PICK q \in Nat, r \in 0 .. 1 : q = (a + b) \div 2 /\ a + b = 2 * q + r
    BY DivMod
  <1> QED
    BY <1>1 DEF Middle

\* With one byte more the checksum is still a word, and the same on both ends.
LEMMA OneByteWord ==
    ASSUME NEW crc \in Words, NEW byte
    PROVE  OneByte(crc, byte) \in Words /\ HostByte(crc, byte) = OneByte(crc, byte)
  <1>1. PICK x \in 0 .. 255 : x = Device!Xor(crc \div 256, byte)
    BY XorByte
  <1>2. Host!Xor(crc \div 256, byte) = x
    BY <1>1, XorsAlike
  <1>3. PICK r \in 0 .. 255 : r = crc % 256
    <2>1. PICK n \in Nat : n = crc
      BY WordRange, Zenon
    <2>2. n % 256 \in 0 .. 256 - 1
      BY DivMod
    <2> QED
      BY <2>1, <2>2
  <1>4. PICK w \in Words : w = 256 * x + r
    <2>1. PICK w \in Nat : w = 256 * x + r
      OBVIOUS
    <2>2. w < 256 * 256
      BY <2>1
    <2>3. w \in Words
      <3>1. PICK W \in Nat : W = Device!WORD /\ W = 256 * 256
        BY WordsAlike
      <3>2. w < W
        BY <2>2, <3>1, Zenon
      <3>3. w \in 0 .. W - 1
        BY <3>2
      <3> QED
        BY <3>1, <3>3, Zenon DEF Words
    <2> QED
      BY <2>1, <2>3, Zenon
  <1>5. OneByte(crc, byte) = Device!EightShifts[w] /\ HostByte(crc, byte) = Host!EightShifts[w]
    BY <1>1, <1>2, <1>3, <1>4, ZenonT(60) DEF OneByte, HostByte
  <1> QED
    BY <1>5, EightShiftsAlike

\* Stretches of positions, with the checksum in front of them.
Parts(L) == (1 .. L) \X (1 .. L) \X Words

\* f is the checksum behind each stretch no longer than n + 1.
TakesIn(f, body, L, n) ==
    \A a \in 1 .. L, b \in 1 .. L, c \in Words :
        b - a <= n =>
            f[<<a, b, c>>] = IF a >= b THEN OneByte(c, body[a])
                             ELSE f[<<Middle(a, b) + 1, b, f[<<a, Middle(a, b), c>>]>>]

\* There is such a function, whatever the bytes.
LEMMA TakesInExists ==
    ASSUME NEW body, NEW L \in Nat
    PROVE  \E f \in [Parts(L) -> Words] : TakesIn(f, body, L, L)
  <1> DEFINE T == {n \in Nat : \E f \in [Parts(L) -> Words] : TakesIn(f, body, L, n)}
  <1>1. 0 \in T
    <2> DEFINE f == [p \in Parts(L) |-> OneByte(p[3], body[p[1]])]
    <2>1. f \in [Parts(L) -> Words]
      <3> SUFFICES ASSUME NEW p \in Parts(L) PROVE OneByte(p[3], body[p[1]]) \in Words
        OBVIOUS
      <3> QED
        BY OneByteWord DEF Parts
    <2>2. ASSUME NEW a \in 1 .. L, NEW b \in 1 .. L, NEW c \in Words, b - a <= 0
          PROVE  a >= b /\ f[<<a, b, c>>] = OneByte(c, body[a])
      BY <2>2 DEF Parts
    <2> HIDE DEF f
    <2> QED
      BY <2>1, <2>2 DEF TakesIn
  <1>2. ASSUME NEW n \in T PROVE n + 1 \in T
    <2>0. n \in Nat /\ n + 1 \in Nat
      OBVIOUS
    <2>1. PICK f \in [Parts(L) -> Words] : TakesIn(f, body, L, n)
      OBVIOUS
    <2> DEFINE over(a, b, c) == f[<<Middle(a, b) + 1, b, f[<<a, Middle(a, b), c>>]>>]
               h == [p \in Parts(L) |-> IF p[2] - p[1] = n + 1 THEN over(p[1], p[2], p[3]) ELSE f[p]]
    <2>2. ASSUME NEW a \in 1 .. L, NEW b \in 1 .. L, NEW c \in Words
          PROVE  h[<<a, b, c>>] = IF b - a = n + 1 THEN over(a, b, c) ELSE f[<<a, b, c>>]
      BY DEF Parts
    <2>3. ASSUME NEW a \in 1 .. L, NEW b \in 1 .. L, NEW c \in Words, a < b
          PROVE  /\ Middle(a, b) \in 1 .. L /\ Middle(a, b) + 1 \in 1 .. L
                 /\ Middle(a, b) - a < b - a /\ b - (Middle(a, b) + 1) < b - a
                 /\ f[<<a, Middle(a, b), c>>] \in Words /\ over(a, b, c) \in Words
      <3>1. Middle(a, b) \in a .. b - 1
        BY <2>3, MiddleBetween
      <3>2. /\ Middle(a, b) \in 1 .. L /\ Middle(a, b) + 1 \in 1 .. L
            /\ Middle(a, b) - a < b - a /\ b - (Middle(a, b) + 1) < b - a
        BY <3>1
      <3>3. f[<<a, Middle(a, b), c>>] \in Words
        BY <3>2 DEF Parts
      <3>4. over(a, b, c) \in Words
        BY <3>2, <3>3 DEF Parts
      <3> QED
        BY <3>2, <3>3, <3>4
    <2>4. h \in [Parts(L) -> Words]
      <3> SUFFICES ASSUME NEW p \in Parts(L) PROVE h[p] \in Words
        BY DEF h
      <3>1. PICK a \in 1 .. L, b \in 1 .. L, c \in Words : p = <<a, b, c>>
        BY DEF Parts
      <3>2. f[p] \in Words
        OBVIOUS
      <3>3. CASE b - a = n + 1
        <4>1. a < b
          BY <2>0, <3>3
        <4>2. h[<<a, b, c>>] = over(a, b, c)
          <5> HIDE DEF h, over
          <5> QED
            BY <2>2, <3>3
        <4>3. over(a, b, c) \in Words
          BY <2>3, <4>1, Zenon
        <4> QED
          BY <3>1, <4>2, <4>3, Zenon
      <3>4. CASE b - a # n + 1
        <4> HIDE DEF h, over
        <4> QED
          BY <2>2, <3>1, <3>2, <3>4
      <3> QED
        BY <3>3, <3>4
    <2> HIDE DEF h
    <2>5. ASSUME NEW a \in 1 .. L, NEW b \in 1 .. L, NEW c \in Words, b - a <= n + 1
          PROVE  h[<<a, b, c>>] = IF a >= b THEN OneByte(c, body[a])
                                  ELSE h[<<Middle(a, b) + 1, b, h[<<a, Middle(a, b), c>>]>>]
      <3>1. CASE a >= b
        <4>1. b - a <= n /\ b - a # n + 1
          BY <2>0, <3>1
        <4>2. f[<<a, b, c>>] = OneByte(c, body[a])
          BY <2>1, <3>1, <4>1, Zenon DEF TakesIn
        <4>3. h[<<a, b, c>>] = f[<<a, b, c>>]
          BY <2>2, <4>1, Zenon
        <4> QED
          BY <3>1, <4>2, <4>3, Zenon
      <3>2. CASE a < b
        <4>1. /\ Middle(a, b) \in 1 .. L /\ Middle(a, b) + 1 \in 1 .. L
              /\ Middle(a, b) - a # n + 1 /\ b - (Middle(a, b) + 1) # n + 1
              /\ f[<<a, Middle(a, b), c>>] \in Words
          <5>1. /\ Middle(a, b) \in 1 .. L /\ Middle(a, b) + 1 \in 1 .. L
                /\ Middle(a, b) - a < b - a /\ b - (Middle(a, b) + 1) < b - a
                /\ f[<<a, Middle(a, b), c>>] \in Words
            BY <2>3, <3>2
          <5>2. PICK m \in 1 .. L : m = Middle(a, b)
            BY <5>1
          <5>3. m - a # n + 1 /\ b - (m + 1) # n + 1
            BY <2>0, <2>5, <5>1, <5>2
          <5> QED
            BY <5>1, <5>2, <5>3, Zenon
        <4>2. h[<<a, Middle(a, b), c>>] = f[<<a, Middle(a, b), c>>]
          <5> HIDE DEF over
          <5> QED
            BY <2>2, <4>1
        <4>3. h[<<Middle(a, b) + 1, b, f[<<a, Middle(a, b), c>>]>>] = over(a, b, c)
          <5>1. PICK d \in Words : d = f[<<a, Middle(a, b), c>>]
            BY <4>1
          <5>2. h[<<Middle(a, b) + 1, b, d>>] = f[<<Middle(a, b) + 1, b, d>>]
            <6> HIDE DEF over
            <6> QED
              BY <2>2, <4>1
          <5> QED
            BY <5>1, <5>2
        <4>4. h[<<a, b, c>>] = over(a, b, c)
          <5>1. CASE b - a = n + 1
            BY <2>2, <5>1, Zenon
          <5>2. CASE b - a # n + 1
            <6>1. b - a <= n /\ ~(a >= b)
              BY <2>0, <2>5, <3>2, <5>2
            <6>2. f[<<a, b, c>>] = over(a, b, c)
              BY <2>1, <6>1 DEF TakesIn
            <6> QED
              BY <2>2, <5>2, <6>2, Zenon
          <5> QED
            BY <5>1, <5>2
        <4>5. ~(a >= b)
          BY <3>2
        <4> QED
          BY <4>2, <4>3, <4>4, <4>5, Zenon
      <3> QED
        BY <3>1, <3>2
    <2>6. TakesIn(h, body, L, n + 1)
      BY <2>5 DEF TakesIn
    <2> QED
      BY <2>0, <2>4, <2>6
  <1> HIDE DEF T
  <1>3. T = Nat
    BY <1>1, <1>2, Induction DEF T
  <1> QED
    BY <1>3 DEF T

\* Both give the same words.
SameParts(f, g, L) ==
    \A a \in 1 .. L, b \in 1 .. L, c \in Words : f[<<a, b, c>>] \in Words /\ g[<<a, b, c>>] = f[<<a, b, c>>]

\* There is only one.
LEMMA TakesInAlike ==
    ASSUME NEW body, NEW L \in Nat, NEW f, NEW g, TakesIn(f, body, L, L), TakesIn(g, body, L, L)
    PROVE  SameParts(f, g, L)
  <1> DEFINE Same(a, b, c) == f[<<a, b, c>>] \in Words /\ g[<<a, b, c>>] = f[<<a, b, c>>]
             T == {n \in Nat : \A a \in 1 .. L, b \in 1 .. L, c \in Words : b - a <= n => Same(a, b, c)}
  <1>0. ASSUME NEW a \in 1 .. L, NEW b \in 1 .. L, NEW c \in Words
        PROVE  /\ a >= b => Same(a, b, c)
               /\ ~(a >= b) => /\ f[<<a, b, c>>] = f[<<Middle(a, b) + 1, b, f[<<a, Middle(a, b), c>>]>>]
                               /\ g[<<a, b, c>>] = g[<<Middle(a, b) + 1, b, g[<<a, Middle(a, b), c>>]>>]
    <2>1. b - a <= L
      OBVIOUS
    <2>2. /\ f[<<a, b, c>>] = IF a >= b THEN OneByte(c, body[a])
                              ELSE f[<<Middle(a, b) + 1, b, f[<<a, Middle(a, b), c>>]>>]
          /\ g[<<a, b, c>>] = IF a >= b THEN OneByte(c, body[a])
                              ELSE g[<<Middle(a, b) + 1, b, g[<<a, Middle(a, b), c>>]>>]
      BY <2>1, Zenon DEF TakesIn
    <2>3. OneByte(c, body[a]) \in Words
      BY OneByteWord
    <2> QED
      BY <2>2, <2>3, Zenon
  <1> HIDE DEF Same
  <1>1. 0 \in T
    <2>1. \A a \in 1 .. L, b \in 1 .. L : b - a <= 0 => a >= b
      OBVIOUS
    <2> QED
      BY <1>0, <2>1
  <1>2. ASSUME NEW n \in T PROVE n + 1 \in T
    <2>0. n \in Nat /\ n + 1 \in Nat
      OBVIOUS
    <2>1. \A a \in 1 .. L, b \in 1 .. L, c \in Words : b - a <= n => Same(a, b, c)
      OBVIOUS
    <2>2. ASSUME NEW a \in 1 .. L, NEW b \in 1 .. L, NEW c \in Words, b - a <= n + 1, ~(a >= b)
          PROVE  Same(a, b, c)
      <3>1. PICK m \in a .. b - 1 : m = Middle(a, b)
        BY <2>2, MiddleBetween
      <3>2. m \in 1 .. L /\ m + 1 \in 1 .. L /\ m - a <= n /\ b - (m + 1) <= n
        BY <2>0, <2>2
      <3>3. Same(a, m, c)
        BY <2>1, <3>2
      <3>4. PICK d \in Words : d = f[<<a, m, c>>] /\ d = g[<<a, m, c>>]
        BY <3>3 DEF Same
      <3>5. Same(m + 1, b, d)
        BY <2>1, <3>2
      <3>6. f[<<a, b, c>>] = f[<<m + 1, b, d>>] /\ g[<<a, b, c>>] = g[<<m + 1, b, d>>]
        <4>1. /\ f[<<a, b, c>>] = f[<<Middle(a, b) + 1, b, f[<<a, Middle(a, b), c>>]>>]
              /\ g[<<a, b, c>>] = g[<<Middle(a, b) + 1, b, g[<<a, Middle(a, b), c>>]>>]
          BY <1>0, <2>2
        <4> QED
          BY <3>1, <3>4, <4>1
      <3> QED
        BY <3>5, <3>6, Zenon DEF Same
    <2> QED
      BY <1>0, <2>0, <2>2, Zenon
  <1> HIDE DEF T
  <1>3. L \in T
    BY <1>1, <1>2, Induction DEF T
  <1>4. \A a \in 1 .. L, b \in 1 .. L : b - a <= L
    OBVIOUS
  <1> QED
    BY <1>3, <1>4, Zenon DEF T, Same, SameParts

\* The recursive function inside of crc16: the device's.
HalfByHalf(f, body, L) ==
    f = [part \in Parts(L) |->
           IF part[1] >= part[2] THEN OneByte(part[3], body[part[1]])
           ELSE f[<<Middle(part[1], part[2]) + 1, part[2], f[<<part[1], Middle(part[1], part[2]), part[3]>>]>>]]

\* The host's.
HostHalfByHalf(f, body, L) ==
    f = [part \in Parts(L) |->
           IF part[1] >= part[2] THEN HostByte(part[3], body[part[1]])
           ELSE f[<<Middle(part[1], part[2]) + 1, part[2], f[<<part[1], Middle(part[1], part[2]), part[3]>>]>>]]

\* The recursions have a solution.
LEMMA HalfByHalfExists ==
    ASSUME NEW body, NEW L \in Nat
    PROVE  (\E f : HalfByHalf(f, body, L)) /\ (\E f : HostHalfByHalf(f, body, L))
  <1>1. PICK f \in [Parts(L) -> Words] : TakesIn(f, body, L, L)
    BY TakesInExists
  <1>2. ASSUME NEW part \in Parts(L)
        PROVE  /\ f[part] = IF part[1] >= part[2] THEN OneByte(part[3], body[part[1]])
                  ELSE f[<<Middle(part[1], part[2]) + 1, part[2], f[<<part[1], Middle(part[1], part[2]), part[3]>>]>>]
               /\ HostByte(part[3], body[part[1]]) = OneByte(part[3], body[part[1]])
    <2>1. PICK a \in 1 .. L, b \in 1 .. L, c \in Words : part = <<a, b, c>>
      BY DEF Parts
    <2>2. part[1] = a /\ part[2] = b /\ part[3] = c
      BY <2>1
    <2>3. b - a <= L
      OBVIOUS
    <2>4. f[<<a, b, c>>] = IF a >= b THEN OneByte(c, body[a])
                           ELSE f[<<Middle(a, b) + 1, b, f[<<a, Middle(a, b), c>>]>>]
      BY <1>1, <2>3, Zenon DEF TakesIn
    <2>5. HostByte(c, body[a]) = OneByte(c, body[a])
      BY OneByteWord
    <2> QED
      BY <2>1, <2>2, <2>4, <2>5, Zenon
  <1>3. f = [part \in Parts(L) |-> f[part]]
    OBVIOUS
  <1>4. HalfByHalf(f, body, L)
    BY <1>2, <1>3 DEF HalfByHalf
  <1>5. HostHalfByHalf(f, body, L)
    BY <1>2, <1>3 DEF HostHalfByHalf
  <1> QED
    BY <1>4, <1>5

\* Each solution is the checksum behind each stretch.
LEMMA HalfByHalfTakesIn ==
    ASSUME NEW body, NEW L \in Nat, NEW f, HalfByHalf(f, body, L) \/ HostHalfByHalf(f, body, L)
    PROVE  TakesIn(f, body, L, L)
  <1> SUFFICES ASSUME NEW a \in 1 .. L, NEW b \in 1 .. L, NEW c \in Words
               PROVE  f[<<a, b, c>>] = IF a >= b THEN OneByte(c, body[a])
                                       ELSE f[<<Middle(a, b) + 1, b, f[<<a, Middle(a, b), c>>]>>]
    BY DEF TakesIn
  <1>1. PICK part \in Parts(L) : part = <<a, b, c>> /\ part[1] = a /\ part[2] = b /\ part[3] = c
    <2>1. <<a, b, c>> \in Parts(L)
      BY DEF Parts
    <2>2. <<a, b, c>>[1] = a /\ <<a, b, c>>[2] = b /\ <<a, b, c>>[3] = c
      OBVIOUS
    <2> QED
      BY <2>1, <2>2, Zenon
  <1>2. HostByte(c, body[a]) = OneByte(c, body[a])
    BY OneByteWord
  <1>3. CASE HalfByHalf(f, body, L)
    <2>1. f[part] = IF part[1] >= part[2] THEN OneByte(part[3], body[part[1]])
                    ELSE f[<<Middle(part[1], part[2]) + 1, part[2], f[<<part[1], Middle(part[1], part[2]), part[3]>>]>>]
      BY <1>3, Zenon DEF HalfByHalf
    <2> QED
      BY <1>1, <2>1, Zenon
  <1>4. CASE HostHalfByHalf(f, body, L)
    <2>1. f[part] = IF part[1] >= part[2] THEN HostByte(part[3], body[part[1]])
                    ELSE f[<<Middle(part[1], part[2]) + 1, part[2], f[<<part[1], Middle(part[1], part[2]), part[3]>>]>>]
      BY <1>4, Zenon DEF HostHalfByHalf
    <2> QED
      BY <1>1, <1>2, <2>1, Zenon
  <1> QED
    BY <1>3, <1>4

\* crc16 is what the recursion gives for the whole.
LEMMA DeviceHalfByHalf ==
    ASSUME NEW body, NEW L \in Nat \ {0}, L = Len(body)
    PROVE  \E d : HalfByHalf(d, body, L) /\ Device!crc16(body) = d[<<1, L, Device!WORD - 1>>]
  <1> DEFINE H(f) == f = [part \in Parts(L) |->
         IF part[1] >= part[2] THEN OneByte(part[3], body[part[1]])
         ELSE f[<<Middle(part[1], part[2]) + 1, part[2], f[<<part[1], Middle(part[1], part[2]), part[3]>>]>>]]
  <1>1. Device!crc16(body) = (CHOOSE f : H(f))[<<1, L, Device!WORD - 1>>]
    BY Zenon DEF Device!crc16, OneByte, Middle, Parts, Words
  <1>2. \E f : H(f)
    <2>1. PICK f : HalfByHalf(f, body, L)
      BY HalfByHalfExists
    <2>2. H(f)
      BY <2>1, Zenon DEF HalfByHalf
    <2> HIDE DEF H
    <2> QED
      BY <2>2
  <1>3. H(CHOOSE f : H(f))
    <2> HIDE DEF H
    <2> QED
      BY <1>2, Zenon
  <1>4. HalfByHalf((CHOOSE f : H(f)), body, L)
    BY <1>3, Zenon DEF HalfByHalf
  <1> HIDE DEF H
  <1> QED
    BY <1>1, <1>4, Zenon

\* Both ends compute one checksum.
LEMMA ChecksumsAlike ==
    ASSUME NEW body, Len(body) \in Nat \ {0}
    PROVE  Device!crc16(body) \in Words /\ Host!crc16(body) = Device!crc16(body)
  <1>0. PICK L \in Nat \ {0} : L = Len(body)
    OBVIOUS
  <1>1. PICK d : HalfByHalf(d, body, L) /\ Device!crc16(body) = d[<<1, L, Device!WORD - 1>>]
    BY <1>0, DeviceHalfByHalf
  <1>2. PICK h : HostHalfByHalf(h, body, L) /\ Host!crc16(body) = h[<<1, L, Device!WORD - 1>>]
    <2> DEFINE H(f) == f = [part \in Parts(L) |->
           IF part[1] >= part[2] THEN HostByte(part[3], body[part[1]])
           ELSE f[<<Middle(part[1], part[2]) + 1, part[2], f[<<part[1], Middle(part[1], part[2]), part[3]>>]>>]]
    <2>1. Host!crc16(body) = (CHOOSE f : H(f))[<<1, L, Device!WORD - 1>>]
      BY <1>0, WordsAlike, ZenonT(60) DEF Host!crc16, HostByte, Middle, Parts, Words
    <2>2. \E f : H(f)
      <3>1. PICK f : HostHalfByHalf(f, body, L)
        BY HalfByHalfExists
      <3>2. H(f)
        BY <3>1, Zenon DEF HostHalfByHalf
      <3> HIDE DEF H
      <3> QED
        BY <3>2
    <2>3. H(CHOOSE f : H(f))
      <3> HIDE DEF H
      <3> QED
        BY <2>2, Zenon
    <2>4. HostHalfByHalf((CHOOSE f : H(f)), body, L)
      BY <2>3, Zenon DEF HostHalfByHalf
    <2> HIDE DEF H
    <2> QED
      BY <2>1, <2>4, Zenon
  <1>3. TakesIn(d, body, L, L) /\ TakesIn(h, body, L, L)
    BY <1>1, <1>2, HalfByHalfTakesIn
  <1>4. 1 \in 1 .. L /\ L \in 1 .. L /\ Device!WORD - 1 \in Words
    BY WordsAlike DEF Words
  <1>5. d[<<1, L, Device!WORD - 1>>] \in Words /\ h[<<1, L, Device!WORD - 1>>] = d[<<1, L, Device!WORD - 1>>]
    <2>1. SameParts(d, h, L)
      BY <1>3, TakesInAlike
    <2>2. PICK one \in 1 .. L, all \in 1 .. L, w \in Words : one = 1 /\ all = L /\ w = Device!WORD - 1
      BY <1>4, Zenon
    <2>3. d[<<one, all, w>>] \in Words /\ h[<<one, all, w>>] = d[<<one, all, w>>]
      BY ONLY <2>1, one \in 1 .. L, all \in 1 .. L, w \in Words, Zenon DEF SameParts
    <2> QED
      BY <2>2, <2>3, Zenon
  <1> QED
    BY <1>1, <1>2, <1>5, Zenon

\* A record, read where the offset table at r says, if that is inside of the body.
Entry(body, n, r, profile) ==
    IF Device!u16(body, r) < 10 + 2 * n \/ Device!u16(body, r) >= Len(body) THEN Device!Refuse
    ELSE IF profile.ok THEN Device!Read(profile.val, r + 2) ELSE profile

\* The device's readings of records, wherever their offset stands.
Entries(body, n) ==
    [r \in 0 .. Len(body) |-> Entry(body, n, r, Device!decode_profile(body, Device!u16(body, r)))]
\* The host's.
HostEntries(body, n) ==
    [r \in 0 .. Len(body) |-> Entry(body, n, r, Host!decodeProfile(body, Device!u16(body, r)))]

\* Both ends read the records by repeating an entry.
LEMMA ProfilesAreRepeated ==
    ASSUME NEW body, NEW n
    PROVE  /\ Device!decode_profiles(body, n) = Device!Repeat(n, Entries(body, n), 10)
           /\ Host!decodeProfiles(body, n) = Device!Repeat(n, HostEntries(body, n), 10)
  <1>1. Device!decode_profiles(body, n) = Device!Repeat(n, Entries(body, n), 10)
    BY Zenon DEF Device!decode_profiles, Entries, Entry, Device!Positions, Device!Then,
       Device!HEADER_BASE
  <1>2. Host!decodeProfiles(body, n) = Host!Repeat(n, HostEntries(body, n), 10)
    <2>1. Host!decodeProfiles(body, n) = Host!Repeat(n, [r \in Host!Positions(body) |->
            IF Host!u16(body, r) < 10 + 2 * n \/ Host!u16(body, r) >= Len(body) THEN Host!Refuse
            ELSE IF Host!decodeProfile(body, Host!u16(body, r)).ok
                 THEN Host!Read(Host!decodeProfile(body, Host!u16(body, r)).val, r + 2)
                 ELSE Host!decodeProfile(body, Host!u16(body, r))], 10)
      BY Zenon DEF Host!decodeProfiles, Host!Then, Host!HEADER_BASE
    <2>2. [r \in Host!Positions(body) |->
            IF Host!u16(body, r) < 10 + 2 * n \/ Host!u16(body, r) >= Len(body) THEN Host!Refuse
            ELSE IF Host!decodeProfile(body, Host!u16(body, r)).ok
                 THEN Host!Read(Host!decodeProfile(body, Host!u16(body, r)).val, r + 2)
                 ELSE Host!decodeProfile(body, Host!u16(body, r))] = HostEntries(body, n)
      BY FieldsAlike DEF HostEntries, Entry, Device!Positions
    <2> QED
      BY <2>1, <2>2, Zenon
  <1> QED
    BY <1>1, <1>2, RepeatHosts, Zenon

\* Records that the device accepts the host reads alike.
LEMMA ProfilesAlike ==
    ASSUME NEW body \in Seq(Nat), NEW n \in Nat, 10 + 2 * n <= Len(body), Device!decode_profiles(body, n).ok
    PROVE  Host!decodeProfiles(body, n) = Device!decode_profiles(body, n)
  <1> DEFINE d == Entries(body, n)
             h == HostEntries(body, n)
             Q == [k \in 0 .. n |-> {10 + 2 * k}]
  <1>1. Device!decode_profiles(body, n) = Device!Repeat(n, d, 10) /\ Host!decodeProfiles(body, n) = Device!Repeat(n, h, 10)
    BY ProfilesAreRepeated
  <1>2. \A k \in 0 .. n - 1 : /\ Q[k] = {10 + 2 * k} /\ Q[k + 1] = {10 + 2 * k + 2}
                              /\ 10 + 2 * k \in 0 .. Len(body) /\ 10 + 2 * k + 2 <= Len(body)
    OBVIOUS
  <1>3. 10 \in Q[0]
    OBVIOUS
  <1> HIDE DEF Q
  <1>4. \A r \in 0 .. Len(body) : /\ d[r] = Entry(body, n, r, Device!decode_profile(body, Device!u16(body, r)))
                                  /\ h[r] = Entry(body, n, r, Host!decodeProfile(body, Device!u16(body, r)))
    BY DEF Entries, HostEntries
  <1> HIDE DEF d, h
  <1>5. Follows(d, h, n, Q)
    <2> SUFFICES ASSUME NEW k \in 0 .. n - 1, NEW q \in Q[k], d[q].ok
                 PROVE  h[q] = d[q] /\ d[q].pos \in Q[k + 1]
      BY DEF Follows
    <2>1. q = 10 + 2 * k /\ q \in 0 .. Len(body) /\ q + 2 <= Len(body) /\ Q[k + 1] = {q + 2}
      BY <1>2
    <2>2. PICK off \in Nat : off = Device!u16(body, q)
      <3>1. body[q + 1] \in Nat /\ body[q + 2] \in Nat
        BY <2>1, ElementOfSeq
      <3> QED
        BY <3>1 DEF Device!u16
    <2>3. PICK x, y : x = Device!decode_profile(body, off) /\ y = Host!decodeProfile(body, off)
      OBVIOUS
    <2>4. d[q] = Entry(body, n, q, x) /\ h[q] = Entry(body, n, q, y)
      BY <1>4, <2>1, <2>2, <2>3
    <2>5. ~(off < 10 + 2 * n \/ off >= Len(body)) /\ x.ok /\ d[q] = Device!Read(x.val, q + 2)
      BY <2>2, <2>4, Refused, Zenon DEF Entry
    <2>6. off \in 0 .. Len(body)
      BY <2>5
    <2>7. y = x
      BY <2>3, <2>5, <2>6, ProfileAlike DEF Alike
    <2> QED
      BY <2>1, <2>4, <2>5, <2>7, ReadFields
  <1> QED
    BY <1>1, <1>3, <1>5, RepeatAlike

\* What the two ends check of a buffer: the trimmed blob, its body and the sum behind it.
Trimmed(data, total, trim, body) ==
    /\ trim = Host!Trim(data) /\ Len(trim) = total /\ \A i \in 1 .. total : trim[i] = data[i]
    /\ body = Device!Body(data) /\ body = SubSeq(data, 1, total - 2) /\ Len(body) = total - 2
    /\ SubSeq(trim, 1, Len(trim) - 2) = body
    /\ Host!crc16(body) = Device!crc16(body)
    /\ Host!u16(trim, Len(body)) = Device!u16(data, total - 2)

\* What the host trims a blob to is what the device checks.
LEMMA TrimmedAlike ==
    ASSUME NEW data \in Seq(Nat), NEW total \in Nat, total = Device!Total(data), total \in 12 .. Len(data)
    PROVE  \E trim \in Seq(Nat), body \in Seq(Nat) : Trimmed(data, total, trim, body)
  <1>2. PICK L \in Nat : L = Len(data)
    OBVIOUS
  <1>4. total \in 12 .. L
    BY <1>2
  <1>5. PICK body \in Seq(Nat) : body = Device!Body(data) /\ body = SubSeq(data, 1, total - 2) /\ Len(body) = total - 2 /\ Len(body) \in Nat
    <2>1. total - 2 \in Nat /\ total - 2 <= Len(data)
      BY <1>2, <1>4
    <2>2. Device!Body(data) = SubSeq(data, 1, total - 2)
      BY DEF Device!Body, Device!CRC_TRAILER
    <2> QED
      BY <2>1, <2>2, PrefixType
  <1>11. PICK trim \in Seq(Nat) : /\ trim = Host!Trim(data) /\ Len(trim) = total
                                  /\ \A i \in 1 .. total : trim[i] = data[i]
    <2>1. Host!Trim(data) = SubSeq(data, 1, total)
      BY FieldsAlike DEF Host!Trim, Device!Total
    <2>2. total \in Nat /\ total <= Len(data)
      BY <1>2, <1>4
    <2>3. /\ SubSeq(data, 1, total) \in Seq(Nat) /\ Len(SubSeq(data, 1, total)) = total
          /\ \A i \in 1 .. total : SubSeq(data, 1, total)[i] = data[i]
      BY <2>2, PrefixType
    <2> QED
      BY <2>1, <2>3, Zenon
  <1>12. SubSeq(trim, 1, Len(trim) - 2) = body
    <2>1. PICK m \in Nat : m = total - 2 /\ m <= Len(trim) /\ m <= Len(data) /\ m <= total
      <3>1. Len(trim) = total
        BY <1>11, Zenon
      <3>2. total - 2 \in Nat /\ total - 2 <= total /\ total - 2 <= L
        BY <1>4, SMTT(30)
      <3> QED
        BY <1>2, <3>1, <3>2, Zenon
    <2>2. PICK s \in Seq(Nat) : s = SubSeq(trim, 1, m) /\ Len(s) = m /\ \A i \in 1 .. m : s[i] = trim[i]
      <3>1. /\ SubSeq(trim, 1, m) \in Seq(Nat) /\ Len(SubSeq(trim, 1, m)) = m
            /\ \A i \in 1 .. m : SubSeq(trim, 1, m)[i] = trim[i]
        BY <2>1, PrefixType
      <3> QED
        BY <3>1, Zenon
    <2>3. Len(body) = m /\ \A i \in 1 .. m : body[i] = data[i]
      BY <1>5, <2>1, PrefixType
    <2>4. \A i \in 1 .. m : i \in 1 .. total
      BY <2>1
    <2>5. \A i \in 1 .. Len(s) : s[i] = body[i]
      BY <1>11, <2>2, <2>3, <2>4
    <2>6. s = body
      BY <2>2, <2>3, <2>5, SeqEqual
    <2> QED
      BY <1>11, <2>1, <2>2, <2>6
  <1>13. Host!u16(trim, Len(body)) = Device!u16(data, total - 2)
    <2>1. Host!u16(trim, Len(body)) = trim[Len(body) + 1] + 256 * trim[Len(body) + 2]
      BY DEF Host!u16
    <2>2. PICK m \in Nat : m = Len(body) /\ m + 2 = total /\ total - 2 = m
      BY <1>4, <1>5
    <2>3. m + 1 \in 1 .. total /\ m + 2 \in 1 .. total
      BY <2>2, SMTT(30)
    <2>4. Device!u16(data, m) = data[m + 1] + 256 * data[m + 2]
      BY DEF Device!u16
    <2> QED
      BY <1>11, <2>1, <2>2, <2>3, <2>4, ZenonT(60)
  <1>14. Host!crc16(body) = Device!crc16(body)
    <2>1. Len(body) \in Nat \ {0}
      BY <1>4, <1>5
    <2> QED
      BY <2>1, ChecksumsAlike
  <1> QED
    BY <1>5, <1>11, <1>12, <1>13, <1>14, Zenon DEF Trimmed

\* Whatever bytes the device takes, the host decodes to the same configuration (codec.go
\* Decode, blob.py decode).
THEOREM HostReadsAlikeDevice ==
    ASSUME NEW data \in Seq(Nat), Device!decode(data).ok
    PROVE  Host!Decode(data) = Device!decode(data)
  <1>2. PICK L \in Nat : L = Len(data)
    OBVIOUS
  <1>3. Device!Whole(data)
    BY DEF Device!decode, Device!Refuse
  <1>1. PICK total \in Nat : total = Device!Total(data) /\ total \in 12 .. L
    BY <1>2, <1>3 DEF Device!Whole, Device!HEADER_BASE, Device!CRC_TRAILER
  <1>4. /\ L >= 12 /\ SubSeq(data, 1, 4) = Device!MAGIC /\ data[5] = 1
        /\ total \in 12 .. L
        /\ Device!crc16(Device!Body(data)) = Device!u16(data, total - 2)
    BY <1>1, <1>2, <1>3 DEF Device!Whole, Device!HEADER_BASE, Device!CRC_TRAILER, Device!FORMAT_VERSION
  <1>5. PICK trim \in Seq(Nat), body \in Seq(Nat) : Trimmed(data, total, trim, body)
    <2>1. total = Device!Total(data) /\ total \in 12 .. Len(data)
      BY <1>1, <1>2
    <2> QED
      BY <2>1, TrimmedAlike
  <1>6. PICK n \in Nat : n = data[8]
    BY <1>2, <1>4, ElementOfSeq, SMTT(30)
  <1>7. /\ n \in 1 .. MAX_PROFILES /\ ~(Len(body) < 10 + 2 * n) /\ ~(data[7] >= n)
        /\ Device!decode(data) = Device!Then(Device!decode_profiles(body, n), LAMBDA profiles, e :
             Device!Decoded([format_version |-> data[5], active |-> data[7], profiles |-> profiles]))
    <2>1. body = Device!Body(data)
      BY <1>5, Zenon DEF Trimmed
    <2> QED
      BY <1>3, <1>6, <2>1 DEF Device!decode, Device!Refuse, Device!HEADER_BASE
  <1>8. PICK ps : ps = Device!decode_profiles(body, n)
    OBVIOUS
  <1>9. ps.ok
    BY <1>7, <1>8 DEF Device!Then
  <1>10. Host!decodeProfiles(body, n) = ps
    <2>1. 10 + 2 * n <= Len(body)
      <3>1. PICK m \in Nat : m = Len(body)
        BY <1>5
      <3>2. ~(m < 10 + 2 * n)
        BY <1>7, <3>1, Zenon
      <3>3. 10 + 2 * n <= m
        BY <3>2
      <3> QED
        BY <3>1, <3>3, Zenon
    <2> QED
      BY <1>8, <1>9, <2>1, ProfilesAlike, Zenon
  <1>11. /\ trim = Host!Trim(data) /\ Len(trim) = total
         /\ \A i \in 1 .. total : trim[i] = data[i]
    BY <1>5, Zenon DEF Trimmed
  <1>12. SubSeq(trim, 1, Len(trim) - 2) = body
    BY <1>5, Zenon DEF Trimmed
  <1>13. Host!crc16(body) = Host!u16(trim, Len(body))
    BY <1>4, <1>5, Zenon DEF Trimmed
  <1>14. trim[8] = n /\ trim[7] = data[7]
    <2>1. 8 \in 1 .. total /\ 7 \in 1 .. total
      BY <1>4
    <2>2. trim[8] = data[8] /\ trim[7] = data[7]
      BY <1>11, <2>1, Zenon
    <2> QED
      BY <1>6, <2>2
  <1>15. Host!MAGIC = Device!MAGIC /\ Host!u16(data, 8) = total
    BY <1>1, FieldsAlike DEF Host!MAGIC, Device!MAGIC, Device!Total
  <1>16. trim[5] = data[5]
    <2>1. 5 \in 1 .. total
      BY <1>4
    <2> QED
      BY <1>11, <2>1, Zenon
  <1>17. Host!Decode(data) = Host!Then(Host!decodeProfiles(body, n), LAMBDA profiles, e :
             Host!Decoded([format_version |-> data[5], active |-> data[7], profiles |-> profiles]))
    <2>1. SubSeq(trim, 1, Len(trim) - Host!CRC_TRAILER) = body
      BY <1>12 DEF Host!CRC_TRAILER
    <2> DEFINE bad == \/ Len(data) < Host!HEADER_BASE + Host!CRC_TRAILER
                      \/ SubSeq(data, 1, 4) # Host!MAGIC
                      \/ data[5] # Host!FORMAT_VERSION
                      \/ Host!u16(data, 8) \notin Host!HEADER_BASE + Host!CRC_TRAILER .. Len(data)
                      \/ Host!crc16(body) # Host!u16(trim, Len(body))
                      \/ trim[8] \notin 1 .. MAX_PROFILES
                      \/ Len(body) < Host!HEADER_BASE + 2 * trim[8]
                      \/ trim[7] >= trim[8]
    <2>2. ~bad
      <3>1. Host!HEADER_BASE = 10 /\ Host!CRC_TRAILER = 2 /\ Host!FORMAT_VERSION = 1 /\ 10 + 2 = 12
        BY DEF Host!HEADER_BASE, Host!CRC_TRAILER, Host!FORMAT_VERSION
      <3>2. ~(L < 12)
        BY <1>4
      <3> QED
        BY <1>2, <1>4, <1>7, <1>13, <1>14, <1>15, <3>1, <3>2, Zenon
    <2>3. Host!Decode(data) =
              IF bad THEN Host!Refuse
              ELSE IF Host!decodeProfiles(body, trim[8]).ok
                   THEN Host!Decoded([format_version |-> trim[5], active |-> trim[7],
                                      profiles |-> Host!decodeProfiles(body, trim[8]).val])
                   ELSE Host!decodeProfiles(body, trim[8])
      BY <1>11, <2>1 DEF Host!Decode, Host!Then
    <2> HIDE DEF bad
    <2> QED
      BY <1>14, <1>16, <2>2, <2>3 DEF Host!Then
  <1> QED
    BY <1>7, <1>8, <1>9, <1>10, <1>17, FieldsAlike, Zenon DEF Host!Then, Device!Then

\* Steps, bindings, profiles and configurations within the limits that the device's decoder
\* enforces: counts, lengths, modes; no range of a timing, of the chain or of a delay.
RunStep == {s \in Step : s.type = 1 => Len(s.text) <= 255}
RunBinding == {b \in [color : Colour, steps : Seq(RunStep)] : Len(b.steps) <= MAX_STEPS}
RunProfile ==
    {p \in [name : Seq(Ascii), dwell_ms : Words, tap_max_ms : Words, overflow : Octet, ext_count : Octet,
            brightness : Octet, idle_mode : Octet, idle_color : Colour, tap : RunBinding, slots : Seq(RunBinding)] :
        Len(p.name) <= MAX_NAME_LEN /\ p.overflow <= 2 /\ p.idle_mode <= 3 /\ Len(p.slots) \in 1 .. MAX_SLOTS}
Runnable ==
    {c \in [format_version : {1}, active : Octet, profiles : Seq(RunProfile)] :
        Len(c.profiles) \in 1 .. MAX_PROFILES /\ c.active < Len(c.profiles)}

\* Octets are numbers.
LEMMA OctetNat == \A x \in Octet : x \in Nat /\ x <= 255
  BY DEF Octet

\* Octets below 128 are of ASCII.
LEMMA AsciiOctet ==
    ASSUME NEW x \in Octet, x < 128
    PROVE  x \in Ascii
  <1>1. x \in Nat
    BY OctetNat
  <1>2. 0 <= x /\ x <= 127
    BY <1>1
  <1> QED
    BY <1>1, <1>2 DEF Ascii

\* Sequences of octets are sequences of numbers.
LEMMA OctetsAreNumbers == \A s \in Seq(Octet) : s \in Seq(Nat)
  <1>1. Octet \subseteq Nat
    BY DEF Octet
  <1> QED
    BY <1>1, SeqMonotonic

\* Octets that are taken are as many as were asked for.
LEMMA TakeOctets ==
    ASSUME NEW buf \in Seq(Octet), NEW p \in Nat, NEW n \in Nat, Device!Take(buf, p, n).ok
    PROVE  /\ Device!Take(buf, p, n).pos \in 0 .. Len(buf)
           /\ Device!Take(buf, p, n).val \in Seq(Octet)
           /\ Len(Device!Take(buf, p, n).val) = n
  <1>1. p + n <= Len(buf) /\ Device!Take(buf, p, n) = Device!Read(SubSeq(buf, p + 1, p + n), p + n)
    BY DEF Device!Take, Device!Refuse
  <1>2. \A j \in p + 1 .. p + n : buf[j] \in Octet
    <2>1. \A j \in p + 1 .. p + n : j \in 1 .. Len(buf)
      BY <1>1
    <2> QED
      BY <2>1, ElementOfSeq
  <1>3. SubSeq(buf, p + 1, p + n) \in Seq(Octet) /\ Len(SubSeq(buf, p + 1, p + n)) = n
    <2>1. p + 1 \in Int /\ p + n \in Int /\ (IF p + 1 <= p + n THEN (p + n) - (p + 1) + 1 ELSE 0) = n
      OBVIOUS
    <2>2. /\ SubSeq(buf, p + 1, p + n) \in Seq(Octet)
          /\ Len(SubSeq(buf, p + 1, p + n)) = IF p + 1 <= p + n THEN (p + n) - (p + 1) + 1 ELSE 0
      BY <1>2, <2>1, SubSeqProperties
    <2> QED
      BY <2>1, <2>2
  <1>5. p + n \in 0 .. Len(buf)
    BY <1>1
  <1>6. Device!Take(buf, p, n).pos = p + n /\ Device!Take(buf, p, n).val = SubSeq(buf, p + 1, p + n)
    <2>1. /\ Device!Read(SubSeq(buf, p + 1, p + n), p + n).pos = p + n
          /\ Device!Read(SubSeq(buf, p + 1, p + n), p + n).val = SubSeq(buf, p + 1, p + n)
      BY ReadFields, Zenon
    <2> QED
      BY <1>1, <2>1, Zenon
  <1> QED
    BY <1>3, <1>5, <1>6, Zenon

\* A byte that is read is an octet.
LEMMA U8Octet ==
    ASSUME NEW buf \in Seq(Octet), NEW p \in Nat, Device!ReadU8(buf, p).ok
    PROVE  Device!ReadU8(buf, p).pos \in 0 .. Len(buf) /\ Device!ReadU8(buf, p).val \in Octet
  BY ElementOfSeq DEF Device!ReadU8, Device!Read, Device!Refuse

\* Two octets make a word.
LEMMA WordOfTwo ==
    ASSUME NEW a \in Octet, NEW b \in Octet
    PROVE  a + 256 * b \in Words
  <1>1. PICK w \in Nat : w = a + 256 * b
    BY DEF Octet
  <1>2. w < 256 * 256
    BY <1>1 DEF Octet
  <1>3. PICK W \in Nat : W = Device!WORD /\ W = 256 * 256
    BY WordsAlike
  <1>4. w < W
    BY <1>2, <1>3, Zenon
  <1>5. w \in 0 .. W - 1
    BY <1>4
  <1> QED
    BY <1>1, <1>3, <1>5, Zenon DEF Words

\* What is read as 16 bits is a word.
LEMMA U16Word ==
    ASSUME NEW buf \in Seq(Octet), NEW p \in Nat, Device!ReadU16(buf, p).ok
    PROVE  Device!ReadU16(buf, p).pos \in 0 .. Len(buf) /\ Device!ReadU16(buf, p).val \in Words
  <1>1. p + 2 <= Len(buf) /\ Device!ReadU16(buf, p) = Device!Read(Device!u16(buf, p), p + 2)
    BY DEF Device!ReadU16, Device!Refuse
  <1>2. p + 1 \in 1 .. Len(buf) /\ p + 2 \in 1 .. Len(buf) /\ p + 2 \in 0 .. Len(buf)
    BY <1>1
  <1>3. buf[p + 1] \in Octet /\ buf[p + 2] \in Octet
    BY <1>2, ElementOfSeq
  <1>4. Device!u16(buf, p) \in Words
    BY <1>3, WordOfTwo DEF Device!u16
  <1> QED
    BY <1>1, <1>2, <1>4, ReadFields

\* What is read, where it is read: a value of the given set, up to a position within the buffer.
Gives(buf, r, V) == r.ok => r.val \in V /\ r.pos \in 0 .. Len(buf)

\* A step that the device accepts is one it can run.
LEMMA StepRuns ==
    ASSUME NEW buf \in Seq(Octet), NEW p \in 0 .. Len(buf)
    PROVE  Gives(buf, Device!decode_step(buf, p), RunStep)
  <1> DEFINE D == Device!decode_step(buf, p)
  <1>1. PICK t : t = Device!ReadU8(buf, p)
    OBVIOUS
  <1> SUFFICES ASSUME D.ok PROVE D.val \in RunStep /\ D.pos \in 0 .. Len(buf)
    BY DEF Gives
  <1>2. t.ok
    BY <1>1, DeviceStep
  <1>3. t.pos \in Nat /\ t.val \in Octet
    BY <1>1, <1>2, U8Octet
  <1>4. PICK k, n, v : /\ k = Device!Take(buf, t.pos, 2) /\ n = Device!ReadU8(buf, t.pos) /\ v = Device!ReadU16(buf, t.pos)
    OBVIOUS
  <1>5. PICK s : s = Device!Take(buf, n.pos, n.val)
    OBVIOUS
  <1>6. k.ok => k.pos \in 0 .. Len(buf) /\ k.val \in Seq(Octet) /\ Len(k.val) = 2
    <2>1. 2 \in Nat
      OBVIOUS
    <2> QED
      BY <1>3, <1>4, <2>1, TakeOctets
  <1>7. n.ok => n.pos \in 0 .. Len(buf) /\ n.val \in Octet
    BY <1>3, <1>4, U8Octet
  <1>8. v.ok => v.pos \in 0 .. Len(buf) /\ v.val \in Words
    BY <1>3, <1>4, U16Word
  <1>9. n.ok /\ s.ok => s.pos \in 0 .. Len(buf) /\ s.val \in Seq(Octet) /\ Len(s.val) = n.val
    <2> SUFFICES ASSUME n.ok, s.ok PROVE s.pos \in 0 .. Len(buf) /\ s.val \in Seq(Octet) /\ Len(s.val) = n.val
      OBVIOUS
    <2>1. PICK at \in 0 .. Len(buf), m \in Octet : at = n.pos /\ m = n.val
      BY <1>7
    <2>2. at \in Nat /\ m \in Nat
      BY DEF Octet
    <2> QED
      BY <1>5, <2>1, <2>2, TakeOctets
  <1> HIDE DEF D
  <1>10. CASE t.val = 0
    <2>1. D = IF k.ok THEN Device!Read(Device!KeyStep(k.val[1], k.val[2]), k.pos) ELSE k
      BY <1>1, <1>2, <1>4, <1>10, DeviceStep DEF D
    <2>2. k.ok
      BY <2>1
    <2>3. k.val[1] \in Octet /\ k.val[2] \in Octet
      BY <1>6, <2>2, ElementOfSeq
    <2>4. Device!KeyStep(k.val[1], k.val[2]) \in RunStep
      BY <2>3 DEF Device!KeyStep, Device!STEP_KEY, RunStep, Step
    <2> QED
      BY <1>6, <2>1, <2>2, <2>4, ReadFields
  <1>11. CASE t.val = 1
    <2>1. n.ok /\ s.ok /\ D = IF Device!Utf8(s.val) THEN Device!Read(Device!TextStep(s.val), s.pos) ELSE Device!Refuse
      BY <1>1, <1>2, <1>4, <1>5, <1>11, DeviceStep DEF D
    <2>2. Device!Utf8(s.val) /\ D = Device!Read(Device!TextStep(s.val), s.pos)
      BY <2>1, Refused
    <2>3. s.val \in Seq(Octet) /\ Len(s.val) <= 255
      <3>1. PICK m \in Octet : m = n.val
        BY <1>7, <2>1
      <3>2. m <= 255
        BY DEF Octet
      <3> QED
        BY <1>9, <2>1, <3>1, <3>2
    <2>4. s.val \in Seq(Ascii)
      <3>1. PICK w \in Seq(Octet) : w = s.val
        BY <2>3
      <3>2. DOMAIN w = 1 .. Len(w) /\ \A i \in 1 .. Len(w) : w[i] \in Octet
        BY ElementOfSeq
      <3>3. \A i \in 1 .. Len(w) : w[i] < 128
        BY <2>2, <3>1, <3>2, Zenon DEF Device!Utf8
      <3>4. \A i \in 1 .. Len(w) : w[i] \in Ascii
        <4> SUFFICES ASSUME NEW i \in 1 .. Len(w) PROVE w[i] \in Ascii
          OBVIOUS
        <4>1. PICK x \in Octet : x = w[i] /\ x < 128
          BY <3>2, <3>3
        <4>2. x \in Ascii
          BY <4>1, AsciiOctet
        <4> QED
          BY <4>1, <4>2
      <3> QED
        BY <3>1, <3>4
    <2>5. Device!TextStep(s.val) \in RunStep
      BY <2>3, <2>4 DEF Device!TextStep, Device!STEP_TEXT, RunStep, Step
    <2> QED
      BY <1>9, <2>1, <2>2, <2>5, ReadFields
  <1>12. CASE t.val = 2
    <2>1. D = IF v.ok THEN Device!Read(Device!ConsumerStep(v.val), v.pos) ELSE v
      BY <1>1, <1>2, <1>4, <1>12, DeviceStep DEF D
    <2>2. v.ok => Device!ConsumerStep(v.val) \in RunStep
      BY <1>8 DEF Device!ConsumerStep, Device!STEP_CONSUMER, RunStep, Step
    <2> QED
      BY <1>8, <2>1, <2>2, ReadFields
  <1>13. CASE t.val = 3
    <2>1. D = IF v.ok THEN Device!Read(Device!DelayStep(v.val), v.pos) ELSE v
      BY <1>1, <1>2, <1>4, <1>13, DeviceStep DEF D
    <2>2. v.ok => Device!DelayStep(v.val) \in RunStep
      BY <1>8 DEF Device!DelayStep, Device!STEP_DELAY, RunStep, Step
    <2> QED
      BY <1>8, <2>1, <2>2, ReadFields
  <1>14. CASE t.val \notin {0, 1, 2, 3}
    <2>1. D = Device!Refuse
      BY <1>1, <1>2, <1>14, DeviceStep DEF D
    <2> QED
      BY <2>1, Refused
  <1> QED
    BY <1>10, <1>11, <1>12, <1>13, <1>14 DEF D

\* What the k-th of n items gives, where it may start.
RunsOn(item, V, n, Q) ==
    \A k \in 0 .. n - 1 : \A q \in Q[k] : item[q].ok => item[q].val \in V /\ item[q].pos \in Q[k + 1]

\* Where each item is of one kind, all that are read are.
LEMMA RepeatRunsOn ==
    ASSUME NEW V, NEW item, NEW n \in Nat, NEW Q, NEW p \in Q[0], RunsOn(item, V, n, Q), Device!Repeat(n, item, p).ok
    PROVE  /\ Device!Repeat(n, item, p).val \in Seq(V)
           /\ Len(Device!Repeat(n, item, p).val) = n
           /\ Device!Repeat(n, item, p).pos \in Q[n]
  <1> DEFINE R(k) == Device!Repeat(k, item, p)
             T == {k \in Nat : k <= n /\ R(k).ok => R(k).val \in Seq(V) /\ Len(R(k).val) = k /\ R(k).pos \in Q[k]}
  <1>1. 0 \in T
    <2>1. R(0) = Device!Read(<<>>, p)
      BY RepeatZero
    <2>2. <<>> \in Seq(V) /\ Len(<<>>) = 0
      BY EmptySeq
    <2>3. R(0).val = <<>> /\ R(0).pos = p
      BY <2>1, ReadFields
    <2> HIDE DEF R
    <2> QED
      BY <2>2, <2>3
  <1>2. ASSUME NEW k \in T PROVE k + 1 \in T
    <2>0. k \in Nat /\ k + 1 \in Nat
      OBVIOUS
    <2> SUFFICES ASSUME k + 1 <= n, R(k + 1).ok
                 PROVE  R(k + 1).val \in Seq(V) /\ Len(R(k + 1).val) = k + 1 /\ R(k + 1).pos \in Q[k + 1]
      BY <2>0, Zenon
    <2>1. R(k).ok => R(k).val \in Seq(V) /\ Len(R(k).val) = k /\ R(k).pos \in Q[k]
      BY <2>0
    <2>2. R(k + 1) = Onto(item, R(k))
      BY <2>0, RepeatNext
    <2> HIDE DEF T, R
    <2>3. R(k).ok /\ item[R(k).pos].ok
      BY <2>2 DEF Onto
    <2>4. PICK q, e : q = R(k).pos /\ e = item[q]
      OBVIOUS
    <2>a. k \in 0 .. n - 1
      BY <2>0
    <2>5. e.val \in V /\ e.pos \in Q[k + 1]
      BY <2>1, <2>3, <2>4, <2>a, Zenon DEF RunsOn
    <2>6. R(k + 1) = Device!Read(Append(R(k).val, e.val), e.pos)
      BY <2>2, <2>3, <2>4, Zenon DEF Onto
    <2>7. PICK vs \in Seq(V), v \in V, end \in Q[k + 1] : vs = R(k).val /\ Len(vs) = k /\ v = e.val /\ end = e.pos
      BY <2>1, <2>3, <2>5
    <2>8. PICK ws : ws = Append(vs, v)
      OBVIOUS
    <2>9. ws \in Seq(V) /\ Len(ws) = k + 1
      BY <2>7, <2>8, AppendProperties
    <2>10. R(k + 1) = Device!Read(ws, end)
      BY <2>6, <2>7, <2>8, Zenon
    <2>11. R(k + 1).val = ws /\ R(k + 1).pos = end
      BY <2>10, ReadFields
    <2> QED
      BY <2>9, <2>11, Zenon
  <1> HIDE DEF T
  <1>3. T = Nat
    BY <1>1, <1>2, Induction DEF T
  <1> QED
    BY <1>3 DEF T

\* The same, for items that end inside of the buffer.
LEMMA RepeatRuns ==
    ASSUME NEW buf, NEW V, NEW item, NEW n \in Nat, NEW p \in 0 .. Len(buf),
           \A q \in 0 .. Len(buf) : Gives(buf, item[q], V)
    PROVE  /\ Gives(buf, Device!Repeat(n, item, p), Seq(V))
           /\ Device!Repeat(n, item, p).ok => Len(Device!Repeat(n, item, p).val) = n
  <1> SUFFICES ASSUME Device!Repeat(n, item, p).ok
               PROVE  /\ Device!Repeat(n, item, p).val \in Seq(V)
                      /\ Len(Device!Repeat(n, item, p).val) = n
                      /\ Device!Repeat(n, item, p).pos \in 0 .. Len(buf)
    BY DEF Gives
  <1> DEFINE Q == [k \in 0 .. n |-> 0 .. Len(buf)]
  <1>1. \A k \in 0 .. n - 1 : k \in 0 .. n /\ k + 1 \in 0 .. n
    OBVIOUS
  <1>2. \A k \in 0 .. n : Q[k] = 0 .. Len(buf)
    OBVIOUS
  <1>3. 0 \in 0 .. n /\ n \in 0 .. n
    OBVIOUS
  <1> HIDE DEF Q
  <1>4. RunsOn(item, V, n, Q)
    BY <1>1, <1>2 DEF RunsOn, Gives
  <1>5. p \in Q[0] /\ Q[n] = 0 .. Len(buf)
    BY <1>2, <1>3
  <1>6. /\ Device!Repeat(n, item, p).val \in Seq(V)
        /\ Len(Device!Repeat(n, item, p).val) = n
        /\ Device!Repeat(n, item, p).pos \in Q[n]
    BY <1>4, <1>5, RepeatRunsOn
  <1> QED
    BY <1>5, <1>6, Zenon

\* Three octets are a colour.
LEMMA ThreeOf ==
    ASSUME NEW s \in Seq(Octet), NEW m \in Nat, NEW n \in Nat, m >= 1, n = m + 2, n <= Len(s)
    PROVE  SubSeq(s, m, n) \in Colour
  <1>1. \A j \in m .. n : s[j] \in Octet
    BY ElementOfSeq
  <1>2. m \in Int /\ n \in Int /\ m <= n /\ n - m + 1 = 3
    OBVIOUS
  <1>3. SubSeq(s, m, n) \in Seq(Octet) /\ Len(SubSeq(s, m, n)) = IF m <= n THEN n - m + 1 ELSE 0
    BY <1>1, <1>2, SubSeqProperties
  <1> QED
    BY <1>2, <1>3 DEF Colour

\* A binding that the device accepts is one it can run.
LEMMA BindingRuns ==
    ASSUME NEW buf \in Seq(Octet), NEW p \in 0 .. Len(buf)
    PROVE  Gives(buf, Device!decode_binding(buf, p), RunBinding)
  <1> DEFINE D == Device!decode_binding(buf, p)
  <1> SUFFICES ASSUME D.ok PROVE D.val \in RunBinding /\ D.pos \in 0 .. Len(buf)
    BY DEF Gives
  <1>1. PICK b : b = Device!Take(buf, p, 4)
    OBVIOUS
  <1>2. PICK s : s = Device!Repeat(b.val[4], StepItems(buf), b.pos)
    OBVIOUS
  <1>3. b.ok
    BY <1>1, <1>2, DeviceBinding
  <1>4. D = IF b.val[4] > MAX_STEPS THEN Device!Refuse
            ELSE IF s.ok THEN Device!Read(TheBinding(b.val, s.val), s.pos) ELSE s
    BY <1>1, <1>2, <1>3, DeviceBinding
  <1> HIDE DEF D
  <1>5. ~(b.val[4] > MAX_STEPS) /\ s.ok /\ D = Device!Read(TheBinding(b.val, s.val), s.pos)
    BY <1>4, Refused
  <1>6. PICK q \in 0 .. Len(buf), w \in Seq(Octet) : q = b.pos /\ w = b.val /\ Len(w) = 4
    <2>1. p \in Nat /\ 4 \in Nat
      OBVIOUS
    <2> QED
      BY <1>1, <1>3, <2>1, TakeOctets
  <1>7. PICK n \in Octet : n = w[4]
    BY <1>6, ElementOfSeq
  <1>8. n \in Nat /\ n <= MAX_STEPS
    <2>1. n \in Nat /\ MAX_STEPS \in Nat
      BY OctetNat, FormatAssumption
    <2>2. ~(n > MAX_STEPS)
      BY <1>5, <1>6, <1>7, Zenon
    <2> QED
      BY <2>1, <2>2
  <1>9. s.val \in Seq(RunStep) /\ s.pos \in 0 .. Len(buf) /\ Len(s.val) = n
    <2>1. \A r \in 0 .. Len(buf) : Gives(buf, StepItems(buf)[r], RunStep)
      BY StepRuns DEF StepItems
    <2>2. s = Device!Repeat(n, StepItems(buf), q)
      BY <1>2, <1>6, <1>7
    <2>3. Gives(buf, s, Seq(RunStep)) /\ (s.ok => Len(s.val) = n)
      BY <1>8, <2>1, <2>2, RepeatRuns
    <2> QED
      BY <1>5, <2>3, Zenon DEF Gives
  <1>10. TheBinding(b.val, s.val) \in RunBinding
    <2>1. SubSeq(w, 1, 3) \in Colour
      <3>1. 1 \in Nat /\ 3 \in Nat /\ 1 >= 1 /\ 3 = 1 + 2 /\ 3 <= Len(w)
        BY <1>6
      <3> QED
        BY <3>1, ThreeOf
    <2> QED
      BY <1>6, <1>8, <1>9, <2>1 DEF TheBinding, RunBinding
  <1> QED
    BY <1>5, <1>9, <1>10, ReadFields

\* A profile that the device accepts is one it can run.
LEMMA ProfileRuns ==
    ASSUME NEW buf \in Seq(Octet), NEW p \in 0 .. Len(buf)
    PROVE  Gives(buf, Device!decode_profile(buf, p), RunProfile)
  <1> DEFINE D == Device!decode_profile(buf, p)
  <1> SUFFICES ASSUME D.ok PROVE D.val \in RunProfile /\ D.pos \in 0 .. Len(buf)
    BY DEF Gives
  <1>1. PICK len : len = Device!ReadU8(buf, p)
    OBVIOUS
  <1>2. PICK name : name = Device!Take(buf, len.pos, len.val)
    OBVIOUS
  <1>3. PICK f : f = Device!Take(buf, name.pos, 12)
    OBVIOUS
  <1>4. PICK tap : tap = Device!decode_binding(buf, f.pos)
    OBVIOUS
  <1>5. PICK slots : slots = Device!Repeat(f.val[12], BindingItems(buf), tap.pos)
    OBVIOUS
  <1>7. D = IF ~len.ok THEN len
               ELSE IF len.val > MAX_NAME_LEN THEN Device!Refuse
               ELSE IF ~name.ok THEN name
               ELSE IF ~f.ok THEN f
               ELSE IF DeviceRefuses(name.val, f.val) THEN Device!Refuse
               ELSE IF ~tap.ok THEN tap
               ELSE IF ~slots.ok THEN slots
               ELSE Device!Read(TheProfile(name.val, f.val, tap.val, slots.val), slots.pos)
    BY <1>1, <1>2, <1>3, <1>4, <1>5, ZenonT(60) DEF Device!decode_profile, Device!Then, BindingItems,
       Device!Positions, TheProfile, DeviceRefuses
  <1> HIDE DEF D
  <1>9. /\ len.ok /\ name.ok /\ f.ok /\ tap.ok /\ slots.ok
        /\ ~(len.val > MAX_NAME_LEN) /\ ~DeviceRefuses(name.val, f.val)
        /\ D = Device!Read(TheProfile(name.val, f.val, tap.val, slots.val), slots.pos)
    BY <1>7, Refused
  <1>11. PICK q1 \in 0 .. Len(buf), n \in Octet : q1 = len.pos /\ n = len.val /\ q1 \in Nat /\ n \in Nat /\ n <= MAX_NAME_LEN
    <2>1. len.pos \in 0 .. Len(buf) /\ len.val \in Octet
      BY <1>1, <1>9, U8Octet
    <2>2. len.val \in Nat
      BY <2>1, OctetNat
    <2>3. len.val <= MAX_NAME_LEN
      BY <1>9, <2>2, FormatAssumption
    <2> QED
      BY <2>1, <2>2, <2>3
  <1>12. PICK q2 \in 0 .. Len(buf), nm \in Seq(Octet) : q2 = name.pos /\ nm = name.val /\ Len(nm) = n /\ q2 \in Nat
    <2>1. name.pos \in 0 .. Len(buf) /\ name.val \in Seq(Octet) /\ Len(name.val) = n
      BY <1>2, <1>9, <1>11, TakeOctets
    <2> QED
      BY <2>1
  <1>13. PICK q3 \in 0 .. Len(buf), w \in Seq(Octet) : q3 = f.pos /\ w = f.val /\ Len(w) = 12
    <2>1. 12 \in Nat
      OBVIOUS
    <2>2. f.pos \in 0 .. Len(buf) /\ f.val \in Seq(Octet) /\ Len(f.val) = 12
      BY <1>3, <1>9, <1>12, <2>1, TakeOctets
    <2> QED
      BY <2>2
  <1>14. PICK q4 \in 0 .. Len(buf), t \in RunBinding : q4 = tap.pos /\ t = tap.val
    BY <1>4, <1>9, <1>13, BindingRuns DEF Gives
  <1>15. w[12] \in 1 .. MAX_SLOTS /\ ~(w[5] > 2) /\ ~(w[8] > 3) /\ Device!Utf8(nm)
    BY <1>9, <1>12, <1>13, Zenon DEF DeviceRefuses, Device!OVERFLOW_CLAMP, Device!IDLE_RAINBOW
  <1>16. slots.val \in Seq(RunBinding) /\ slots.pos \in 0 .. Len(buf) /\ Len(slots.val) = w[12]
    <2>1. \A r \in 0 .. Len(buf) : Gives(buf, BindingItems(buf)[r], RunBinding)
      BY BindingRuns DEF BindingItems
    <2>2. PICK m \in Nat : m = w[12]
      BY <1>15
    <2>3. slots = Device!Repeat(m, BindingItems(buf), q4)
      BY <1>5, <1>13, <1>14, <2>2
    <2>4. Gives(buf, slots, Seq(RunBinding)) /\ (slots.ok => Len(slots.val) = m)
      BY <2>1, <2>3, RepeatRuns
    <2> QED
      BY <1>9, <2>2, <2>4, Zenon DEF Gives
  <1>17. \A i \in 1 .. 12 : w[i] \in Octet
    BY <1>13, ElementOfSeq
  <1>18. TheProfile(nm, w, t, slots.val) \in RunProfile
    <2>1. nm \in Seq(Ascii)
      <3>2. DOMAIN nm = 1 .. Len(nm) /\ \A i \in 1 .. Len(nm) : nm[i] \in Octet
        BY ElementOfSeq
      <3>3. \A i \in 1 .. Len(nm) : nm[i] < 128
        BY <1>15, <3>2, Zenon DEF Device!Utf8
      <3>4. \A i \in 1 .. Len(nm) : nm[i] \in Ascii
        <4> SUFFICES ASSUME NEW i \in 1 .. Len(nm) PROVE nm[i] \in Ascii
          OBVIOUS
        <4>1. PICK x \in Octet : x = nm[i] /\ x < 128
          BY <3>2, <3>3
        <4>2. x \in Ascii
          BY <4>1, AsciiOctet
        <4> QED
          BY <4>1, <4>2
      <3> QED
        BY <3>4
    <2>2. Device!u16(w, 0) \in Words /\ Device!u16(w, 2) \in Words
      <3>1. w[1] \in Octet /\ w[2] \in Octet /\ w[3] \in Octet /\ w[4] \in Octet
        BY <1>17
      <3>2. Device!u16(w, 0) = w[1] + 256 * w[2] /\ Device!u16(w, 2) = w[3] + 256 * w[4]
        BY DEF Device!u16
      <3> QED
        BY <3>1, <3>2, WordOfTwo
    <2>3. SubSeq(w, 9, 11) \in Colour
      <3>1. 9 \in Nat /\ 11 \in Nat /\ 9 >= 1 /\ 11 = 9 + 2 /\ 11 <= Len(w)
        BY <1>13
      <3> QED
        BY <3>1, ThreeOf
    <2>4. w[5] \in Octet /\ w[6] \in Octet /\ w[7] \in Octet /\ w[8] \in Octet
      BY <1>17
    <2>5. w[5] <= 2 /\ w[8] <= 3
      <3>1. PICK x \in Octet, y \in Octet : x = w[5] /\ y = w[8] /\ ~(x > 2) /\ ~(y > 3)
        BY <1>15, <2>4
      <3>2. x <= 2 /\ y <= 3
        BY <3>1, SMTT(30) DEF Octet
      <3> QED
        BY <3>1, <3>2
    <2> QED
      BY <1>11, <1>12, <1>15, <1>16, <2>1, <2>2, <2>3, <2>4, <2>5 DEF TheProfile, RunProfile
  <1>19. D = Device!Read(TheProfile(nm, w, t, slots.val), slots.pos)
    BY <1>9, <1>12, <1>13, <1>14, Zenon
  <1> QED
    BY <1>16, <1>18, <1>19, ReadFields

\* Whatever the device takes keeps the limits its decoder enforces (blob.py, decode).
THEOREM DecodeRuns ==
    ASSUME NEW data \in Seq(Octet), Device!decode(data).ok
    PROVE  \E c \in Runnable : Device!decode(data) = Device!Decoded(c)
  <1>1. Device!Whole(data)
    BY DEF Device!decode, Device!Refuse
  <1>2. PICK L \in Nat, total \in Nat : L = Len(data) /\ total = Device!Total(data) /\ total \in 12 .. L
    <2>1. PICK L \in Nat : L = Len(data)
      OBVIOUS
    <2> QED
      BY <1>1, <2>1, SMTT(30) DEF Device!Whole, Device!HEADER_BASE, Device!CRC_TRAILER
  <1>3. data[5] = 1
    BY <1>1 DEF Device!Whole, Device!FORMAT_VERSION
  <1>4. PICK body \in Seq(Octet) : body = Device!Body(data)
    <2>1. total - 2 \in Nat /\ total - 2 <= Len(data)
      BY <1>2
    <2>2. Device!Body(data) = SubSeq(data, 1, total - 2)
      BY <1>2 DEF Device!Body, Device!CRC_TRAILER
    <2> QED
      BY <2>1, <2>2, PrefixType
  <1>5. PICK n \in Octet, a \in Octet : n = data[8] /\ a = data[7] /\ n \in Nat /\ a \in Nat
    <2>1. data[8] \in Octet /\ data[7] \in Octet
      BY <1>2, ElementOfSeq
    <2> QED
      BY <2>1, OctetNat
  <1>6. n \in 1 .. MAX_PROFILES /\ ~(a >= n) /\ ~(Len(body) < 10 + 2 * n)
    BY <1>1, <1>4, <1>5 DEF Device!decode, Device!Refuse, Device!HEADER_BASE
  <1>a. Device!decode(data) = Device!Then(Device!decode_profiles(body, n), LAMBDA profiles, e :
             Device!Decoded([format_version |-> data[5], active |-> data[7], profiles |-> profiles]))
    BY <1>1, <1>4, <1>5 DEF Device!decode, Device!Refuse, Device!HEADER_BASE
  <1>7. PICK ps : ps = Device!decode_profiles(body, n)
    OBVIOUS
  <1>8. ps.ok /\ Device!decode(data) = Device!Decoded([format_version |-> 1, active |-> a, profiles |-> ps.val])
    BY <1>3, <1>5, <1>a, <1>7 DEF Device!Then
  <1>9. ps.val \in Seq(RunProfile) /\ Len(ps.val) = n
    <2> DEFINE Q == [k \in 0 .. n |-> {10 + 2 * k}]
               d == Entries(body, n)
    <2>1. ps = Device!Repeat(n, d, 10)
      BY <1>7, ProfilesAreRepeated
    <2>2. PICK m \in Nat : m = Len(body) /\ 10 + 2 * n <= m
      <3>1. PICK m \in Nat : m = Len(body)
        OBVIOUS
      <3>2. ~(m < 10 + 2 * n)
        BY <1>6, <3>1, Zenon
      <3> QED
        BY <1>5, <3>1, <3>2
    <2>3. \A k \in 0 .. n - 1 : /\ Q[k] = {10 + 2 * k} /\ Q[k + 1] = {10 + 2 * k + 2}
                                /\ 10 + 2 * k \in 0 .. m /\ 10 + 2 * k + 2 <= m
      <3>1. \A k \in 0 .. n : Q[k] = {10 + 2 * k}
        OBVIOUS
      <3> HIDE DEF Q
      <3> SUFFICES ASSUME NEW k \in 0 .. n - 1
                   PROVE  /\ Q[k] = {10 + 2 * k} /\ Q[k + 1] = {10 + 2 * k + 2}
                          /\ 10 + 2 * k \in 0 .. m /\ 10 + 2 * k + 2 <= m
        OBVIOUS
      <3>2. n \in Nat /\ k \in Nat /\ k \in 0 .. n /\ k + 1 \in 0 .. n /\ 10 + 2 * (k + 1) = 10 + 2 * k + 2
        BY <1>5
      <3>3. 10 + 2 * k \in 0 .. m /\ 10 + 2 * k + 2 <= m
        BY <2>2, <3>2
      <3> QED
        BY <3>1, <3>2, <3>3
    <2>4. 10 \in Q[0]
      BY <1>5
    <2> HIDE DEF Q
    <2>5. \A r \in 0 .. m : d[r] = Entry(body, n, r, Device!decode_profile(body, Device!u16(body, r)))
      BY <2>2 DEF Entries
    <2> HIDE DEF d
    <2>6. RunsOn(d, RunProfile, n, Q)
      <3> SUFFICES ASSUME NEW k \in 0 .. n - 1, NEW q \in Q[k], d[q].ok
                   PROVE  d[q].val \in RunProfile /\ d[q].pos \in Q[k + 1]
        BY DEF RunsOn
      <3>1. q = 10 + 2 * k /\ q \in 0 .. m /\ q + 2 <= m /\ Q[k + 1] = {q + 2}
        BY <2>3
      <3>2. PICK off \in Words : off = Device!u16(body, q)
        <4>1. q + 1 \in 1 .. Len(body) /\ q + 2 \in 1 .. Len(body)
          BY <2>2, <3>1
        <4>2. body[q + 1] \in Octet /\ body[q + 2] \in Octet
          BY <4>1, ElementOfSeq
        <4> QED
          BY <4>2, WordOfTwo DEF Device!u16
      <3>3. PICK x : x = Device!decode_profile(body, off)
        OBVIOUS
      <3>4. d[q] = Entry(body, n, q, x)
        BY <2>5, <3>1, <3>2, <3>3
      <3>5. ~(off < 10 + 2 * n \/ off >= Len(body)) /\ x.ok /\ d[q] = Device!Read(x.val, q + 2)
        BY <3>2, <3>4, Refused, Zenon DEF Entry
      <3>6. off \in 0 .. Len(body)
        <4>1. off \in Nat
          BY WordRange, Zenon
        <4>2. ~(off >= m)
          BY <2>2, <3>5, Zenon
        <4> QED
          BY <2>2, <4>1, <4>2
      <3>7. x.val \in RunProfile
        BY <3>3, <3>5, <3>6, ProfileRuns DEF Gives
      <3> QED
        BY <3>1, <3>5, <3>7, ReadFields
    <2> QED
      BY <1>5, <1>8, <2>1, <2>4, <2>6, RepeatRunsOn, ZenonT(60)
  <1>10. [format_version |-> 1, active |-> a, profiles |-> ps.val] \in Runnable
    <2>1. a < n
      BY <1>5, <1>6
    <2> QED
      BY <1>5, <1>6, <1>9, <2>1 DEF Runnable
  <1> QED
    BY <1>8, <1>10

\* The instances' FlattenSeq is this module's.
LEMMA FlattensAlike == \A s : Device!FlattenSeq(s) = FlattenSeq(s) /\ Host!FlattenSeq(s) = FlattenSeq(s)
  BY Zenon DEF Device!FlattenSeq, Host!FlattenSeq, FlattenSeq

\* A string of bytes that lies in the buffer behind the p-th.
At(buf, p, s) == p + Len(s) <= Len(buf) /\ \A i \in 1 .. Len(s) : buf[p + i] = s[i]

\* Two sequences at a place are one behind the other.
LEMMA AtConcat ==
    ASSUME NEW buf \in Seq(Octet), NEW p \in Nat, NEW s \in Seq(Octet), NEW t \in Seq(Octet), At(buf, p, s \o t)
    PROVE  /\ At(buf, p, s) /\ At(buf, p + Len(s), t)
           /\ p + Len(s) \in Nat
           /\ p + Len(s \o t) = p + Len(s) + Len(t)
  <1>1. PICK m \in Nat, n \in Nat : m = Len(s) /\ n = Len(t)
    OBVIOUS
  <1>2. Len(s \o t) = m + n /\ \A i \in 1 .. m + n : (s \o t)[i] = IF i <= m THEN s[i] ELSE t[i - m]
    BY <1>1, ConcatProperties
  <1>3. PICK L \in Nat : L = Len(buf)
    OBVIOUS
  <1>4. p + (m + n) <= L /\ \A i \in 1 .. m + n : buf[p + i] = (s \o t)[i]
    BY <1>2, <1>3 DEF At
  <1>5. p + m <= L /\ (p + m) + n <= L
    BY <1>4
  <1>6. ASSUME NEW i \in 1 .. m PROVE buf[p + i] = s[i]
    <2>1. i \in 1 .. m + n /\ i <= m
      OBVIOUS
    <2> QED
      BY <1>2, <1>4, <2>1
  <1>7. ASSUME NEW i \in 1 .. n PROVE buf[(p + m) + i] = t[i]
    <2>1. m + i \in 1 .. m + n /\ ~(m + i <= m) /\ (m + i) - m = i /\ p + (m + i) = (p + m) + i
      OBVIOUS
    <2>2. buf[p + (m + i)] = t[(m + i) - m]
      BY <1>2, <1>4, <2>1
    <2> QED
      BY <2>1, <2>2
  <1> QED
    BY <1>1, <1>2, <1>3, <1>5, <1>6, <1>7 DEF At

\* Taking as many bytes as stand there takes what stands there.
LEMMA TakeAt ==
    ASSUME NEW buf \in Seq(Octet), NEW p \in Nat, NEW s \in Seq(Octet), At(buf, p, s)
    PROVE  Device!Take(buf, p, Len(s)) = Device!Read(s, p + Len(s))
  <1>1. PICK n \in Nat : n = Len(s)
    OBVIOUS
  <1>2. PICK L \in Nat : L = Len(buf) /\ p + n <= L
    BY <1>1 DEF At
  <1>3. \A j \in p + 1 .. p + n : buf[j] \in Octet
    <2>1. \A j \in p + 1 .. p + n : j \in 1 .. Len(buf)
      BY <1>2
    <2> QED
      BY <2>1, ElementOfSeq
  <1>4. p + 1 \in Int /\ p + n \in Int /\ (p + n) - (p + 1) + 1 = n
    OBVIOUS
  <1>5. PICK w \in Seq(Octet) : w = SubSeq(buf, p + 1, p + n) /\ Len(w) = n /\ \A i \in 1 .. n : w[i] = buf[p + i]
    <2>1. /\ SubSeq(buf, p + 1, p + n) \in Seq(Octet)
          /\ Len(SubSeq(buf, p + 1, p + n)) = IF p + 1 <= p + n THEN (p + n) - (p + 1) + 1 ELSE 0
          /\ \A i \in 1 .. (p + n) - (p + 1) + 1 : SubSeq(buf, p + 1, p + n)[i] = buf[(p + 1) + i - 1]
      BY <1>3, <1>4, SubSeqProperties, SMTT(30)
    <2>2. \A i \in 1 .. n : (p + 1) + i - 1 = p + i
      OBVIOUS
    <2>3. (p + n) - (p + 1) + 1 = n /\ (IF p + 1 <= p + n THEN n ELSE 0) = n
      OBVIOUS
    <2>4. PICK w : w = SubSeq(buf, p + 1, p + n)
      OBVIOUS
    <2>5. w \in Seq(Octet) /\ Len(w) = n /\ \A i \in 1 .. n : w[i] = buf[(p + 1) + i - 1]
      BY <2>1, <2>3, <2>4, Zenon
    <2>6. \A i \in 1 .. n : w[i] = buf[p + i]
      BY <2>2, <2>5, Zenon
    <2> QED
      BY <2>4, <2>5, <2>6, Zenon
  <1>6. w = s
    <2>1. Len(w) = Len(s) /\ \A i \in 1 .. Len(w) : w[i] = s[i]
      BY <1>1, <1>5 DEF At
    <2> QED
      BY <2>1, SeqEqual
  <1>7. ~(p + n > L)
    BY <1>2
  <1> QED
    BY <1>1, <1>2, <1>5, <1>6, <1>7, Zenon DEF Device!Take

\* Reading a byte that stands there.
LEMMA U8At ==
    ASSUME NEW buf \in Seq(Octet), NEW p \in Nat, NEW b, At(buf, p, <<b>>)
    PROVE  Device!ReadU8(buf, p) = Device!Read(b, p + 1) /\ p + 1 <= Len(buf)
  BY DEF At, Device!ReadU8

\* A number below b * b is made up of two digits.
LEMMA TwoDigits ==
    ASSUME NEW b \in Nat \ {0}, NEW v \in Nat, v < b * b
    PROVE  /\ v % b \in 0 .. b - 1 /\ (v \div b) % b \in 0 .. b - 1
           /\ (v % b) + b * ((v \div b) % b) = v
  <1>1. PICK q \in Nat, r \in 0 .. b - 1 : q = v \div b /\ r = v % b /\ v = b * q + r
    BY DivMod
  <1>2. r \in Nat /\ q \in Int /\ b * q <= v
    BY <1>1
  <1>3. q < b
    <2> SUFFICES ASSUME q >= b PROVE FALSE
      BY <1>1
    <2>1. PICK d \in Nat : q = b + d
      <3>1. q - b \in Nat /\ q = b + (q - b)
        OBVIOUS
      <3> QED
        BY <3>1
    <2>2. b * q = b * b + b * d /\ b * d \in Nat
      BY <2>1
    <2> QED
      BY <1>2, <2>2
  <1>4. q \in 0 .. b - 1
    BY <1>3
  <1>5. q % b = q
    BY <1>4, SmallMod
  <1>6. r + b * q = v
    BY <1>1, <1>2
  <1> QED
    BY <1>1, <1>4, <1>5, <1>6

\* A word is made up of two octets.
LEMMA WordBytes ==
    ASSUME NEW v \in Words
    PROVE  /\ v % 256 \in Octet /\ (v \div 256) % 256 \in Octet
           /\ (v % 256) + 256 * ((v \div 256) % 256) = v
  <1>1. PICK W \in Nat, b \in Nat \ {0} : W = Device!WORD /\ b = 256 /\ W = b * b
    BY WordsAlike
  <1>2. v \in Nat /\ v < b * b
    BY <1>1, WordRange, Zenon
  <1>3. /\ v % b \in 0 .. b - 1 /\ (v \div b) % b \in 0 .. b - 1
        /\ (v % b) + b * ((v \div b) % b) = v
    BY <1>2, TwoDigits
  <1>4. Octet = 0 .. b - 1
    BY <1>1 DEF Octet
  <1> QED
    BY <1>1, <1>3, <1>4

\* AppendUint16 gives two octets.
LEMMA Uint16Bytes ==
    ASSUME NEW v \in Words
    PROVE  Device!AppendUint16(v) \in Seq(Octet) /\ Len(Device!AppendUint16(v)) = 2
  BY WordBytes DEF Device!AppendUint16

\* Reading a word that stands there.
LEMMA U16At ==
    ASSUME NEW buf \in Seq(Octet), NEW p \in Nat, NEW v \in Words, At(buf, p, Device!AppendUint16(v))
    PROVE  /\ Device!u16(buf, p) = v /\ Device!ReadU16(buf, p) = Device!Read(v, p + 2)
           /\ p + 2 <= Len(buf)
  <1>1. PICK a, b : a = v % 256 /\ b = (v \div 256) % 256
    OBVIOUS
  <1>2. Device!AppendUint16(v) = <<a, b>>
    BY <1>1, Zenon DEF Device!AppendUint16
  <1>3. p + 2 <= Len(buf) /\ buf[p + 1] = a /\ buf[p + 2] = b
    BY <1>2 DEF At
  <1>4. a + 256 * b = v
    BY <1>1, WordBytes
  <1>5. Device!u16(buf, p) = v
    BY <1>3, <1>4, Zenon DEF Device!u16
  <1>6. ~(p + 2 > Len(buf))
    BY <1>3
  <1> QED
    BY <1>3, <1>5, <1>6 DEF Device!ReadU16

\* Wherever a piece stands, its item is read as its value.
ReadsPieces(buf, item, vals, pieces, n) ==
    \A k \in 1 .. n : \A q \in 0 .. Len(buf) :
        At(buf, q, pieces[k]) => item[q] = Device!Read(vals[k], q + Len(pieces[k]))

\* Pieces that lie one behind the other, and the reader of one of them: all of them are read.
LEMMA RepeatAt ==
    ASSUME NEW buf \in Seq(Octet), NEW V, NEW vals \in Seq(V), NEW pieces \in Seq(Seq(Octet)),
           NEW n \in Nat, Len(vals) = n, Len(pieces) = n, NEW p \in Nat, NEW item,
           At(buf, p, FlattenSeq(pieces)), ReadsPieces(buf, item, vals, pieces, n)
    PROVE  Device!Repeat(n, item, p) = Device!Read(vals, p + Len(FlattenSeq(pieces)))
  <1> DEFINE R(k) == Device!Repeat(k, item, p)
             F(k) == UpTo(pieces, k)
             T == {k \in Nat : k <= n /\ At(buf, p, F(k)) => R(k) = Device!Read(SubSeq(vals, 1, k), p + Len(F(k)))}
  <1>0. /\ F(0) = <<>> /\ F(n) = FlattenSeq(pieces)
        /\ \A k \in 0 .. n : F(k) \in Seq(Octet)
        /\ \A k \in 0 .. n - 1 : pieces[k + 1] \in Seq(Octet) /\ F(k + 1) = F(k) \o pieces[k + 1]
    BY UpToStep
  <1>1. 0 \in T
    <2>1. R(0) = Device!Read(<<>>, p)
      BY RepeatZero
    <2>2. SubSeq(vals, 1, 0) = <<>>
      BY SubSeqEmpty
    <2>3. F(0) = <<>>
      BY <1>0
    <2> HIDE DEF R, F
    <2>4. p + Len(F(0)) = p
      <3>1. Len(F(0)) = 0
        BY <2>3, Zenon, EmptySeq
      <3>2. PICK l \in Nat : l = Len(F(0)) /\ l = 0
        BY <3>1
      <3>3. p + l = p
        BY <3>2
      <3> QED
        BY <3>2, <3>3, Zenon
    <2>5. R(0) = Device!Read(SubSeq(vals, 1, 0), p + Len(F(0)))
      BY <2>1, <2>2, <2>4, Zenon
    <2> QED
      BY <2>5
  <1>2. ASSUME NEW k \in T PROVE k + 1 \in T
    <2>0. k \in Nat /\ k + 1 \in Nat
      OBVIOUS
    <2> SUFFICES ASSUME k + 1 <= n, At(buf, p, F(k + 1))
                 PROVE  R(k + 1) = Device!Read(SubSeq(vals, 1, k + 1), p + Len(F(k + 1)))
      BY <2>0, Zenon
    <2>1. At(buf, p, F(k)) => R(k) = Device!Read(SubSeq(vals, 1, k), p + Len(F(k)))
      BY <2>0
    <2> HIDE DEF T, F
    <2>2. R(k + 1) = Onto(item, R(k))
      BY <2>0, RepeatNext
    <2> HIDE DEF R
    <2>3. k \in 0 .. n - 1 /\ k \in 0 .. n /\ k + 1 \in 1 .. n /\ 1 \in 1 .. n
      BY <2>0
    <2>4. PICK f \in Seq(Octet), x \in Seq(Octet) : f = F(k) /\ x = pieces[k + 1] /\ F(k + 1) = f \o x
      BY <1>0, <2>3
    <2>a. At(buf, p, f \o x)
      BY <2>4, Zenon
    <2>5. At(buf, p, f) /\ At(buf, p + Len(f), x) /\ p + Len(f) \in Nat /\ p + Len(f \o x) = p + Len(f) + Len(x)
      <3> HIDE <2>2, <2>3
      <3>1. buf \in Seq(Octet) /\ p \in Nat /\ f \in Seq(Octet) /\ x \in Seq(Octet)
        OBVIOUS
      <3>2. At(buf, p, f) /\ At(buf, p + Len(f), x)
        BY ONLY <2>a, <3>1, AtConcat
      <3>3. p + Len(f) \in Nat /\ p + Len(f \o x) = p + Len(f) + Len(x)
        BY ONLY <2>a, <3>1, AtConcat
      <3> QED
        BY <3>2, <3>3
    <2>6. PICK q \in 0 .. Len(buf) : q = p + Len(f)
      <3>1. PICK q \in Nat, l \in Nat, L \in Nat : q = p + Len(f) /\ l = Len(x) /\ L = Len(buf)
        BY <2>5
      <3>2. q + l <= L
        BY <2>5, <3>1 DEF At
      <3>3. q \in 0 .. L
        BY <3>1, <3>2
      <3> QED
        BY <3>1, <3>3, Zenon
    <2>7. item[q] = Device!Read(vals[k + 1], q + Len(x))
      BY <2>3, <2>4, <2>5, <2>6 DEF ReadsPieces
    <2>8. R(k) = Device!Read(SubSeq(vals, 1, k), q)
      BY <2>1, <2>4, <2>5, <2>6, Zenon
    <2>9. R(k + 1) = Device!Read(Append(SubSeq(vals, 1, k), vals[k + 1]), q + Len(x))
      <3>a. PICK vs, v, end : vs = SubSeq(vals, 1, k) /\ v = vals[k + 1] /\ end = q + Len(x)
        OBVIOUS
      <3>b. R(k) = Device!Read(vs, q) /\ item[q] = Device!Read(v, end)
        BY <2>7, <2>8, <3>a, Zenon
      <3>1. /\ R(k).ok = TRUE /\ R(k).val = SubSeq(vals, 1, k) /\ R(k).pos = q
            /\ item[q].ok = TRUE /\ item[q].val = vals[k + 1] /\ item[q].pos = q + Len(x)
        <4>1. Device!Read(vs, q).ok = TRUE /\ Device!Read(vs, q).val = vs /\ Device!Read(vs, q).pos = q
          BY ReadFields, Zenon
        <4>2. Device!Read(v, end).ok = TRUE /\ Device!Read(v, end).val = v /\ Device!Read(v, end).pos = end
          BY ReadFields, Zenon
        <4> QED
          BY <3>a, <3>b, <4>1, <4>2, Zenon
      <3> QED
        BY <2>2, <3>1, Zenon DEF Onto
    <2>10. Append(SubSeq(vals, 1, k), vals[k + 1]) = SubSeq(vals, 1, k + 1)
      <3>1. SubSeq(vals, 1, k + 1) = SubSeq(vals, 1, (k + 1) - 1) \o <<vals[k + 1]>>
        BY <2>3, SubSeqRecursiveSecond
      <3>2. SubSeq(vals, 1, k) \in Seq(V) /\ vals[k + 1] \in V /\ (k + 1) - 1 = k
        BY <2>0, <2>3, PrefixType, ElementOfSeq
      <3> QED
        BY <3>1, <3>2, AppendIsConcat
    <2>11. q + Len(x) = p + Len(F(k + 1))
      BY <2>4, <2>5, <2>6, Zenon
    <2> QED
      BY <2>9, <2>10, <2>11, Zenon
  <1> HIDE DEF T, F, R
  <1>3. T = Nat
    BY <1>1, <1>2, Induction DEF T
  <1>4. R(n) = Device!Read(SubSeq(vals, 1, n), p + Len(F(n)))
    <2>1. n \in T /\ n <= n
      BY <1>3
    <2>2. At(buf, p, F(n))
      BY <1>0, Zenon
    <2> QED
      BY <2>1, <2>2, Zenon DEF T
  <1>5. SubSeq(vals, 1, n) = vals
    BY SubSeqFull
  <1> QED
    BY <1>0, <1>4, <1>5 DEF R

\* Pieces that lie one behind the other: each of them lies behind those before it.
LEMMA PieceAt ==
    ASSUME NEW buf \in Seq(Octet), NEW pieces \in Seq(Seq(Octet)), NEW p \in Nat,
           At(buf, p, FlattenSeq(pieces)), NEW k \in 0 .. Len(pieces) - 1
    PROVE  /\ p + Len(UpTo(pieces, k)) \in Nat
           /\ At(buf, p + Len(UpTo(pieces, k)), pieces[k + 1])
  <1> DEFINE F(j) == UpTo(pieces, j)
             T == {d \in Nat : \A j \in 0 .. Len(pieces) : j + d = Len(pieces) => At(buf, p, F(j))}
  <1>0. PICK n \in Nat : n = Len(pieces)
    OBVIOUS
  <1>1. /\ F(n) = FlattenSeq(pieces)
        /\ \A j \in 0 .. n : F(j) \in Seq(Octet)
        /\ \A j \in 0 .. n - 1 : pieces[j + 1] \in Seq(Octet) /\ F(j + 1) = F(j) \o pieces[j + 1]
    BY <1>0, UpToStep
  <1> HIDE DEF F
  <1>2. 0 \in T
    <2>1. \A j \in 0 .. n : j + 0 = n => j = n
      OBVIOUS
    <2>2. At(buf, p, F(n))
      BY <1>1, Zenon
    <2>3. \A j \in 0 .. n : j + 0 = n => At(buf, p, F(j))
      BY <2>1, <2>2, Zenon
    <2> QED
      BY <1>0, <2>3
  <1>3. ASSUME NEW d \in T PROVE d + 1 \in T
    <2>1. d \in Nat /\ \A j \in 0 .. n : j + d = n => At(buf, p, F(j))
      BY <1>0
    <2>2. ASSUME NEW j \in 0 .. n, j + (d + 1) = n PROVE At(buf, p, F(j))
      <3>1. j \in 0 .. n - 1 /\ j + 1 \in 0 .. n /\ (j + 1) + d = n
        BY <2>1, <2>2
      <3>2. At(buf, p, F(j + 1))
        BY <2>1, <3>1
      <3>3. PICK f \in Seq(Octet), x \in Seq(Octet) : f = F(j) /\ x = pieces[j + 1] /\ F(j + 1) = f \o x
        BY <1>1, <3>1
      <3>4. At(buf, p, f \o x)
        BY <3>2, <3>3, Zenon
      <3>5. At(buf, p, f)
        <4> HIDE DEF T
        <4>1. buf \in Seq(Octet) /\ p \in Nat /\ f \in Seq(Octet) /\ x \in Seq(Octet)
          OBVIOUS
        <4> QED
          BY ONLY <3>4, <4>1, AtConcat
      <3> QED
        BY <3>3, <3>5, Zenon
    <2>3. d + 1 \in Nat
      BY <2>1
    <2> QED
      BY <1>0, <2>2, <2>3
  <1>4. T = Nat
    <2> HIDE DEF T
    <2>1. T \in SUBSET Nat
      BY DEF T
    <2> QED
      BY <1>2, <1>3, <2>1, Induction
  <1>5. PICK d \in Nat : k \in 0 .. n - 1 /\ k + 1 \in 0 .. n /\ (k + 1) + d = n
    <2>1. k \in 0 .. n - 1 /\ n - (k + 1) \in Nat /\ k + 1 \in 0 .. n /\ (k + 1) + (n - (k + 1)) = n
      BY <1>0
    <2> QED
      BY <2>1
  <1>6. At(buf, p, F(k + 1))
    BY <1>0, <1>4, <1>5
  <1> HIDE DEF T
  <1>7. PICK f \in Seq(Octet), x \in Seq(Octet) : f = F(k) /\ x = pieces[k + 1] /\ F(k + 1) = f \o x
    <2>1. F(k) \in Seq(Octet)
      <3>1. k \in 0 .. n
        BY <1>5
      <3> QED
        BY <1>1, <3>1
    <2>2. pieces[k + 1] \in Seq(Octet) /\ F(k + 1) = F(k) \o pieces[k + 1]
      BY <1>1, <1>5, Zenon
    <2> QED
      BY <2>1, <2>2, Zenon
  <1>8. At(buf, p, f \o x)
    BY <1>6, <1>7, Zenon
  <1>9. At(buf, p + Len(f), x) /\ p + Len(f) \in Nat
    <2>1. buf \in Seq(Octet) /\ p \in Nat /\ f \in Seq(Octet) /\ x \in Seq(Octet)
      OBVIOUS
    <2> QED
      BY ONLY <1>8, <2>1, AtConcat
  <1> QED
    BY <1>7, <1>9, Zenon DEF F

\* The pieces a sequence of steps, bindings, profiles or offsets is written in.
StepPieces(s) == [i \in DOMAIN s |-> Device!encode_step(s[i])]
\* Bindings, profiles and words, each encoded.
BindingPieces(s) == [i \in DOMAIN s |-> Device!encode_binding(s[i])]
ProfilePieces(s) == [i \in 1 .. Len(s) |-> Device!encode_profile(s[i])]
WordPieces(s) == [i \in DOMAIN s |-> Device!AppendUint16(s[i])]

\* What is joined by Joined is flattened from the pieces.
LEMMA JoinedPieces ==
    /\ \A s : Device!Joined(Device!encode_step, s) = FlattenSeq(StepPieces(s))
    /\ \A s : Device!Joined(Device!encode_binding, s) = FlattenSeq(BindingPieces(s))
    /\ \A s : Device!Joined(Device!AppendUint16, s) = FlattenSeq(WordPieces(s))
  <1>1. \A s : Device!Joined(Device!encode_step, s) = Device!FlattenSeq(StepPieces(s))
    BY Zenon DEF Device!Joined, StepPieces
  <1>2. \A s : Device!Joined(Device!encode_binding, s) = Device!FlattenSeq(BindingPieces(s))
    BY Zenon DEF Device!Joined, BindingPieces
  <1>3. \A s : Device!Joined(Device!AppendUint16, s) = Device!FlattenSeq(WordPieces(s))
    BY Zenon DEF Device!Joined, WordPieces
  <1> QED
    BY <1>1, <1>2, <1>3, FlattensAlike, Zenon

\* Writing, record by record.
LEMMA WrittenAs ==
    /\ \A k, m : Device!encode_step(Device!KeyStep(k, m)) = <<0>> \o <<k, m>>
    /\ \A t : Device!encode_step(Device!TextStep(t)) = <<1>> \o (<<Len(t)>> \o t)
    /\ \A v : Device!encode_step(Device!ConsumerStep(v)) = <<2>> \o Device!AppendUint16(v)
    /\ \A v : Device!encode_step(Device!DelayStep(v)) = <<3>> \o Device!AppendUint16(v)
  <1>1. ASSUME NEW k, NEW m PROVE Device!encode_step(Device!KeyStep(k, m)) = <<0>> \o <<k, m>>
    BY DEF Device!encode_step, Device!KeyStep, Device!STEP_KEY, Device!STEP_TEXT,
       Device!STEP_CONSUMER, Device!STEP_DELAY
  <1>2. ASSUME NEW t PROVE Device!encode_step(Device!TextStep(t)) = <<1>> \o (<<Len(t)>> \o t)
    BY DEF Device!encode_step, Device!TextStep, Device!STEP_KEY, Device!STEP_TEXT,
       Device!STEP_CONSUMER, Device!STEP_DELAY
  <1>3. ASSUME NEW v PROVE Device!encode_step(Device!ConsumerStep(v)) = <<2>> \o Device!AppendUint16(v)
    BY DEF Device!encode_step, Device!ConsumerStep, Device!STEP_KEY, Device!STEP_TEXT,
       Device!STEP_CONSUMER, Device!STEP_DELAY
  <1>4. ASSUME NEW v PROVE Device!encode_step(Device!DelayStep(v)) = <<3>> \o Device!AppendUint16(v)
    BY DEF Device!encode_step, Device!DelayStep, Device!STEP_KEY, Device!STEP_TEXT,
       Device!STEP_CONSUMER, Device!STEP_DELAY
  <1> QED
    BY <1>1, <1>2, <1>3, <1>4

\* Numbers up to 255 are octets.
LEMMA OctetIs == \A l \in Nat : l <= 255 => l \in Octet
  BY DEF Octet

\* A step is one of the four.
LEMMA StepsAreOfFourKinds ==
    ASSUME NEW s \in RunStep
    PROVE  \/ \E k \in Octet, m \in Octet : s = Device!KeyStep(k, m)
           \/ \E t \in Seq(Octet) : s = Device!TextStep(t) /\ Len(t) \in Octet /\ Device!Utf8(t)
           \/ \E v \in Words : s = Device!ConsumerStep(v)
           \/ \E v \in Words : s = Device!DelayStep(v)
  <1>1. CASE s \in [type : {0}, keycode : Octet, mods : Octet]
    <2>1. s = [type |-> 0, keycode |-> s.keycode, mods |-> s.mods] /\ s.keycode \in Octet /\ s.mods \in Octet
      BY <1>1
    <2> QED
      BY <2>1, Zenon DEF Device!KeyStep, Device!STEP_KEY
  <1>2. CASE s \in [type : {1}, text : Seq(Ascii)]
    <2>1. s = [type |-> 1, text |-> s.text] /\ s.text \in Seq(Ascii) /\ s.type = 1
      BY <1>2
    <2>2. PICK t \in Seq(Ascii) : t = s.text /\ Len(t) <= 255
      BY <2>1 DEF RunStep
    <2>3. t \in Seq(Octet)
      <3>1. Ascii \subseteq Octet
        BY DEF Ascii, Octet
      <3> QED
        BY <3>1, SeqMonotonic
    <2>4. Len(t) \in Octet
      <3>1. PICK l \in Nat : l = Len(t) /\ l <= 255
        BY <2>2
      <3>2. l \in Octet
        BY <3>1, OctetIs
      <3> QED
        BY <3>1, <3>2, Zenon
    <2>5. Device!Utf8(t)
      <3>1. \A i \in DOMAIN t : t[i] \in Ascii
        BY ElementOfSeq
      <3>2. \A x \in Ascii : x < 128
        BY DEF Ascii
      <3> QED
        BY <3>1, <3>2, Zenon DEF Device!Utf8
    <2>6. s = Device!TextStep(t)
      BY <2>1, <2>2, Zenon DEF Device!TextStep, Device!STEP_TEXT
    <2> QED
      BY <2>3, <2>4, <2>5, <2>6, Zenon
  <1>3. CASE s \in [type : {2}, consumer : Words]
    <2>1. s = [type |-> 2, consumer |-> s.consumer] /\ s.consumer \in Words
      BY <1>3
    <2> QED
      BY <2>1, Zenon DEF Device!ConsumerStep, Device!STEP_CONSUMER
  <1>4. CASE s \in [type : {3}, delay_ms : Words]
    <2>1. s = [type |-> 3, delay_ms |-> s.delay_ms] /\ s.delay_ms \in Words
      BY <1>4
    <2> QED
      BY <2>1, Zenon DEF Device!DelayStep, Device!STEP_DELAY
  <1> QED
    BY <1>1, <1>2, <1>3, <1>4, Zenon DEF RunStep, Step

\* Octets behind octets are octets.
LEMMA ConcatOctets ==
    ASSUME NEW s \in Seq(Octet), NEW t \in Seq(Octet)
    PROVE  s \o t \in Seq(Octet)
  OBVIOUS

\* A step is encoded to octets.
LEMMA StepBytes ==
    ASSUME NEW s \in RunStep
    PROVE  Device!encode_step(s) \in Seq(Octet)
  <1>0. 0 \in Octet /\ 1 \in Octet /\ 2 \in Octet /\ 3 \in Octet
    BY DEF Octet
  <1>1. CASE \E k \in Octet, m \in Octet : s = Device!KeyStep(k, m)
    <2>1. PICK k \in Octet, m \in Octet : s = Device!KeyStep(k, m)
      BY <1>1
    <2>2. <<0>> \in Seq(Octet) /\ <<k, m>> \in Seq(Octet)
      BY <1>0
    <2>3. <<0>> \o <<k, m>> \in Seq(Octet)
      BY <2>2, ConcatOctets
    <2> QED
      BY <2>1, <2>3, WrittenAs, Zenon
  <1>2. CASE \E t \in Seq(Octet) : s = Device!TextStep(t) /\ Len(t) \in Octet /\ Device!Utf8(t)
    <2>1. PICK t \in Seq(Octet) : s = Device!TextStep(t) /\ Len(t) \in Octet
      BY <1>2
    <2>2. <<1>> \in Seq(Octet) /\ <<Len(t)>> \in Seq(Octet)
      BY <1>0, <2>1
    <2>3. <<1>> \o (<<Len(t)>> \o t) \in Seq(Octet)
      BY <2>2, ConcatOctets
    <2> QED
      BY <2>1, <2>3, WrittenAs, Zenon
  <1>3. CASE \E v \in Words : s = Device!ConsumerStep(v)
    <2>1. PICK v \in Words : s = Device!ConsumerStep(v)
      BY <1>3
    <2>2. <<2>> \in Seq(Octet) /\ Device!AppendUint16(v) \in Seq(Octet)
      BY <1>0, Uint16Bytes
    <2>3. <<2>> \o Device!AppendUint16(v) \in Seq(Octet)
      BY <2>2, ConcatOctets
    <2> QED
      BY <2>1, <2>3, WrittenAs, Zenon
  <1>4. CASE \E v \in Words : s = Device!DelayStep(v)
    <2>1. PICK v \in Words : s = Device!DelayStep(v)
      BY <1>4
    <2>2. <<3>> \in Seq(Octet) /\ Device!AppendUint16(v) \in Seq(Octet)
      BY <1>0, Uint16Bytes
    <2>3. <<3>> \o Device!AppendUint16(v) \in Seq(Octet)
      BY <2>2, ConcatOctets
    <2> QED
      BY <2>1, <2>3, WrittenAs, Zenon
  <1> QED
    BY <1>1, <1>2, <1>3, <1>4, StepsAreOfFourKinds

\* A byte and what follows it.
LEMMA ByteThen ==
    ASSUME NEW buf \in Seq(Octet), NEW p \in Nat, NEW b \in Octet, NEW s \in Seq(Octet), At(buf, p, <<b>> \o s)
    PROVE  /\ Device!ReadU8(buf, p) = Device!Read(b, p + 1)
           /\ p + 1 \in Nat /\ At(buf, p + 1, s)
           /\ p + Len(<<b>> \o s) = (p + 1) + Len(s)
  <1>1. PICK t \in Seq(Octet) : t = <<b>> /\ Len(t) = 1
    <2>1. <<b>> \in Seq(Octet) /\ Len(<<b>>) = 1
      OBVIOUS
    <2> QED
      BY <2>1, Zenon
  <1>2. At(buf, p, t \o s)
    BY <1>1, Zenon
  <1>3. buf \in Seq(Octet) /\ p \in Nat /\ t \in Seq(Octet) /\ s \in Seq(Octet)
    OBVIOUS
  <1>4. At(buf, p, t) /\ At(buf, p + Len(t), s)
    BY ONLY <1>2, <1>3, AtConcat
  <1>5. p + Len(t \o s) = p + Len(t) + Len(s)
    BY ONLY <1>2, <1>3, AtConcat
  <1>6. At(buf, p, <<b>>)
    BY <1>1, <1>4, Zenon
  <1>7. Device!ReadU8(buf, p) = Device!Read(b, p + 1)
    BY <1>6, U8At
  <1>8. p + Len(t) = p + 1
    BY <1>1
  <1> QED
    BY <1>1, <1>4, <1>5, <1>7, <1>8

\* Where an encoded step stands, it is read.
LEMMA StepAt ==
    ASSUME NEW buf \in Seq(Octet), NEW p \in Nat, NEW s \in RunStep, At(buf, p, Device!encode_step(s))
    PROVE  Device!decode_step(buf, p) = Device!Read(s, p + Len(Device!encode_step(s)))
  <1>0. 0 \in Octet /\ 1 \in Octet /\ 2 \in Octet /\ 3 \in Octet
    BY DEF Octet
  <1>1. CASE \E k \in Octet, m \in Octet : s = Device!KeyStep(k, m)
    <2>1. PICK k \in Octet, m \in Octet : s = Device!KeyStep(k, m)
      BY <1>1
    <2>2. PICK w \in Seq(Octet) : w = <<k, m>> /\ Len(w) = 2 /\ w[1] = k /\ w[2] = m
      <3>1. <<k, m>> \in Seq(Octet) /\ Len(<<k, m>>) = 2 /\ <<k, m>>[1] = k /\ <<k, m>>[2] = m
        OBVIOUS
      <3> QED
        BY <3>1, Zenon
    <2>3. Device!encode_step(s) = <<0>> \o w
      BY <2>1, <2>2, WrittenAs, Zenon
    <2>4. /\ Device!ReadU8(buf, p) = Device!Read(0, p + 1)
          /\ p + 1 \in Nat /\ At(buf, p + 1, w)
          /\ p + Len(<<0>> \o w) = (p + 1) + Len(w)
      BY <1>0, <2>3, ByteThen
    <2>5. Device!Take(buf, p + 1, 2) = Device!Read(w, (p + 1) + 2)
      BY <2>2, <2>4, TakeAt
    <2>6. PICK t : t = Device!ReadU8(buf, p) /\ t.ok = TRUE /\ t.val = 0 /\ t.pos = p + 1
      BY <2>4, ReadFields
    <2>7. PICK x : x = Device!Take(buf, t.pos, 2) /\ x.ok = TRUE /\ x.val = w /\ x.pos = (p + 1) + 2
      BY <2>5, <2>6, ReadFields
    <2>8. Device!decode_step(buf, p) = IF x.ok THEN Device!Read(Device!KeyStep(x.val[1], x.val[2]), x.pos) ELSE x
      BY <2>6, <2>7, DeviceStep
    <2>9. Device!decode_step(buf, p) = Device!Read(s, (p + 1) + 2)
      BY <2>1, <2>2, <2>7, <2>8, Zenon
    <2> QED
      BY <2>2, <2>3, <2>4, <2>9, Zenon
  <1>2. CASE \E t \in Seq(Octet) : s = Device!TextStep(t) /\ Len(t) \in Octet /\ Device!Utf8(t)
    <2>1. PICK w \in Seq(Octet) : s = Device!TextStep(w) /\ Len(w) \in Octet /\ Device!Utf8(w)
      BY <1>2
    <2>2. PICK m \in Octet : m = Len(w) /\ m \in Nat
      BY <2>1
    <2>a. PICK u \in Seq(Octet) : u = <<m>> \o w
      <3>1. <<m>> \in Seq(Octet)
        OBVIOUS
      <3> QED
        BY <3>1, ConcatOctets
    <2>3. Device!encode_step(s) = <<1>> \o u
      BY <2>1, <2>2, <2>a, WrittenAs, Zenon
    <2>4. /\ Device!ReadU8(buf, p) = Device!Read(1, p + 1)
          /\ p + 1 \in Nat /\ At(buf, p + 1, u)
          /\ p + Len(<<1>> \o u) = (p + 1) + Len(u)
      BY <1>0, <2>3, ByteThen
    <2>b. PICK q \in Nat : q = p + 1
      BY <2>4
    <2>c. At(buf, q, <<m>> \o w)
      BY <2>4, <2>a, <2>b, Zenon
    <2>5. /\ Device!ReadU8(buf, q) = Device!Read(m, q + 1)
          /\ q + 1 \in Nat /\ At(buf, q + 1, w)
          /\ q + Len(<<m>> \o w) = (q + 1) + Len(w)
      BY <2>c, ByteThen
    <2>6. Device!Take(buf, q + 1, m) = Device!Read(w, (q + 1) + m)
      BY <2>2, <2>5, TakeAt
    <2>7. PICK t : t = Device!ReadU8(buf, p) /\ t.ok = TRUE /\ t.val = 1 /\ t.pos = q
      BY <2>4, <2>b, ReadFields
    <2>8. PICK n : n = Device!ReadU8(buf, t.pos) /\ n.ok = TRUE /\ n.val = m /\ n.pos = q + 1
      BY <2>5, <2>7, ReadFields
    <2>9. PICK x : x = Device!Take(buf, n.pos, n.val) /\ x.ok = TRUE /\ x.val = w /\ x.pos = (q + 1) + m
      BY <2>6, <2>8, ReadFields
    <2>10. Device!decode_step(buf, p)
             = IF Device!Utf8(x.val) THEN Device!Read(Device!TextStep(x.val), x.pos) ELSE Device!Refuse
      BY <2>7, <2>8, <2>9, DeviceStep
    <2>11. Device!decode_step(buf, p) = Device!Read(s, (q + 1) + m)
      BY <2>1, <2>9, <2>10, Zenon
    <2>12. p + Len(Device!encode_step(s)) = (q + 1) + m
      BY <2>2, <2>3, <2>4, <2>5, <2>a, <2>b, Zenon
    <2> QED
      BY <2>11, <2>12, Zenon
  <1>3. CASE \E v \in Words : s = Device!ConsumerStep(v)
    <2>1. PICK v \in Words : s = Device!ConsumerStep(v)
      BY <1>3
    <2>2. PICK w \in Seq(Octet) : w = Device!AppendUint16(v) /\ Len(w) = 2
      BY Uint16Bytes
    <2>3. Device!encode_step(s) = <<2>> \o w
      BY <2>1, <2>2, WrittenAs, Zenon
    <2>4. /\ Device!ReadU8(buf, p) = Device!Read(2, p + 1)
          /\ p + 1 \in Nat /\ At(buf, p + 1, w)
          /\ p + Len(<<2>> \o w) = (p + 1) + Len(w)
      BY <1>0, <2>3, ByteThen
    <2>5. Device!ReadU16(buf, p + 1) = Device!Read(v, (p + 1) + 2)
      BY <2>2, <2>4, U16At
    <2>6. PICK t : t = Device!ReadU8(buf, p) /\ t.ok = TRUE /\ t.val = 2 /\ t.pos = p + 1
      BY <2>4, ReadFields
    <2>7. PICK x : x = Device!ReadU16(buf, t.pos) /\ x.ok = TRUE /\ x.val = v /\ x.pos = (p + 1) + 2
      BY <2>5, <2>6, ReadFields
    <2>8. Device!decode_step(buf, p) = IF x.ok THEN Device!Read(Device!ConsumerStep(x.val), x.pos) ELSE x
      BY <2>6, <2>7, DeviceStep
    <2>9. Device!decode_step(buf, p) = Device!Read(s, (p + 1) + 2)
      BY <2>1, <2>7, <2>8, Zenon
    <2> QED
      BY <2>2, <2>3, <2>4, <2>9, Zenon
  <1>4. CASE \E v \in Words : s = Device!DelayStep(v)
    <2>1. PICK v \in Words : s = Device!DelayStep(v)
      BY <1>4
    <2>2. PICK w \in Seq(Octet) : w = Device!AppendUint16(v) /\ Len(w) = 2
      BY Uint16Bytes
    <2>3. Device!encode_step(s) = <<3>> \o w
      BY <2>1, <2>2, WrittenAs, Zenon
    <2>4. /\ Device!ReadU8(buf, p) = Device!Read(3, p + 1)
          /\ p + 1 \in Nat /\ At(buf, p + 1, w)
          /\ p + Len(<<3>> \o w) = (p + 1) + Len(w)
      BY <1>0, <2>3, ByteThen
    <2>5. Device!ReadU16(buf, p + 1) = Device!Read(v, (p + 1) + 2)
      BY <2>2, <2>4, U16At
    <2>6. PICK t : t = Device!ReadU8(buf, p) /\ t.ok = TRUE /\ t.val = 3 /\ t.pos = p + 1
      BY <2>4, ReadFields
    <2>7. PICK x : x = Device!ReadU16(buf, t.pos) /\ x.ok = TRUE /\ x.val = v /\ x.pos = (p + 1) + 2
      BY <2>5, <2>6, ReadFields
    <2>8. Device!decode_step(buf, p) = IF x.ok THEN Device!Read(Device!DelayStep(x.val), x.pos) ELSE x
      BY <2>6, <2>7, DeviceStep
    <2>9. Device!decode_step(buf, p) = Device!Read(s, (p + 1) + 2)
      BY <2>1, <2>7, <2>8, Zenon
    <2> QED
      BY <2>2, <2>3, <2>4, <2>9, Zenon
  <1> QED
    BY <1>1, <1>2, <1>3, <1>4, StepsAreOfFourKinds

\* What is written of a binding, field by field.
LEMMA BindingWritten ==
    ASSUME NEW b
    PROVE  Device!encode_binding(b) = (b.color \o <<Len(b.steps)>>) \o FlattenSeq(StepPieces(b.steps))
  BY JoinedPieces, Zenon DEF Device!encode_binding

\* Steps are encoded to octets, one by one.
LEMMA StepPiecesType ==
    ASSUME NEW s \in Seq(RunStep)
    PROVE  /\ StepPieces(s) \in Seq(Seq(Octet)) /\ Len(StepPieces(s)) = Len(s)
           /\ \A i \in 1 .. Len(s) : StepPieces(s)[i] = Device!encode_step(s[i])
           /\ FlattenSeq(StepPieces(s)) \in Seq(Octet)
  <1>1. PICK n \in Nat : n = Len(s) /\ DOMAIN s = 1 .. n
    OBVIOUS
  <1> DEFINE h(i) == Device!encode_step(s[i])
  <1>2. \A i \in 1 .. n : h(i) \in Seq(Octet)
    <2>1. \A i \in 1 .. n : s[i] \in RunStep
      BY <1>1, ElementOfSeq
    <2> QED
      BY <2>1, StepBytes
  <1>3. StepPieces(s) = [i \in 1 .. n |-> h(i)]
    BY <1>1, Zenon DEF StepPieces
  <1> HIDE DEF h
  <1>4. /\ StepPieces(s) \in Seq(Seq(Octet)) /\ Len(StepPieces(s)) = n
        /\ \A i \in 1 .. n : StepPieces(s)[i] = h(i)
    BY <1>2, <1>3
  <1>5. FlattenSeq(StepPieces(s)) \in Seq(Octet)
    BY <1>4, FlattenType
  <1> QED
    BY <1>1, <1>4, <1>5, Zenon DEF h

\* What keeps a limit of the format fits a byte.
LEMMA LimitOctet ==
    ASSUME NEW n \in Nat, NEW m \in {MAX_PROFILES, MAX_NAME_LEN, MAX_SLOTS, MAX_STEPS, MAX_TEXT_LEN}, n <= m
    PROVE  n \in Octet
  <1>1. m \in Nat /\ m < 256
    BY FormatAssumption
  <1>2. n <= 255
    BY <1>1
  <1> QED
    BY <1>2, OctetIs

\* The parts of a binding that runs.
LEMMA BindingParts ==
    ASSUME NEW b \in RunBinding
    PROVE  /\ b.color \in Seq(Octet) /\ Len(b.color) = 3
           /\ b.steps \in Seq(RunStep) /\ Len(b.steps) \in Octet /\ Len(b.steps) \in Nat /\ Len(b.steps) <= MAX_STEPS
           /\ b = [color |-> b.color, steps |-> b.steps]
  <1>1. b \in [color : Colour, steps : Seq(RunStep)] /\ Len(b.steps) <= MAX_STEPS
    BY DEF RunBinding
  <1>2. b.color \in Colour /\ b.steps \in Seq(RunStep) /\ b = [color |-> b.color, steps |-> b.steps]
    BY <1>1
  <1>3. PICK n \in Nat : n = Len(b.steps)
    BY <1>2
  <1>4. n \in Octet
    BY <1>1, <1>3, LimitOctet
  <1> QED
    BY <1>1, <1>2, <1>3, <1>4, Zenon DEF Colour

\* A binding is encoded to octets.
LEMMA BindingBytes ==
    ASSUME NEW b \in RunBinding
    PROVE  Device!encode_binding(b) \in Seq(Octet)
  <1>1. PICK col \in Seq(Octet), n \in Octet, ss \in Seq(Octet) :
            col = b.color /\ n = Len(b.steps) /\ ss = FlattenSeq(StepPieces(b.steps))
    BY BindingParts, StepPiecesType
  <1>2. <<n>> \in Seq(Octet)
    OBVIOUS
  <1>3. (col \o <<n>>) \o ss \in Seq(Octet)
    BY <1>2, ConcatOctets
  <1> QED
    BY <1>1, <1>3, BindingWritten, Zenon

\* The fourth of four bytes, and the three before it.
LEMMA FourBytes ==
    ASSUME NEW c \in Seq(Octet), Len(c) = 3, NEW n \in Octet
    PROVE  /\ c \o <<n>> \in Seq(Octet) /\ Len(c \o <<n>>) = 4
           /\ (c \o <<n>>)[4] = n /\ SubSeq(c \o <<n>>, 1, 3) = c
  <1>1. PICK w \in Seq(Octet) : w = c \o <<n>> /\ Len(w) = 4 /\ w[4] = n /\ \A i \in 1 .. 3 : w[i] = c[i]
    <2>1. PICK x \in Seq(Octet) : x = <<n>> /\ Len(x) = 1 /\ x[1] = n
      <3>1. <<n>> \in Seq(Octet) /\ Len(<<n>>) = 1 /\ <<n>>[1] = n
        OBVIOUS
      <3> QED
        BY <3>1, Zenon
    <2>2. /\ c \o x \in Seq(Octet) /\ Len(c \o x) = 3 + 1
          /\ \A i \in 1 .. 3 + 1 : (c \o x)[i] = IF i <= 3 THEN c[i] ELSE x[i - 3]
      <3>1. /\ c \o x \in Seq(Octet) /\ Len(c \o x) = Len(c) + Len(x)
            /\ \A i \in 1 .. Len(c) + Len(x) : (c \o x)[i] = IF i <= Len(c) THEN c[i] ELSE x[i - Len(c)]
        BY ConcatProperties, Zenon
      <3> QED
        BY <2>1, <3>1, Zenon
    <2>3. PICK w \in Seq(Octet) : w = c \o x
      BY <2>2
    <2>4. Len(w) = 4 /\ w[4] = n /\ \A i \in 1 .. 3 : w[i] = c[i]
      BY <2>1, <2>2, <2>3
    <2> QED
      BY <2>1, <2>3, <2>4, Zenon
  <1>2. 3 \in Nat /\ 3 <= Len(w)
    BY <1>1
  <1>3. PICK u \in Seq(Octet) : u = SubSeq(w, 1, 3) /\ Len(u) = 3 /\ \A i \in 1 .. 3 : u[i] = w[i]
    <2>1. SubSeq(w, 1, 3) \in Seq(Octet) /\ Len(SubSeq(w, 1, 3)) = 3 /\ \A i \in 1 .. 3 : SubSeq(w, 1, 3)[i] = w[i]
      BY <1>2, PrefixType
    <2> QED
      BY <2>1, Zenon
  <1>4. u = c
    <2>1. Len(u) = Len(c) /\ \A i \in 1 .. Len(u) : u[i] = c[i]
      BY <1>1, <1>3
    <2> QED
      BY <2>1, SeqEqual
  <1> QED
    BY <1>1, <1>3, <1>4, Zenon

\* Where an encoded binding stands, it is read.
LEMMA BindingAt ==
    ASSUME NEW buf \in Seq(Octet), NEW p \in Nat, NEW b \in RunBinding, At(buf, p, Device!encode_binding(b))
    PROVE  Device!decode_binding(buf, p) = Device!Read(b, p + Len(Device!encode_binding(b)))
  <1>1. PICK col \in Seq(Octet), n \in Octet, ss \in Seq(Octet), pieces \in Seq(Seq(Octet)), steps \in Seq(RunStep) :
            /\ col = b.color /\ Len(col) = 3 /\ n = Len(steps) /\ ss = FlattenSeq(pieces)
            /\ steps = b.steps /\ pieces = StepPieces(steps)
    BY BindingParts, StepPiecesType
  <1>2. PICK w \in Seq(Octet) : w = col \o <<n>> /\ Len(w) = 4 /\ w[4] = n /\ SubSeq(w, 1, 3) = col
    BY <1>1, FourBytes
  <1>3. Device!encode_binding(b) = w \o ss
    BY <1>1, <1>2, BindingWritten, Zenon
  <1>4. At(buf, p, w \o ss)
    BY <1>3, Zenon
  <1>5. buf \in Seq(Octet) /\ p \in Nat /\ w \in Seq(Octet) /\ ss \in Seq(Octet)
    OBVIOUS
  <1>6. At(buf, p, w) /\ At(buf, p + Len(w), ss) /\ p + Len(w) \in Nat
    BY ONLY <1>4, <1>5, AtConcat
  <1>7. p + Len(w \o ss) = p + Len(w) + Len(ss)
    BY ONLY <1>4, <1>5, AtConcat
  <1>8. PICK q \in Nat : q = p + Len(w) /\ q = p + 4
    BY <1>2, <1>6
  <1>9. Device!Take(buf, p, 4) = Device!Read(w, q)
    <2>1. Device!Take(buf, p, Len(w)) = Device!Read(w, p + Len(w))
      BY <1>6, TakeAt
    <2> QED
      BY <1>2, <1>8, <2>1, Zenon
  <1>10. PICK t : t = Device!Take(buf, p, 4) /\ t.ok = TRUE /\ t.val = w /\ t.pos = q
    BY <1>9, ReadFields
  <1>11. At(buf, q, FlattenSeq(pieces))
    BY <1>1, <1>6, <1>8, Zenon
  <1>12. PICK m \in Nat : m = n /\ Len(steps) = m /\ Len(pieces) = m /\ ~(m > MAX_STEPS)
    <2>1. PICK m \in Nat : m = Len(steps) /\ m <= MAX_STEPS /\ Len(pieces) = m
      BY <1>1, BindingParts, StepPiecesType
    <2>2. ~(m > MAX_STEPS)
      BY <2>1, FormatAssumption
    <2> QED
      BY <1>1, <2>1, <2>2
  <1>13. ReadsPieces(buf, StepItems(buf), steps, pieces, m)
    <2> SUFFICES ASSUME NEW k \in 1 .. m, NEW r \in 0 .. Len(buf), At(buf, r, pieces[k])
                 PROVE  StepItems(buf)[r] = Device!Read(steps[k], r + Len(pieces[k]))
      BY DEF ReadsPieces
    <2>1. PICK s \in RunStep : s = steps[k]
      BY <1>12, ElementOfSeq
    <2>2. pieces[k] = Device!encode_step(s)
      BY <1>1, <1>12, <2>1, StepPiecesType
    <2>3. r \in Nat
      OBVIOUS
    <2>4. At(buf, r, Device!encode_step(s))
      BY <2>2, Zenon
    <2>5. Device!decode_step(buf, r) = Device!Read(s, r + Len(Device!encode_step(s)))
      BY <2>3, <2>4, StepAt
    <2>6. StepItems(buf)[r] = Device!decode_step(buf, r)
      BY DEF StepItems
    <2> QED
      BY <2>1, <2>2, <2>5, <2>6, Zenon
  <1>14. PICK x : x = Device!Repeat(w[4], StepItems(buf), q) /\ x.ok = TRUE /\ x.val = steps /\ x.pos = q + Len(ss)
    <2>1. Device!Repeat(m, StepItems(buf), q) = Device!Read(steps, q + Len(FlattenSeq(pieces)))
      <3>1. buf \in Seq(Octet) /\ steps \in Seq(RunStep) /\ pieces \in Seq(Seq(Octet)) /\ m \in Nat /\ q \in Nat
        OBVIOUS
      <3> QED
        BY ONLY <1>11, <1>12, <1>13, <3>1, RepeatAt
    <2>2. Device!Repeat(w[4], StepItems(buf), q) = Device!Read(steps, q + Len(ss))
      BY <1>1, <1>2, <1>12, <2>1, Zenon
    <2> QED
      BY <2>2, ReadFields
  <1>15. Device!decode_binding(buf, p)
           = IF t.val[4] > MAX_STEPS THEN Device!Refuse
             ELSE IF x.ok THEN Device!Read(TheBinding(t.val, x.val), x.pos) ELSE x
    <2>1. x = Device!Repeat(t.val[4], StepItems(buf), t.pos)
      BY <1>10, <1>14, Zenon
    <2> QED
      BY <1>10, <2>1, DeviceBinding
  <1>16. Device!decode_binding(buf, p) = Device!Read(TheBinding(w, steps), q + Len(ss))
    BY <1>2, <1>10, <1>12, <1>14, <1>15, Zenon
  <1>17. TheBinding(w, steps) = b
    BY <1>1, <1>2, BindingParts, Zenon DEF TheBinding
  <1>18. p + Len(Device!encode_binding(b)) = q + Len(ss)
    BY <1>3, <1>7, <1>8, Zenon
  <1> QED
    BY <1>16, <1>17, <1>18, Zenon

\* The parts of a profile that runs.
LEMMA ProfileParts ==
    ASSUME NEW p \in RunProfile
    PROVE  /\ p.name \in Seq(Octet) /\ Len(p.name) \in Octet /\ Device!Utf8(p.name) /\ Len(p.name) <= MAX_NAME_LEN
           /\ p.dwell_ms \in Words /\ p.tap_max_ms \in Words
           /\ p.overflow \in Octet /\ p.overflow <= 2 /\ p.ext_count \in Octet /\ p.brightness \in Octet
           /\ p.idle_mode \in Octet /\ p.idle_mode <= 3
           /\ p.idle_color \in Seq(Octet) /\ Len(p.idle_color) = 3
           /\ p.tap \in RunBinding /\ p.slots \in Seq(RunBinding)
           /\ Len(p.slots) \in 1 .. MAX_SLOTS /\ Len(p.slots) \in Octet
           /\ p = [name |-> p.name, dwell_ms |-> p.dwell_ms, tap_max_ms |-> p.tap_max_ms,
                   overflow |-> p.overflow, ext_count |-> p.ext_count, brightness |-> p.brightness,
                   idle_mode |-> p.idle_mode, idle_color |-> p.idle_color, tap |-> p.tap, slots |-> p.slots]
  <1>1. /\ p \in [name : Seq(Ascii), dwell_ms : Words, tap_max_ms : Words, overflow : Octet, ext_count : Octet,
                  brightness : Octet, idle_mode : Octet, idle_color : Colour, tap : RunBinding, slots : Seq(RunBinding)]
        /\ Len(p.name) <= MAX_NAME_LEN /\ p.overflow <= 2 /\ p.idle_mode <= 3 /\ Len(p.slots) \in 1 .. MAX_SLOTS
    BY Zenon DEF RunProfile
  <1>2. PICK t \in Seq(Ascii) : t = p.name /\ Len(t) <= MAX_NAME_LEN
    BY <1>1
  <1>3. t \in Seq(Octet)
    <2>1. Ascii \subseteq Octet
      BY DEF Ascii, Octet
    <2> QED
      BY <2>1, SeqMonotonic
  <1>4. Device!Utf8(t)
    <2>1. \A i \in DOMAIN t : t[i] \in Ascii
      BY ElementOfSeq
    <2>2. \A x \in Ascii : x < 128
      BY DEF Ascii
    <2> QED
      BY <2>1, <2>2, Zenon DEF Device!Utf8
  <1>5. Len(t) \in Octet
    <2>1. PICK l \in Nat : l = Len(t) /\ l <= MAX_NAME_LEN
      BY <1>2
    <2>2. l \in Octet
      BY <2>1, LimitOctet
    <2> QED
      BY <2>1, <2>2, Zenon
  <1>6. Len(p.slots) \in Octet
    <2>1. PICK l \in Nat : l = Len(p.slots) /\ l <= MAX_SLOTS
      BY <1>1, FormatAssumption
    <2>2. l \in Octet
      BY <2>1, LimitOctet
    <2> QED
      BY <2>1, <2>2, Zenon
  <1>7. p.idle_color \in Seq(Octet) /\ Len(p.idle_color) = 3
    BY <1>1 DEF Colour
  <1>8. p = [name |-> p.name, dwell_ms |-> p.dwell_ms, tap_max_ms |-> p.tap_max_ms,
             overflow |-> p.overflow, ext_count |-> p.ext_count, brightness |-> p.brightness,
             idle_mode |-> p.idle_mode, idle_color |-> p.idle_color, tap |-> p.tap, slots |-> p.slots]
    BY <1>1
  <1>9. /\ p.dwell_ms \in Words /\ p.tap_max_ms \in Words
        /\ p.overflow \in Octet /\ p.ext_count \in Octet /\ p.brightness \in Octet
        /\ p.idle_mode \in Octet /\ p.tap \in RunBinding /\ p.slots \in Seq(RunBinding)
    BY <1>1
  <1> QED
    BY <1>1, <1>2, <1>3, <1>4, <1>5, <1>6, <1>7, <1>8, <1>9, Zenon

\* Bindings are encoded to octets, one by one.
LEMMA BindingPiecesType ==
    ASSUME NEW s \in Seq(RunBinding)
    PROVE  /\ BindingPieces(s) \in Seq(Seq(Octet)) /\ Len(BindingPieces(s)) = Len(s)
           /\ \A i \in 1 .. Len(s) : BindingPieces(s)[i] = Device!encode_binding(s[i])
           /\ FlattenSeq(BindingPieces(s)) \in Seq(Octet)
  <1>1. PICK n \in Nat : n = Len(s) /\ DOMAIN s = 1 .. n
    OBVIOUS
  <1> DEFINE h(i) == Device!encode_binding(s[i])
  <1>2. \A i \in 1 .. n : h(i) \in Seq(Octet)
    <2>1. \A i \in 1 .. n : s[i] \in RunBinding
      BY <1>1, ElementOfSeq
    <2> QED
      BY <2>1, BindingBytes
  <1>3. BindingPieces(s) = [i \in 1 .. n |-> h(i)]
    BY <1>1, Zenon DEF BindingPieces
  <1> HIDE DEF h
  <1>4. /\ BindingPieces(s) \in Seq(Seq(Octet)) /\ Len(BindingPieces(s)) = n
        /\ \A i \in 1 .. n : BindingPieces(s)[i] = h(i)
    BY <1>2, <1>3
  <1>5. FlattenSeq(BindingPieces(s)) \in Seq(Octet)
    BY <1>4, FlattenType
  <1> QED
    BY <1>1, <1>4, <1>5, Zenon DEF h

\* A sequence stands at its own start.
LEMMA AtItself ==
    ASSUME NEW s \in Seq(Octet)
    PROVE  At(s, 0, s)
  <1>1. PICK n \in Nat : n = Len(s)
    OBVIOUS
  <1>2. 0 + n <= n /\ \A i \in 1 .. n : 0 + i = i
    OBVIOUS
  <1>3. \A i \in 1 .. n : s[0 + i] = s[i]
    BY <1>2, Zenon
  <1> QED
    BY <1>1, <1>2, <1>3, Zenon DEF At

\* Where the first of two is known to be long, the second is found behind it.
LEMMA AtParts ==
    ASSUME NEW buf \in Seq(Octet), NEW p \in Nat, NEW s \in Seq(Octet), NEW t \in Seq(Octet),
           NEW n \in Nat, n = Len(s), At(buf, p, s \o t)
    PROVE  At(buf, p, s) /\ At(buf, p + n, t)
  <1>1. At(buf, p, s) /\ At(buf, p + Len(s), t)
    BY AtConcat
  <1> QED
    BY <1>1, Zenon

\* One octet.
LEMMA Single ==
    ASSUME NEW x \in Octet
    PROVE  <<x>> \in Seq(Octet) /\ Len(<<x>>) = 1 /\ <<x>>[1] = x
  OBVIOUS

\* Four octets.
LEMMA Quadruple ==
    ASSUME NEW a \in Octet, NEW b \in Octet, NEW c \in Octet, NEW d \in Octet
    PROVE  /\ <<a, b, c, d>> \in Seq(Octet) /\ Len(<<a, b, c, d>>) = 4
           /\ <<a, b, c, d>>[1] = a /\ <<a, b, c, d>>[2] = b /\ <<a, b, c, d>>[3] = c /\ <<a, b, c, d>>[4] = d
  OBVIOUS

\* A profile as it is written: its name behind its length, twelve bytes, the tap's binding and the slots'.
Fixed(p) ==
    ((((Device!AppendUint16(p.dwell_ms) \o Device!AppendUint16(p.tap_max_ms))
        \o <<p.overflow, p.ext_count, p.brightness, p.idle_mode>>) \o p.idle_color) \o <<Len(p.slots)>>)

\* The fixed fields are twelve, and each is where it is read.
LEMMA FixedFields ==
    ASSUME NEW p \in RunProfile
    PROVE  /\ Fixed(p) \in Seq(Octet) /\ Len(Fixed(p)) = 12
           /\ Device!u16(Fixed(p), 0) = p.dwell_ms /\ Device!u16(Fixed(p), 2) = p.tap_max_ms
           /\ Fixed(p)[5] = p.overflow /\ Fixed(p)[6] = p.ext_count /\ Fixed(p)[7] = p.brightness
           /\ Fixed(p)[8] = p.idle_mode /\ SubSeq(Fixed(p), 9, 11) = p.idle_color
           /\ Fixed(p)[12] = Len(p.slots)
  <1>1. PICK d \in Words, t \in Words : d = p.dwell_ms /\ t = p.tap_max_ms
    BY ProfileParts
  <1>2. PICK ov \in Octet, ex \in Octet, br \in Octet, im \in Octet, sl \in Octet :
            ov = p.overflow /\ ex = p.ext_count /\ br = p.brightness /\ im = p.idle_mode /\ sl = Len(p.slots)
    BY ProfileParts
  <1>3. PICK col \in Seq(Octet) : col = p.idle_color /\ Len(col) = 3
    BY ProfileParts
  <1>4. PICK u \in Seq(Octet), v \in Seq(Octet) :
            u = Device!AppendUint16(d) /\ v = Device!AppendUint16(t) /\ Len(u) = 2 /\ Len(v) = 2
    BY Uint16Bytes
  <1>5. PICK f \in Seq(Octet) : f = <<ov, ex, br, im>> /\ Len(f) = 4 /\ f[1] = ov /\ f[2] = ex /\ f[3] = br /\ f[4] = im
    <2>1. /\ <<ov, ex, br, im>> \in Seq(Octet) /\ Len(<<ov, ex, br, im>>) = 4
          /\ <<ov, ex, br, im>>[1] = ov /\ <<ov, ex, br, im>>[2] = ex /\ <<ov, ex, br, im>>[3] = br /\ <<ov, ex, br, im>>[4] = im
      BY Quadruple
    <2> QED
      BY <2>1, Zenon
  <1>6. PICK x \in Seq(Octet) : x = <<sl>> /\ Len(x) = 1 /\ x[1] = sl
    BY Single
  <1>7. PICK a \in Seq(Octet) : a = u \o v /\ Len(a) = 4
    <2>1. u \o v \in Seq(Octet) /\ Len(u \o v) = Len(u) + Len(v)
      BY ConcatProperties, Zenon
    <2>2. 2 + 2 = 4
      OBVIOUS
    <2> QED
      BY <1>4, <2>1, <2>2, Zenon
  <1>8. PICK b \in Seq(Octet) : b = a \o f /\ Len(b) = 8
    <2>1. a \o f \in Seq(Octet) /\ Len(a \o f) = Len(a) + Len(f)
      BY ConcatProperties, Zenon
    <2>2. 4 + 4 = 8
      OBVIOUS
    <2> QED
      BY <1>5, <1>7, <2>1, <2>2, Zenon
  <1>9. PICK c \in Seq(Octet) : c = b \o col /\ Len(c) = 11
    <2>1. b \o col \in Seq(Octet) /\ Len(b \o col) = Len(b) + Len(col)
      BY ConcatProperties, Zenon
    <2>2. 8 + 3 = 11
      OBVIOUS
    <2> QED
      BY <1>3, <1>8, <2>1, <2>2, Zenon
  <1>10. PICK w \in Seq(Octet) : w = c \o x /\ Len(w) = 12
    <2>1. c \o x \in Seq(Octet) /\ Len(c \o x) = Len(c) + Len(x)
      BY ConcatProperties, Zenon
    <2>2. 11 + 1 = 12
      OBVIOUS
    <2> QED
      BY <1>6, <1>9, <2>1, <2>2, Zenon
  <1>11. w = Fixed(p)
    BY <1>1, <1>2, <1>3, <1>4, <1>5, <1>6, <1>7, <1>8, <1>9, <1>10 DEF Fixed
  <1>12. At(w, 0, c) /\ At(w, 0 + 11, x)
    <2>1. At(w, 0, c \o x) /\ 0 \in Nat /\ 11 \in Nat
      BY <1>10, AtItself
    <2> QED
      BY <1>9, <2>1, AtParts, ZenonT(60)
  <1>13. At(w, 0, b) /\ At(w, 0 + 8, col)
    <2>1. At(w, 0, b \o col) /\ 0 \in Nat /\ 8 \in Nat
      BY <1>9, <1>12
    <2> QED
      BY <1>8, <2>1, AtParts
  <1>14. At(w, 0, a) /\ At(w, 0 + 4, f)
    <2>1. At(w, 0, a \o f) /\ 0 \in Nat /\ 4 \in Nat
      BY <1>8, <1>13
    <2> QED
      BY <1>7, <2>1, AtParts
  <1>15. At(w, 0, u) /\ At(w, 0 + 2, v)
    <2>1. At(w, 0, u \o v) /\ 0 \in Nat /\ 2 \in Nat
      BY <1>7, <1>14
    <2> QED
      BY <1>4, <2>1, AtParts
  <1>16. Device!u16(w, 0) = d /\ Device!u16(w, 2) = t
    <2>1. 0 \in Nat /\ 2 \in Nat /\ 0 + 2 = 2
      OBVIOUS
    <2> QED
      BY <1>4, <1>15, <2>1, U16At
  <1>17. w[5] = ov /\ w[6] = ex /\ w[7] = br /\ w[8] = im
    <2>1. \A i \in 1 .. 4 : w[(0 + 4) + i] = f[i]
      BY <1>5, <1>14, Zenon DEF At
    <2> QED
      BY <1>5, <2>1
  <1>18. w[12] = sl
    <2>1. \A i \in 1 .. 1 : w[(0 + 11) + i] = x[i]
      BY <1>6, <1>12, Zenon DEF At
    <2> QED
      BY <1>6, <2>1
  <1>19. SubSeq(w, 9, 11) = col
    <2>1. 8 \in Nat /\ 0 + 8 = 8 /\ 8 + 3 <= 12 /\ 8 + 1 = 9 /\ 8 + 3 = 11
      OBVIOUS
    <2>2. Device!Take(w, 8, 3) = Device!Read(col, 8 + 3)
      <3>1. At(w, 8, col)
        BY <1>13, <2>1, Zenon
      <3>2. Device!Take(w, 8, Len(col)) = Device!Read(col, 8 + Len(col))
        BY <2>1, <3>1, TakeAt
      <3> QED
        BY <1>3, <3>2, Zenon
    <2>3. Device!Take(w, 8, 3) = Device!Read(SubSeq(w, 9, 11), 11)
      BY <1>10 DEF Device!Take
    <2>4. Device!Read(col, 8 + 3).val = col /\ Device!Read(SubSeq(w, 9, 11), 11).val = SubSeq(w, 9, 11)
      BY ReadFields, Zenon
    <2> QED
      BY <2>2, <2>3, <2>4, Zenon
  <1> QED
    BY <1>1, <1>2, <1>3, <1>10, <1>11, <1>16, <1>17, <1>18, <1>19, Zenon

\* Joining is associative, taken one argument at a time.
Behind(x) == \A b, c \in Seq(Octet) : (x \o b) \o c = x \o (b \o c)

\* What stands behind x can be joined first.
LEMMA Reassociate ==
    ASSUME NEW x \in Seq(Octet)
    PROVE  Behind(x)
  <1> SUFFICES ASSUME NEW b \in Seq(Octet), NEW c \in Seq(Octet) PROVE (x \o b) \o c = x \o (b \o c)
    BY DEF Behind
  <1> QED
    OBVIOUS

\* The fixed bytes of a profile, joined first.
LEMMA Regrouped ==
    ASSUME NEW x \in Seq(Octet), NEW p \in RunProfile
    PROVE  (((((x \o Device!AppendUint16(p.dwell_ms)) \o Device!AppendUint16(p.tap_max_ms))
                \o <<p.overflow, p.ext_count, p.brightness, p.idle_mode>>) \o p.idle_color) \o <<Len(p.slots)>>)
             = x \o Fixed(p)
  <1>1. PICK d \in Seq(Octet), t \in Seq(Octet) : d = Device!AppendUint16(p.dwell_ms) /\ t = Device!AppendUint16(p.tap_max_ms)
    BY ProfileParts, Uint16Bytes
  <1>2. PICK f \in Seq(Octet) : f = <<p.overflow, p.ext_count, p.brightness, p.idle_mode>>
    BY ProfileParts, Quadruple
  <1>3. PICK s \in Seq(Octet) : s = <<Len(p.slots)>>
    BY ProfileParts, Single
  <1>4. PICK c \in Seq(Octet) : c = p.idle_color
    BY ProfileParts
  <1>E. Behind(x)
    BY Reassociate
  <1>A. PICK dt \in Seq(Octet) : dt = d \o t /\ (x \o d) \o t = x \o dt
    <2>1. d \o t \in Seq(Octet)
      BY ConcatOctets
    <2>2. (x \o d) \o t = x \o (d \o t)
      BY <1>E, Zenon DEF Behind
    <2> QED
      BY <2>1, <2>2, Zenon
  <1>B. PICK df \in Seq(Octet) : df = dt \o f /\ (x \o dt) \o f = x \o df
    <2>1. dt \o f \in Seq(Octet)
      BY ConcatOctets
    <2>2. (x \o dt) \o f = x \o (dt \o f)
      BY <1>E, Zenon DEF Behind
    <2> QED
      BY <2>1, <2>2, Zenon
  <1>C. PICK dc \in Seq(Octet) : dc = df \o c /\ (x \o df) \o c = x \o dc
    <2>1. df \o c \in Seq(Octet)
      BY ConcatOctets
    <2>2. (x \o df) \o c = x \o (df \o c)
      BY <1>E, Zenon DEF Behind
    <2> QED
      BY <2>1, <2>2, Zenon
  <1>D. (x \o dc) \o s = x \o (dc \o s)
    BY <1>E, Zenon DEF Behind
  <1>5. Fixed(p) = ((((d \o t) \o f) \o c) \o s)
    BY <1>1, <1>2, <1>3, <1>4, Zenon DEF Fixed
  <1> QED
    BY <1>1, <1>2, <1>3, <1>4, <1>5, <1>A, <1>B, <1>C, <1>D, ZenonT(60)

\* A profile as it is written: its name behind its length, twelve bytes, the tap's binding and the slots'.
LEMMA ProfileWritten ==
    ASSUME NEW p \in RunProfile
    PROVE  /\ Device!encode_profile(p)
                = (((<<Len(p.name)>> \o p.name) \o Fixed(p)) \o Device!encode_binding(p.tap))
                    \o FlattenSeq(BindingPieces(p.slots))
           /\ Device!encode_profile(p) \in Seq(Octet)
  <1>1. PICK nm \in Seq(Octet), l \in Octet, sl \in Octet, ov \in Octet, ex \in Octet, br \in Octet, im \in Octet :
            /\ nm = p.name /\ l = Len(p.name) /\ sl = Len(p.slots)
            /\ ov = p.overflow /\ ex = p.ext_count /\ br = p.brightness /\ im = p.idle_mode
    BY ProfileParts
  <1>2. PICK d \in Seq(Octet), t \in Seq(Octet) : d = Device!AppendUint16(p.dwell_ms) /\ t = Device!AppendUint16(p.tap_max_ms)
    BY ProfileParts, Uint16Bytes
  <1>3. PICK f \in Seq(Octet) : f = <<ov, ex, br, im>>
    BY Quadruple
  <1>4. PICK a \in Seq(Octet), s \in Seq(Octet) : a = <<l>> /\ s = <<sl>>
    BY Single
  <1>5. PICK c \in Seq(Octet) : c = p.idle_color
    BY ProfileParts
  <1>6. PICK tb \in Seq(Octet), ss \in Seq(Octet) :
            tb = Device!encode_binding(p.tap) /\ ss = FlattenSeq(BindingPieces(p.slots))
    BY ProfileParts, BindingBytes, BindingPiecesType
  <1>8. Device!encode_profile(p) = (((((((a \o nm) \o d) \o t) \o f) \o c) \o s) \o tb) \o ss
    BY <1>1, <1>2, <1>3, <1>4, <1>5, <1>6, JoinedPieces, Zenon DEF Device!encode_profile
  <1>9. PICK x \in Seq(Octet) : x = a \o nm
    BY ConcatOctets
  <1>10. (((((x \o Device!AppendUint16(p.dwell_ms)) \o Device!AppendUint16(p.tap_max_ms))
              \o <<p.overflow, p.ext_count, p.brightness, p.idle_mode>>) \o p.idle_color) \o <<Len(p.slots)>>)
            = x \o Fixed(p)
    BY Regrouped
  <1>11. Device!encode_profile(p) = ((x \o Fixed(p)) \o tb) \o ss
    BY <1>1, <1>2, <1>3, <1>4, <1>5, <1>8, <1>9, <1>10, Zenon
  <1>12. ((x \o Fixed(p)) \o tb) \o ss \in Seq(Octet)
    BY FixedFields, ConcatOctets
  <1> QED
    BY <1>1, <1>4, <1>6, <1>9, <1>11, <1>12, Zenon

\* Where an encoded profile stands, it is read.
LEMMA ProfileAt ==
    ASSUME NEW buf \in Seq(Octet), NEW p \in Nat, NEW pr \in RunProfile, At(buf, p, Device!encode_profile(pr))
    PROVE  Device!decode_profile(buf, p) = Device!Read(pr, p + Len(Device!encode_profile(pr)))
  <1>1. PICK nm \in Seq(Octet), l \in Octet, w \in Seq(Octet), b \in RunBinding, vals \in Seq(RunBinding),
             pieces \in Seq(Seq(Octet)), tb \in Seq(Octet), ss \in Seq(Octet) :
            /\ nm = pr.name /\ l = Len(nm) /\ w = Fixed(pr) /\ b = pr.tap /\ vals = pr.slots
            /\ pieces = BindingPieces(vals) /\ tb = Device!encode_binding(b) /\ ss = FlattenSeq(pieces)
    BY ProfileParts, FixedFields, BindingBytes, BindingPiecesType
  <1>2. PICK x \in Seq(Octet) : x = <<l>> \o nm
    BY Single, ConcatOctets
  <1>3. PICK xw \in Seq(Octet) : xw = x \o w
    BY ConcatOctets
  <1>4. PICK xt \in Seq(Octet) : xt = xw \o tb
    BY ConcatOctets
  <1>5. Device!encode_profile(pr) = xt \o ss
    BY <1>1, <1>2, <1>3, <1>4, ProfileWritten, Zenon
  <1>6. At(buf, p, xt \o ss)
    BY <1>5, Zenon
  <1>7. /\ At(buf, p, xt) /\ At(buf, p + Len(xt), ss) /\ p + Len(xt) \in Nat
        /\ p + Len(xt \o ss) = p + Len(xt) + Len(ss)
    <2>1. buf \in Seq(Octet) /\ p \in Nat /\ xt \in Seq(Octet) /\ ss \in Seq(Octet)
      OBVIOUS
    <2> QED
      BY ONLY <1>6, <2>1, AtConcat
  <1>8. /\ At(buf, p, xw) /\ At(buf, p + Len(xw), tb) /\ p + Len(xw) \in Nat
        /\ p + Len(xt) = p + Len(xw) + Len(tb)
    <2>1. buf \in Seq(Octet) /\ p \in Nat /\ xw \in Seq(Octet) /\ tb \in Seq(Octet) /\ At(buf, p, xw \o tb)
      BY <1>4, <1>7
    <2>2. /\ At(buf, p, xw) /\ At(buf, p + Len(xw), tb) /\ p + Len(xw) \in Nat
          /\ p + Len(xw \o tb) = p + Len(xw) + Len(tb)
      BY ONLY <2>1, AtConcat
    <2> QED
      BY <1>4, <2>2, Zenon
  <1>9. /\ At(buf, p, x) /\ At(buf, p + Len(x), w) /\ p + Len(x) \in Nat
        /\ p + Len(xw) = p + Len(x) + Len(w)
    <2>1. buf \in Seq(Octet) /\ p \in Nat /\ x \in Seq(Octet) /\ w \in Seq(Octet) /\ At(buf, p, x \o w)
      BY <1>3, <1>8
    <2>2. /\ At(buf, p, x) /\ At(buf, p + Len(x), w) /\ p + Len(x) \in Nat
          /\ p + Len(x \o w) = p + Len(x) + Len(w)
      BY ONLY <2>1, AtConcat
    <2> QED
      BY <1>3, <2>2, Zenon
  <1>10. /\ Device!ReadU8(buf, p) = Device!Read(l, p + 1)
         /\ p + 1 \in Nat /\ At(buf, p + 1, nm)
         /\ p + Len(x) = (p + 1) + Len(nm)
    <2>1. At(buf, p, <<l>> \o nm)
      BY <1>2, <1>9, Zenon
    <2>2. /\ Device!ReadU8(buf, p) = Device!Read(l, p + 1)
          /\ p + 1 \in Nat /\ At(buf, p + 1, nm)
          /\ p + Len(<<l>> \o nm) = (p + 1) + Len(nm)
      BY <2>1, ByteThen
    <2> QED
      BY <1>2, <2>2, Zenon
  <1>11. PICK q1 \in Nat, q2 \in Nat, q3 \in Nat, q4 \in Nat, e \in Nat :
            q1 = p + 1 /\ q2 = p + Len(x) /\ q3 = p + Len(xw) /\ q4 = p + Len(xt) /\ e = q4 + Len(ss)
    <2>1. p + 1 \in Nat /\ p + Len(x) \in Nat /\ p + Len(xw) \in Nat /\ p + Len(xt) \in Nat
      BY <1>7, <1>8, <1>9, <1>10, Zenon
    <2>2. Len(ss) \in Nat
      OBVIOUS
    <2>3. PICK q1 \in Nat, q2 \in Nat, q3 \in Nat, q4 \in Nat, l4 \in Nat :
            q1 = p + 1 /\ q2 = p + Len(x) /\ q3 = p + Len(xw) /\ q4 = p + Len(xt) /\ l4 = Len(ss)
      BY <2>1, <2>2, Zenon
    <2>4. q4 + l4 \in Nat
      OBVIOUS
    <2> QED
      BY <2>3, <2>4, Zenon
  <1>12. Len(w) = 12
    BY <1>1, FixedFields
  <1>13. PICK len : len = Device!ReadU8(buf, p) /\ len.ok = TRUE /\ len.val = l /\ len.pos = q1
    <2>1. Device!ReadU8(buf, p) = Device!Read(l, q1)
      BY <1>10, <1>11, Zenon
    <2> QED
      BY <2>1, ReadFields
  <1>14. PICK name : name = Device!Take(buf, len.pos, len.val) /\ name.ok = TRUE /\ name.val = nm /\ name.pos = q2
    <2>1. At(buf, q1, nm)
      BY <1>10, <1>11, Zenon
    <2>2. Device!Take(buf, q1, Len(nm)) = Device!Read(nm, q1 + Len(nm))
      BY <2>1, TakeAt
    <2>3. Device!Take(buf, q1, l) = Device!Read(nm, q2)
      BY <1>1, <1>10, <1>11, <2>2, Zenon
    <2> QED
      BY <1>13, <2>3, ReadFields
  <1>15. PICK f : f = Device!Take(buf, name.pos, 12) /\ f.ok = TRUE /\ f.val = w /\ f.pos = q3
    <2>1. At(buf, q2, w)
      BY <1>9, <1>11, Zenon
    <2>2. Device!Take(buf, q2, Len(w)) = Device!Read(w, q2 + Len(w))
      BY <2>1, TakeAt
    <2>3. Device!Take(buf, q2, 12) = Device!Read(w, q3)
      BY <1>9, <1>11, <1>12, <2>2, Zenon
    <2> QED
      BY <1>14, <2>3, ReadFields
  <1>16. PICK tap : tap = Device!decode_binding(buf, f.pos) /\ tap.ok = TRUE /\ tap.val = b /\ tap.pos = q4
    <2>1. At(buf, q3, Device!encode_binding(b))
      BY <1>1, <1>8, <1>11, Zenon
    <2>2. Device!decode_binding(buf, q3) = Device!Read(b, q3 + Len(Device!encode_binding(b)))
      BY <2>1, BindingAt
    <2>3. Device!decode_binding(buf, q3) = Device!Read(b, q4)
      BY <1>1, <1>8, <1>11, <2>2, Zenon
    <2> QED
      BY <1>15, <2>3, ReadFields
  <1>17. PICK m \in Nat : m = w[12] /\ m = Len(vals) /\ Len(pieces) = m /\ m \in 1 .. MAX_SLOTS
    <2>1. w[12] = Len(vals) /\ Len(vals) \in 1 .. MAX_SLOTS
      BY <1>1, FixedFields, ProfileParts, Zenon
    <2>2. Len(pieces) = Len(vals)
      BY <1>1, BindingPiecesType, Zenon
    <2>3. Len(vals) \in Nat
      OBVIOUS
    <2> QED
      BY <2>1, <2>2, <2>3, Zenon
  <1>18. ReadsPieces(buf, BindingItems(buf), vals, pieces, m)
    <2> SUFFICES ASSUME NEW k \in 1 .. m, NEW r \in 0 .. Len(buf), At(buf, r, pieces[k])
                 PROVE  BindingItems(buf)[r] = Device!Read(vals[k], r + Len(pieces[k]))
      BY DEF ReadsPieces
    <2>1. PICK s \in RunBinding : s = vals[k]
      BY <1>17, ElementOfSeq
    <2>2. pieces[k] = Device!encode_binding(s)
      BY <1>1, <1>17, <2>1, BindingPiecesType
    <2>3. r \in Nat
      OBVIOUS
    <2>4. At(buf, r, Device!encode_binding(s))
      BY <2>2, Zenon
    <2>5. Device!decode_binding(buf, r) = Device!Read(s, r + Len(Device!encode_binding(s)))
      BY <2>3, <2>4, BindingAt
    <2>6. BindingItems(buf)[r] = Device!decode_binding(buf, r)
      BY DEF BindingItems
    <2> QED
      BY <2>1, <2>2, <2>5, <2>6, Zenon
  <1>19. PICK slots : slots = Device!Repeat(f.val[12], BindingItems(buf), tap.pos)
                      /\ slots.ok = TRUE /\ slots.val = vals /\ slots.pos = e
    <2>1. At(buf, q4, FlattenSeq(pieces))
      BY <1>1, <1>7, <1>11, Zenon
    <2>2. buf \in Seq(Octet) /\ vals \in Seq(RunBinding) /\ pieces \in Seq(Seq(Octet)) /\ m \in Nat /\ q4 \in Nat
      OBVIOUS
    <2>3. Device!Repeat(m, BindingItems(buf), q4) = Device!Read(vals, q4 + Len(FlattenSeq(pieces)))
      BY ONLY <1>17, <1>18, <2>1, <2>2, RepeatAt
    <2>4. Device!Repeat(f.val[12], BindingItems(buf), tap.pos) = Device!Read(vals, e)
      BY <1>1, <1>11, <1>15, <1>16, <1>17, <2>3, Zenon
    <2> QED
      BY <2>4, ReadFields
  <1>20. Device!decode_profile(buf, p)
           = IF ~len.ok THEN len
             ELSE IF len.val > MAX_NAME_LEN THEN Device!Refuse
             ELSE IF ~name.ok THEN name
             ELSE IF ~f.ok THEN f
             ELSE IF DeviceRefuses(name.val, f.val) THEN Device!Refuse
             ELSE IF ~tap.ok THEN tap
             ELSE IF ~slots.ok THEN slots
             ELSE Device!Read(TheProfile(name.val, f.val, tap.val, slots.val), slots.pos)
    BY <1>13, <1>14, <1>15, <1>16, <1>19, ZenonT(60)
    DEF Device!decode_profile, Device!Then, BindingItems, Device!Positions, TheProfile, DeviceRefuses
  <1>21. ~(len.val > MAX_NAME_LEN)
    <2>1. PICK n \in Nat : n = Len(nm) /\ n <= MAX_NAME_LEN
      <3>1. Len(nm) <= MAX_NAME_LEN
        BY <1>1, ProfileParts, Zenon
      <3>2. Len(nm) \in Nat
        OBVIOUS
      <3> QED
        BY <3>1, <3>2, Zenon
    <2>2. ~(n > MAX_NAME_LEN)
      BY <2>1, FormatAssumption, SMTT(30)
    <2> QED
      BY <1>1, <1>13, <2>1, <2>2, Zenon
  <1>22. ~DeviceRefuses(nm, w)
    <2>1. Device!Utf8(nm) /\ w[12] \in 1 .. MAX_SLOTS
      BY <1>1, <1>17, ProfileParts, Zenon
    <2>2. PICK ov \in Nat, im \in Nat : ov = w[5] /\ im = w[8] /\ ov <= 2 /\ im <= 3
      <3>1. PICK ov \in Octet, im \in Octet : ov = pr.overflow /\ im = pr.idle_mode /\ ov <= 2 /\ im <= 3
        BY ProfileParts, Zenon
      <3>2. w[5] = ov /\ w[8] = im
        BY <1>1, <3>1, FixedFields, Zenon
      <3>3. ov \in Nat /\ im \in Nat
        BY OctetNat
      <3> QED
        BY <3>1, <3>2, <3>3, Zenon
    <2>3. ~(ov > 2) /\ ~(im > 3)
      <3>1. \A o \in Nat : (o <= 2 => ~(o > 2)) /\ (o <= 3 => ~(o > 3))
        OBVIOUS
      <3> QED
        BY <2>2, <3>1, Zenon
    <2> QED
      BY <2>1, <2>2, <2>3, Zenon DEF DeviceRefuses, Device!OVERFLOW_CLAMP, Device!IDLE_RAINBOW
  <1>23. TheProfile(nm, w, b, vals) = pr
    BY <1>1, FixedFields, ProfileParts, Zenon DEF TheProfile
  <1>24. Device!decode_profile(buf, p) = Device!Read(pr, e)
    BY <1>13, <1>14, <1>15, <1>16, <1>19, <1>20, <1>21, <1>22, <1>23, Zenon
  <1>25. p + Len(Device!encode_profile(pr)) = e
    BY <1>5, <1>7, <1>11, Zenon
  <1> QED
    BY <1>24, <1>25, Zenon

\* Profiles are encoded to octets, one by one.
LEMMA ProfilePiecesType ==
    ASSUME NEW s \in Seq(RunProfile)
    PROVE  /\ ProfilePieces(s) \in Seq(Seq(Octet)) /\ Len(ProfilePieces(s)) = Len(s)
           /\ \A i \in 1 .. Len(s) : ProfilePieces(s)[i] = Device!encode_profile(s[i])
           /\ FlattenSeq(ProfilePieces(s)) \in Seq(Octet)
  <1>1. PICK n \in Nat : n = Len(s)
    OBVIOUS
  <1> DEFINE h(i) == Device!encode_profile(s[i])
  <1>2. \A i \in 1 .. n : h(i) \in Seq(Octet)
    <2>1. \A i \in 1 .. n : s[i] \in RunProfile
      BY <1>1, ElementOfSeq
    <2> QED
      BY <2>1, ProfileWritten
  <1>3. ProfilePieces(s) = [i \in 1 .. n |-> h(i)]
    BY <1>1, Zenon DEF ProfilePieces
  <1> HIDE DEF h
  <1>4. /\ ProfilePieces(s) \in Seq(Seq(Octet)) /\ Len(ProfilePieces(s)) = n
        /\ \A i \in 1 .. n : ProfilePieces(s)[i] = h(i)
    BY <1>2, <1>3
  <1>5. FlattenSeq(ProfilePieces(s)) \in Seq(Octet)
    BY <1>4, FlattenType
  <1> QED
    BY <1>1, <1>4, <1>5, Zenon DEF h

\* Words are encoded to octets, one by one.
LEMMA WordPiecesType ==
    ASSUME NEW s \in Seq(Words)
    PROVE  /\ WordPieces(s) \in Seq(Seq(Octet)) /\ Len(WordPieces(s)) = Len(s)
           /\ \A i \in 1 .. Len(s) : WordPieces(s)[i] = Device!AppendUint16(s[i])
           /\ FlattenSeq(WordPieces(s)) \in Seq(Octet)
  <1>1. PICK n \in Nat : n = Len(s) /\ DOMAIN s = 1 .. n
    OBVIOUS
  <1> DEFINE h(i) == Device!AppendUint16(s[i])
  <1>2. \A i \in 1 .. n : h(i) \in Seq(Octet)
    <2>1. \A i \in 1 .. n : s[i] \in Words
      BY <1>1, ElementOfSeq
    <2> QED
      BY <2>1, Uint16Bytes
  <1>3. WordPieces(s) = [i \in 1 .. n |-> h(i)]
    BY <1>1, Zenon DEF WordPieces
  <1> HIDE DEF h
  <1>4. /\ WordPieces(s) \in Seq(Seq(Octet)) /\ Len(WordPieces(s)) = n
        /\ \A i \in 1 .. n : WordPieces(s)[i] = h(i)
    BY <1>2, <1>3
  <1>5. FlattenSeq(WordPieces(s)) \in Seq(Octet)
    BY <1>4, FlattenType
  <1> QED
    BY <1>1, <1>4, <1>5, Zenon DEF h

\* Pieces of two bytes make twice as many bytes.
LEMMA PairsLength ==
    ASSUME NEW pieces \in Seq(Seq(Octet)), NEW n \in Nat, n = Len(pieces), \A i \in 1 .. n : Len(pieces[i]) = 2
    PROVE  Len(FlattenSeq(pieces)) = 2 * n
  <1> DEFINE F(j) == UpTo(pieces, j)
             T == {k \in Nat : k <= n => Len(F(k)) = 2 * k}
  <1>1. /\ F(n) = FlattenSeq(pieces) /\ F(0) = <<>>
        /\ \A j \in 0 .. n : F(j) \in Seq(Octet)
        /\ \A j \in 0 .. n - 1 : pieces[j + 1] \in Seq(Octet) /\ F(j + 1) = F(j) \o pieces[j + 1]
    BY UpToStep
  <1> HIDE DEF F
  <1>2. 0 \in T
    <2>1. PICK l \in Nat : l = Len(F(0)) /\ l = 0
      BY <1>1, EmptySeq
    <2> QED
      BY <2>1
  <1>3. ASSUME NEW k \in T PROVE k + 1 \in T
    <2>1. k \in Nat /\ k + 1 \in Nat /\ (k <= n => Len(F(k)) = 2 * k)
      OBVIOUS
    <2>2. ASSUME k + 1 <= n PROVE Len(F(k + 1)) = 2 * (k + 1)
      <3>1. k \in 0 .. n - 1 /\ k \in 0 .. n /\ k <= n /\ k + 1 \in 1 .. n
        BY <2>1, <2>2
      <3>2. PICK f \in Seq(Octet), x \in Seq(Octet) : f = F(k) /\ x = pieces[k + 1] /\ F(k + 1) = f \o x
        BY <1>1, <3>1, Zenon
      <3>3. Len(f \o x) = Len(f) + Len(x)
        BY ConcatProperties, Zenon
      <3>4. Len(f) = 2 * k /\ Len(x) = 2
        BY <2>1, <3>1, <3>2, Zenon
      <3>5. Len(F(k + 1)) = 2 * k + 2
        BY <3>2, <3>3, <3>4, Zenon
      <3>6. 2 * k + 2 = 2 * (k + 1)
        BY <2>1
      <3> QED
        BY <3>5, <3>6, Zenon
    <2> QED
      BY <2>1, <2>2
  <1>4. T = Nat
    <2> HIDE DEF T
    <2>1. T \in SUBSET Nat
      BY DEF T
    <2> QED
      BY <1>2, <1>3, <2>1, Induction
  <1>5. Len(F(n)) = 2 * n
    <2>1. n \in T /\ n <= n
      BY <1>4
    <2> QED
      BY <2>1
  <1> QED
    BY <1>1, <1>5, Zenon

\* The parts of a configuration that runs.
LEMMA RunnableParts ==
    ASSUME NEW c \in Runnable
    PROVE  /\ c.format_version = 1 /\ c.active \in Octet /\ c.profiles \in Seq(RunProfile)
           /\ Len(c.profiles) \in 1 .. MAX_PROFILES /\ Len(c.profiles) \in Octet /\ Len(c.profiles) \in Nat
           /\ c.active < Len(c.profiles)
           /\ c = [format_version |-> 1, active |-> c.active, profiles |-> c.profiles]
  <1>1. /\ c \in [format_version : {1}, active : Octet, profiles : Seq(RunProfile)]
        /\ Len(c.profiles) \in 1 .. MAX_PROFILES /\ c.active < Len(c.profiles)
    BY Zenon DEF Runnable
  <1>2. /\ c.format_version = 1 /\ c.active \in Octet /\ c.profiles \in Seq(RunProfile)
        /\ c = [format_version |-> 1, active |-> c.active, profiles |-> c.profiles]
    BY <1>1
  <1>3. PICK n \in Nat : n = Len(c.profiles) /\ n <= MAX_PROFILES
    BY <1>1, <1>2, FormatAssumption
  <1>4. n \in Octet
    BY <1>3, LimitOctet
  <1> QED
    BY <1>1, <1>2, <1>3, <1>4, Zenon

\* A configuration as it is written.
Recs(c) == ProfilePieces(c.profiles)
\* Where the device's encode puts the records; how long it makes the blob; the first eight
\* bytes of it; and the blob without its checksum.
Offs(c) == Device!Offsets(Recs(c))
TotalOf(c) == 10 + 2 * Len(c.profiles) + Len(FlattenSeq(Recs(c))) + 2
FirstEight(c) == <<75, 66, 50, 75>> \o <<c.format_version, 0, c.active, Len(c.profiles)>>
BodyOf(c) ==
    ((FirstEight(c) \o Device!AppendUint16(TotalOf(c))) \o FlattenSeq(WordPieces(Offs(c)))) \o FlattenSeq(Recs(c))

\* What encode writes, of these parts.
LEMMA Written ==
    ASSUME NEW c
    PROVE  Device!encode(c)
             = IF Len(c.profiles) \notin 1 .. MAX_PROFILES \/ c.active >= Len(c.profiles) \/ TotalOf(c) > NVM_SIZE
               THEN Device!Refuse
               ELSE Device!Encoded(BodyOf(c) \o Device!AppendUint16(Device!crc16(BodyOf(c))))
  BY JoinedPieces, FlattensAlike, Zenon
  DEF Device!encode, Recs, Offs, TotalOf, FirstEight, BodyOf, ProfilePieces, Device!MAGIC,
     Device!HEADER_BASE, Device!CRC_TRAILER

\* A part is no longer than the whole, and ends before the piece behind it does.
LEMMA PartFits ==
    ASSUME NEW pieces \in Seq(Seq(Octet)), NEW k \in 0 .. Len(pieces) - 1
    PROVE  /\ Len(UpTo(pieces, k)) \in Nat /\ Len(FlattenSeq(pieces)) \in Nat
           /\ Len(UpTo(pieces, k)) + Len(pieces[k + 1]) <= Len(FlattenSeq(pieces))
  <1>1. PICK flat \in Seq(Octet) : flat = FlattenSeq(pieces)
    BY FlattenType
  <1>2. At(flat, 0, FlattenSeq(pieces))
    BY <1>1, AtItself
  <1>3. 0 + Len(UpTo(pieces, k)) \in Nat /\ At(flat, 0 + Len(UpTo(pieces, k)), pieces[k + 1])
    BY <1>2, PieceAt
  <1>4. PICK u \in Seq(Octet) : u = UpTo(pieces, k)
    <2>1. k \in 0 .. Len(pieces)
      OBVIOUS
    <2> QED
      BY <2>1, UpToStep
  <1>5. PICK m \in Nat : m = Len(u)
    OBVIOUS
  <1>6. 0 + m + Len(pieces[k + 1]) <= Len(flat)
    BY <1>3, <1>4, <1>5 DEF At
  <1>7. 0 + m = m
    OBVIOUS
  <1> QED
    BY <1>1, <1>4, <1>5, <1>6, <1>7

\* No record is empty.
LEMMA ProfileNotEmpty ==
    ASSUME NEW p \in RunProfile
    PROVE  Len(Device!encode_profile(p)) \in Nat \ {0}
  <1>1. PICK a \in Seq(Octet), nm \in Seq(Octet), w \in Seq(Octet), tb \in Seq(Octet), ss \in Seq(Octet) :
            /\ a = <<Len(p.name)>> /\ Len(a) = 1 /\ nm = p.name /\ w = Fixed(p)
            /\ tb = Device!encode_binding(p.tap) /\ ss = FlattenSeq(BindingPieces(p.slots))
    BY ProfileParts, Single, FixedFields, BindingBytes, BindingPiecesType
  <1>2. Device!encode_profile(p) = (((a \o nm) \o w) \o tb) \o ss
    BY <1>1, ProfileWritten, Zenon
  <1>3. PICK x \in Seq(Octet) : x = a \o nm /\ Len(x) >= 1
    <2>1. a \o nm \in Seq(Octet) /\ Len(a \o nm) = Len(a) + Len(nm)
      BY ConcatProperties, Zenon
    <2>2. PICK x \in Seq(Octet) : x = a \o nm
      BY <2>1
    <2>3. Len(x) >= 1
      BY <1>1, <2>1, <2>2
    <2> QED
      BY <2>2, <2>3
  <1>4. PICK y \in Seq(Octet) : y = x \o w /\ Len(y) >= 1
    <2>1. x \o w \in Seq(Octet) /\ Len(x \o w) = Len(x) + Len(w)
      BY ConcatProperties, Zenon
    <2>2. PICK y \in Seq(Octet) : y = x \o w
      BY <2>1
    <2>3. Len(y) >= 1
      BY <1>3, <2>1, <2>2
    <2> QED
      BY <2>2, <2>3
  <1>5. PICK z \in Seq(Octet) : z = y \o tb /\ Len(z) >= 1
    <2>1. y \o tb \in Seq(Octet) /\ Len(y \o tb) = Len(y) + Len(tb)
      BY ConcatProperties, Zenon
    <2>2. PICK z \in Seq(Octet) : z = y \o tb
      BY <2>1
    <2>3. Len(z) >= 1
      BY <1>4, <2>1, <2>2
    <2> QED
      BY <2>2, <2>3
  <1>6. Len(z \o ss) = Len(z) + Len(ss)
    BY ConcatProperties, Zenon
  <1>7. Len(z \o ss) \in Nat \ {0}
    BY <1>5, <1>6
  <1> QED
    BY <1>2, <1>3, <1>4, <1>5, <1>7, Zenon

\* A record starts behind the header, the table and the records before it.
LEMMA OffsetsAre ==
    ASSUME NEW c \in Runnable, NEW n \in Nat, n = Len(c.profiles)
    PROVE  /\ Len(Offs(c)) = n /\ DOMAIN Offs(c) = 1 .. n
           /\ \A i \in 1 .. n : Offs(c)[i] = 10 + 2 * n + Len(UpTo(Recs(c), i - 1))
  <1>1. PICK recs \in Seq(Seq(Octet)) : recs = Recs(c) /\ Len(recs) = n /\ DOMAIN recs = 1 .. n
    <2>1. Recs(c) \in Seq(Seq(Octet)) /\ Len(Recs(c)) = n
      BY RunnableParts, ProfilePiecesType DEF Recs
    <2> QED
      BY <2>1
  <1>2. Offs(c) = [i \in 1 .. n |-> 10 + 2 * n + Len(UpTo(recs, i - 1))]
    BY <1>1, FlattensAlike, Zenon DEF Offs, Device!Offsets, Device!HEADER_BASE, UpTo
  <1> DEFINE h(i) == 10 + 2 * n + Len(UpTo(recs, i - 1))
             Sizes == {h(i) : i \in 1 .. n}
  <1>3. \A i \in 1 .. n : h(i) \in Sizes
    OBVIOUS
  <1>4. PICK o : o = Offs(c) /\ o = [i \in 1 .. n |-> h(i)]
    BY <1>2
  <1> HIDE DEF h, Sizes
  <1>5. o \in Seq(Sizes) /\ Len(o) = n /\ DOMAIN o = 1 .. n /\ \A i \in 1 .. n : o[i] = h(i)
    BY <1>3, <1>4
  <1>6. \A i \in 1 .. n : h(i) = 10 + 2 * n + Len(UpTo(Recs(c), i - 1))
    BY <1>1, Zenon DEF h
  <1> QED
    BY <1>4, <1>5, <1>6, Zenon

\* What fits in the region has its size and its offsets in words.
LEMMA SizesAreWords ==
    ASSUME NEW c \in Runnable, TotalOf(c) <= NVM_SIZE, NVM_SIZE < 256 * 256
    PROVE  /\ TotalOf(c) \in Words /\ TotalOf(c) \in Nat
           /\ Offs(c) \in Seq(Words) /\ Len(Offs(c)) = Len(c.profiles)
  <1>1. PICK W \in Nat : W = Device!WORD /\ W = 256 * 256
    BY WordsAlike
  <1>2. PICK n \in Nat : n = Len(c.profiles)
    BY RunnableParts
  <1>3. PICK recs \in Seq(Seq(Octet)), L \in Nat : recs = Recs(c) /\ Len(recs) = n /\ L = Len(FlattenSeq(recs))
    <2>1. Recs(c) \in Seq(Seq(Octet)) /\ Len(Recs(c)) = n /\ FlattenSeq(Recs(c)) \in Seq(Octet)
      BY <1>2, RunnableParts, ProfilePiecesType DEF Recs
    <2>2. Len(FlattenSeq(Recs(c))) \in Nat
      BY <2>1
    <2> QED
      BY <2>1, <2>2, Zenon
  <1>4. PICK t \in Nat : t = TotalOf(c) /\ t = 10 + 2 * n + L + 2 /\ t < W
    <2>1. TotalOf(c) = 10 + 2 * n + L + 2
      BY <1>2, <1>3, Zenon DEF TotalOf
    <2>2. PICK t \in Nat : t = 10 + 2 * n + L + 2
      OBVIOUS
    <2>3. t <= NVM_SIZE /\ NVM_SIZE \in Nat
      BY <2>1, <2>2, FormatAssumption
    <2>4. t < W
      BY <1>1, <2>3
    <2> QED
      BY <2>1, <2>2, <2>4, Zenon
  <1>5. \A x \in Nat : x < W => x \in Words
    <2>1. Words = 0 .. W - 1
      BY <1>1, Zenon DEF Words
    <2> QED
      BY <2>1
  <1>6. \A i \in 1 .. n : Offs(c)[i] \in Words
    <2> SUFFICES ASSUME NEW i \in 1 .. n PROVE Offs(c)[i] \in Words
      OBVIOUS
    <2>1. i - 1 \in 0 .. Len(recs) - 1 /\ (i - 1) + 1 = i
      BY <1>3
    <2>2. PICK m \in Nat, l \in Nat : m = Len(UpTo(recs, i - 1)) /\ l = Len(recs[i]) /\ m + l <= L
      <3>1. /\ Len(UpTo(recs, i - 1)) \in Nat
            /\ Len(UpTo(recs, i - 1)) + Len(recs[(i - 1) + 1]) <= Len(FlattenSeq(recs))
        BY <2>1, PartFits
      <3>2. recs[i] \in Seq(Octet)
        BY <1>3, ElementOfSeq
      <3>3. Len(recs[i]) \in Nat
        BY <3>2
      <3> QED
        BY <1>3, <2>1, <3>1, <3>3, Zenon
    <2>3. Offs(c)[i] = 10 + 2 * n + m
      BY <1>2, <1>3, <2>2, OffsetsAre
    <2>4. 10 + 2 * n + m \in Nat /\ 10 + 2 * n + m < W
      <3>1. m <= L
        <4>1. \A u, v, w \in Nat : u + v <= w => u <= w
          OBVIOUS
        <4> QED
          BY <2>2, <4>1, Zenon
      <3>2. PICK k \in Nat : k = 10 + 2 * n
        OBVIOUS
      <3>3. k + L + 2 < W
        BY <1>4, <3>2
      <3>4. k + m \in Nat /\ k + m < W
        BY <1>1, <3>1, <3>3
      <3> QED
        BY <3>2, <3>4
    <2> QED
      BY <1>5, <2>3, <2>4
  <1>7. Offs(c) \in Seq(Words) /\ Len(Offs(c)) = n
    <2>1. Len(Offs(c)) = n /\ Offs(c) = [i \in 1 .. n |-> 10 + 2 * n + Len(UpTo(recs, i - 1))]
      <3>1. DOMAIN recs = 1 .. n
        BY <1>3
      <3> QED
        BY <1>2, <1>3, <3>1, FlattensAlike, OffsetsAre, Zenon DEF Offs, Device!Offsets,
           Device!HEADER_BASE, UpTo
    <2>2. PICK o : o = Offs(c)
      OBVIOUS
    <2> DEFINE h(i) == 10 + 2 * n + Len(UpTo(recs, i - 1))
    <2>3. o = [i \in 1 .. n |-> h(i)]
      BY <2>1, <2>2
    <2> HIDE DEF h
    <2>4. \A i \in 1 .. n : h(i) \in Words
      BY <1>6, <2>2, <2>3
    <2>5. o \in Seq(Words)
      BY <2>3, <2>4
    <2> QED
      BY <2>1, <2>2, <2>5
  <1> QED
    BY <1>2, <1>4, <1>5, <1>7

\* What stands where in a blob.
LEMMA BodyParts ==
    ASSUME NEW c \in Runnable, TotalOf(c) <= NVM_SIZE, NVM_SIZE < 256 * 256
    PROVE  /\ FirstEight(c) \in Seq(Octet) /\ Len(FirstEight(c)) = 8
           /\ FirstEight(c)[1] = 75 /\ FirstEight(c)[2] = 66 /\ FirstEight(c)[3] = 50 /\ FirstEight(c)[4] = 75
           /\ FirstEight(c)[5] = 1 /\ FirstEight(c)[7] = c.active /\ FirstEight(c)[8] = Len(c.profiles)
           /\ BodyOf(c) \in Seq(Octet)
           /\ Len(BodyOf(c)) + 2 = TotalOf(c)
           /\ Len(BodyOf(c)) >= 10 + 2 * Len(c.profiles)
           /\ At(BodyOf(c), 0, FirstEight(c)) /\ At(BodyOf(c), 8, Device!AppendUint16(TotalOf(c)))
           /\ At(BodyOf(c), 10, FlattenSeq(WordPieces(Offs(c))))
           /\ At(BodyOf(c), 10 + 2 * Len(c.profiles), FlattenSeq(Recs(c)))
  <1>1. PICK a \in Octet, n \in Octet : a = c.active /\ n = Len(c.profiles) /\ n \in Nat /\ c.format_version = 1
    BY RunnableParts
  <1>2. PICK f \in Seq(Octet) : f = FirstEight(c) /\ Len(f) = 8 /\ f[1] = 75 /\ f[2] = 66 /\ f[3] = 50 /\ f[4] = 75
                                /\ f[5] = 1 /\ f[7] = a /\ f[8] = n
    <2>1. 75 \in Octet /\ 66 \in Octet /\ 50 \in Octet /\ 1 \in Octet /\ 0 \in Octet
      BY DEF Octet
    <2>2. PICK x \in Seq(Octet), y \in Seq(Octet) :
            /\ x = <<75, 66, 50, 75>> /\ Len(x) = 4 /\ x[1] = 75 /\ x[2] = 66 /\ x[3] = 50 /\ x[4] = 75
            /\ y = <<1, 0, a, n>> /\ Len(y) = 4 /\ y[1] = 1 /\ y[3] = a /\ y[4] = n
      <3>1. PICK x \in Seq(Octet) : x = <<75, 66, 50, 75>> /\ Len(x) = 4 /\ x[1] = 75 /\ x[2] = 66 /\ x[3] = 50 /\ x[4] = 75
        <4>1. PICK d \in Octet, b \in Octet, e \in Octet : d = 75 /\ b = 66 /\ e = 50
          BY <2>1
        <4>2. /\ <<d, b, e, d>> \in Seq(Octet) /\ Len(<<d, b, e, d>>) = 4
              /\ <<d, b, e, d>>[1] = d /\ <<d, b, e, d>>[2] = b /\ <<d, b, e, d>>[3] = e /\ <<d, b, e, d>>[4] = d
          BY Quadruple
        <4>3. PICK x \in Seq(Octet) : x = <<d, b, e, d>> /\ Len(x) = 4 /\ x[1] = d /\ x[2] = b /\ x[3] = e /\ x[4] = d
          BY <4>2, Zenon
        <4> QED
          BY <4>1, <4>3
      <3>2. PICK y \in Seq(Octet) : y = <<1, 0, a, n>> /\ Len(y) = 4 /\ y[1] = 1 /\ y[3] = a /\ y[4] = n
        <4>1. PICK d \in Octet, z \in Octet : d = 1 /\ z = 0
          BY <2>1
        <4>2. /\ <<d, z, a, n>> \in Seq(Octet) /\ Len(<<d, z, a, n>>) = 4
              /\ <<d, z, a, n>>[1] = d /\ <<d, z, a, n>>[3] = a /\ <<d, z, a, n>>[4] = n
          BY Quadruple
        <4>3. PICK y \in Seq(Octet) : y = <<d, z, a, n>> /\ Len(y) = 4 /\ y[1] = d /\ y[3] = a /\ y[4] = n
          BY <4>2, Zenon
        <4> QED
          BY <4>1, <4>3
      <3> QED
        BY <3>1, <3>2, Zenon
    <2>3. PICK f \in Seq(Octet) : f = x \o y /\ Len(f) = 8
      <3>1. x \o y \in Seq(Octet) /\ Len(x \o y) = Len(x) + Len(y)
        BY ConcatProperties, Zenon
      <3>2. 4 + 4 = 8
        OBVIOUS
      <3> QED
        BY <2>2, <3>1, <3>2, Zenon
    <2>4. f = FirstEight(c)
      BY <1>1, <2>2, <2>3, Zenon DEF FirstEight
    <2>5. At(f, 0, x) /\ At(f, 0 + 4, y)
      <3>1. At(f, 0, x \o y) /\ 0 \in Nat
        BY <2>3, AtItself
      <3>2. PICK k \in Nat : k = 4 /\ k = Len(x)
        BY <2>2
      <3>3. At(f, 0, x) /\ At(f, 0 + k, y)
        BY <3>1, <3>2, AtParts
      <3> QED
        BY <3>2, <3>3, Zenon
    <2>6. f[1] = 75 /\ f[2] = 66 /\ f[3] = 50 /\ f[4] = 75
      <3>1. \A i \in 1 .. 4 : f[0 + i] = x[i]
        BY <2>2, <2>5, Zenon DEF At
      <3> QED
        BY <2>2, <3>1
    <2>7. f[5] = 1 /\ f[7] = a /\ f[8] = n
      <3>1. \A i \in 1 .. 4 : f[(0 + 4) + i] = y[i]
        BY <2>2, <2>5, Zenon DEF At
      <3> QED
        BY <2>2, <3>1
    <2> QED
      BY <2>3, <2>4, <2>6, <2>7, Zenon
  <1>3. PICK t \in Nat, tb \in Seq(Octet) : t = TotalOf(c) /\ tb = Device!AppendUint16(t) /\ Len(tb) = 2
    BY SizesAreWords, Uint16Bytes
  <1>4. PICK ob \in Seq(Octet) : ob = FlattenSeq(WordPieces(Offs(c))) /\ Len(ob) = 2 * n
    <2>1. PICK o \in Seq(Words) : o = Offs(c) /\ Len(o) = n
      BY <1>1, SizesAreWords
    <2>2. PICK pieces \in Seq(Seq(Octet)) : pieces = WordPieces(o) /\ Len(pieces) = n
                                            /\ \A i \in 1 .. n : pieces[i] = Device!AppendUint16(o[i])
      BY <2>1, WordPiecesType
    <2>3. \A i \in 1 .. n : Len(pieces[i]) = 2
      <3>1. \A i \in 1 .. n : o[i] \in Words
        BY <2>1, ElementOfSeq
      <3> QED
        BY <2>2, <3>1, Uint16Bytes
    <2>4. Len(FlattenSeq(pieces)) = 2 * n
      BY <1>1, <2>2, <2>3, PairsLength
    <2>5. FlattenSeq(pieces) \in Seq(Octet)
      BY FlattenType
    <2> QED
      BY <2>1, <2>2, <2>4, <2>5, Zenon
  <1>5. PICK rb \in Seq(Octet), L \in Nat : rb = FlattenSeq(Recs(c)) /\ L = Len(rb) /\ t = 10 + 2 * n + L + 2
    <2>1. FlattenSeq(Recs(c)) \in Seq(Octet)
      BY RunnableParts, ProfilePiecesType DEF Recs
    <2>2. Len(FlattenSeq(Recs(c))) \in Nat
      BY <2>1
    <2>3. t = 10 + 2 * n + Len(FlattenSeq(Recs(c))) + 2
      BY <1>1, <1>3, Zenon DEF TotalOf
    <2> QED
      BY <2>1, <2>2, <2>3, Zenon
  <1>6. PICK ft \in Seq(Octet) : ft = f \o tb /\ Len(ft) = 10
    <2>1. f \o tb \in Seq(Octet) /\ Len(f \o tb) = Len(f) + Len(tb)
      BY ConcatProperties, Zenon
    <2>2. Len(f) = 8 /\ Len(tb) = 2
      BY <1>2, <1>3
    <2>3. Len(f \o tb) = 10
      BY ONLY <2>1, <2>2
    <2> QED
      BY <2>1, <2>3, Zenon
  <1>7. PICK fo \in Seq(Octet) : fo = ft \o ob /\ Len(fo) = 10 + 2 * n
    <2>1. ft \o ob \in Seq(Octet) /\ Len(ft \o ob) = Len(ft) + Len(ob)
      BY ConcatProperties, Zenon
    <2> QED
      BY <1>4, <1>6, <2>1, Zenon
  <1>8. PICK b \in Seq(Octet) : b = fo \o rb /\ Len(b) = 10 + 2 * n + L
    <2>1. fo \o rb \in Seq(Octet) /\ Len(fo \o rb) = Len(fo) + Len(rb)
      BY ConcatProperties, Zenon
    <2> QED
      BY <1>5, <1>7, <2>1, Zenon
  <1>9. b = BodyOf(c)
    BY <1>2, <1>3, <1>4, <1>5, <1>6, <1>7, <1>8, Zenon DEF BodyOf
  <1>10. 10 + 2 * n \in Nat /\ 0 + (10 + 2 * n) = 10 + 2 * n /\ 0 + 10 = 10 /\ 0 + 8 = 8 /\ 0 \in Nat /\ 10 \in Nat /\ 8 \in Nat
    BY <1>1
  <1>11. At(b, 0, fo) /\ At(b, 10 + 2 * n, rb)
    <2>1. At(b, 0, fo \o rb)
      BY <1>8, AtItself
    <2>2. PICK m \in Nat : m = 10 + 2 * n /\ m = Len(fo) /\ 0 + m = m
      BY <1>7, <1>10
    <2>3. At(b, 0, fo) /\ At(b, 0 + m, rb)
      BY <1>10, <2>1, <2>2, AtParts
    <2> QED
      BY <2>2, <2>3, Zenon
  <1>12. At(b, 0, ft) /\ At(b, 10, ob)
    <2>1. At(b, 0, ft \o ob)
      BY <1>7, <1>11, Zenon
    <2>2. At(b, 0, ft) /\ At(b, 0 + 10, ob)
      BY <1>6, <1>10, <2>1, AtParts, ZenonT(60)
    <2> QED
      BY <1>10, <2>2, Zenon
  <1>13. At(b, 0, f) /\ At(b, 8, tb)
    <2>1. At(b, 0, f \o tb)
      BY <1>6, <1>12, Zenon
    <2>2. At(b, 0, f) /\ At(b, 0 + 8, tb)
      BY <1>2, <1>10, <2>1, AtParts
    <2> QED
      BY <1>10, <2>2, Zenon
  <1>14. Len(b) + 2 = t /\ Len(b) >= 10 + 2 * n
    <2>1. PICK l \in Nat : l = Len(b)
      OBVIOUS
    <2>2. l + 2 = t /\ l >= 10 + 2 * n
      BY <1>1, <1>5, <1>8, <2>1
    <2> QED
      BY <2>1, <2>2, Zenon
  <1> QED
    BY <1>1, <1>2, <1>3, <1>4, <1>5, <1>9, <1>11, <1>12, <1>13, <1>14, Zenon

\* The records of a body are found by its offsets.
LEMMA ProfilesAt ==
    ASSUME NEW c \in Runnable, TotalOf(c) <= NVM_SIZE, NVM_SIZE < 256 * 256
    PROVE  /\ Device!decode_profiles(BodyOf(c), Len(c.profiles)).ok = TRUE
           /\ Device!decode_profiles(BodyOf(c), Len(c.profiles)).val = c.profiles
  <1>1. PICK n \in Nat, vals \in Seq(RunProfile) : vals = c.profiles /\ n = Len(vals)
    BY RunnableParts
  <1>2. PICK body \in Seq(Octet) : body = BodyOf(c)
    BY BodyParts
  <1>3. PICK o \in Seq(Words) : o = Offs(c) /\ Len(o) = n
    BY <1>1, SizesAreWords
  <1>4. PICK pieces \in Seq(Seq(Octet)) : pieces = WordPieces(o) /\ Len(pieces) = n
                                          /\ \A i \in 1 .. n : pieces[i] = Device!AppendUint16(o[i])
    BY <1>3, WordPiecesType
  <1>5. PICK recs \in Seq(Seq(Octet)) : recs = Recs(c) /\ Len(recs) = n
                                        /\ \A i \in 1 .. n : recs[i] = Device!encode_profile(vals[i])
    BY <1>1, ProfilePiecesType DEF Recs
  <1>6. At(body, 10, FlattenSeq(pieces)) /\ At(body, 10 + 2 * n, FlattenSeq(recs))
    BY <1>1, <1>2, <1>3, <1>4, <1>5, BodyParts, Zenon
  <1>7. PICK L \in Nat : L = Len(body)
    OBVIOUS
  <1>8. ReadsPieces(body, Entries(body, n), vals, pieces, n)
    <2> SUFFICES ASSUME NEW k \in 1 .. n, NEW r \in 0 .. Len(body), At(body, r, pieces[k])
                 PROVE  Entries(body, n)[r] = Device!Read(vals[k], r + Len(pieces[k]))
      BY DEF ReadsPieces
    <2>1. PICK off \in Words, pr \in RunProfile : off = o[k] /\ pr = vals[k]
      BY <1>1, <1>3, ElementOfSeq
    <2>2. At(body, r, Device!AppendUint16(off)) /\ Len(pieces[k]) = 2
      <3>1. pieces[k] = Device!AppendUint16(off)
        BY <1>4, <2>1
      <3> QED
        BY <3>1, Uint16Bytes, Zenon
    <2>3. Device!u16(body, r) = off
      <3>1. r \in Nat
        OBVIOUS
      <3> QED
        BY <2>2, <3>1, U16At
    <2>4. k - 1 \in 0 .. Len(recs) - 1 /\ (k - 1) + 1 = k
      BY <1>5
    <2>5. PICK base \in Nat : base = 10 + 2 * n
      OBVIOUS
    <2>6. base + Len(UpTo(recs, k - 1)) \in Nat /\ At(body, base + Len(UpTo(recs, k - 1)), recs[k])
      <3>1. At(body, base, FlattenSeq(recs))
        BY <1>6, <2>5, Zenon
      <3>2. /\ base + Len(UpTo(recs, k - 1)) \in Nat
            /\ At(body, base + Len(UpTo(recs, k - 1)), recs[(k - 1) + 1])
        BY <2>4, <3>1, PieceAt
      <3> QED
        BY <2>4, <3>2, Zenon
    <2>7. off = base + Len(UpTo(recs, k - 1))
      <3>1. \A i \in 1 .. n : Offs(c)[i] = 10 + 2 * n + Len(UpTo(Recs(c), i - 1))
        BY <1>1, OffsetsAre, Zenon
      <3> QED
        BY <1>3, <1>5, <2>1, <2>5, <3>1, Zenon
    <2>8. PICK q \in Nat : q = off
      BY <2>6, <2>7
    <2>9. At(body, q, Device!encode_profile(pr))
      <3>1. recs[k] = Device!encode_profile(pr)
        BY <1>5, <2>1
      <3> QED
        BY <2>6, <2>7, <2>8, <3>1, Zenon
    <2>10. PICK e : Device!decode_profile(body, q) = Device!Read(pr, e)
      BY <2>9, ProfileAt
    <2>11. ~(off < 10 + 2 * n \/ off >= Len(body))
      <3>1. PICK m \in Nat : m = Len(UpTo(recs, k - 1))
        <4>1. Len(UpTo(recs, k - 1)) \in Nat
          BY <2>4, PartFits
        <4> QED
          BY <4>1
      <3>2. PICK l \in Nat \ {0} : l = Len(Device!encode_profile(pr))
        BY ProfileNotEmpty
      <3>3. q + l <= L
        BY <1>7, <2>9, <3>2, Zenon DEF At
      <3>4. q = base + m
        BY <2>7, <2>8, <3>1, Zenon
      <3>5. ~(q < base) /\ ~(q >= L)
        BY <3>3, <3>4
      <3> QED
        BY <1>7, <2>5, <2>8, <3>5, Zenon
    <2>12. Entries(body, n)[r] = Entry(body, n, r, Device!decode_profile(body, off))
      <3>1. Entries(body, n)[r] = Entry(body, n, r, Device!decode_profile(body, Device!u16(body, r)))
        BY DEF Entries
      <3> QED
        BY <2>3, <3>1, Zenon
    <2>13. PICK x : x = Device!decode_profile(body, off) /\ x.ok = TRUE /\ x.val = pr
      <3>1. Device!decode_profile(body, off) = Device!Read(pr, e)
        BY <2>8, <2>10, Zenon
      <3> QED
        BY <3>1, ReadFields
    <2>14. Entries(body, n)[r] = Device!Read(pr, r + 2)
      BY <2>3, <2>11, <2>12, <2>13, Zenon DEF Entry
    <2> QED
      BY <2>1, <2>2, <2>14, Zenon
  <1>9. Device!Repeat(n, Entries(body, n), 10) = Device!Read(vals, 10 + Len(FlattenSeq(pieces)))
    <2>1. body \in Seq(Octet) /\ vals \in Seq(RunProfile) /\ pieces \in Seq(Seq(Octet)) /\ n \in Nat
      OBVIOUS
    <2>2. PICK ten \in Nat : ten = 10
      OBVIOUS
    <2>3. At(body, ten, FlattenSeq(pieces)) /\ Len(vals) = n /\ Len(pieces) = n
      BY <1>1, <1>4, <1>6, <2>2, Zenon
    <2>4. Device!Repeat(n, Entries(body, n), ten) = Device!Read(vals, ten + Len(FlattenSeq(pieces)))
      BY ONLY <1>8, <2>1, <2>3, ten \in Nat, RepeatAt
    <2> QED
      BY <2>2, <2>4, Zenon
  <1>10. Device!decode_profiles(body, n) = Device!Read(vals, 10 + Len(FlattenSeq(pieces)))
    BY <1>9, ProfilesAreRepeated, Zenon
  <1>11. Device!decode_profiles(body, n).ok = TRUE /\ Device!decode_profiles(body, n).val = vals
    BY <1>10, ReadFields
  <1> QED
    BY <1>1, <1>2, <1>11, Zenon

\* What the device writes, whatever follows it, it reads back as what it wrote.
THEOREM RoundTrip ==
    ASSUME NEW c \in Runnable, Device!encode(c).ok, NVM_SIZE < 256 * 256, NEW pad \in Seq(Octet)
    PROVE  /\ Device!encode(c).blob \in Seq(Octet)
           /\ Len(Device!encode(c).blob) = TotalOf(c) /\ TotalOf(c) <= NVM_SIZE
           /\ Device!decode(Device!encode(c).blob \o pad) = Device!Decoded(c)
           /\ Device!Total(Device!encode(c).blob \o pad) = TotalOf(c)
  <1>1. /\ TotalOf(c) <= NVM_SIZE
        /\ Device!encode(c) = Device!Encoded(BodyOf(c) \o Device!AppendUint16(Device!crc16(BodyOf(c))))
    <2>1. /\ ~(TotalOf(c) > NVM_SIZE)
          /\ Device!encode(c) = Device!Encoded(BodyOf(c) \o Device!AppendUint16(Device!crc16(BodyOf(c))))
      BY Written, Refused, Zenon
    <2>2. TotalOf(c) \in Nat
      <3>1. PICK n \in Nat : n = Len(c.profiles)
        BY RunnableParts
      <3>2. FlattenSeq(Recs(c)) \in Seq(Octet)
        BY RunnableParts, ProfilePiecesType DEF Recs
      <3>3. PICK l \in Nat : l = Len(FlattenSeq(Recs(c)))
        BY <3>2
      <3>4. TotalOf(c) = 10 + 2 * n + l + 2
        BY <3>1, <3>3, Zenon DEF TotalOf
      <3> QED
        BY <3>4
    <2>3. TotalOf(c) <= NVM_SIZE
      BY <2>1, <2>2, FormatAssumption
    <2> QED
      BY <2>1, <2>3
  <1>2. PICK body \in Seq(Octet), n \in Octet, a \in Octet, t \in Words :
            body = BodyOf(c) /\ n = Len(c.profiles) /\ a = c.active /\ t = TotalOf(c) /\ t \in Nat /\ n \in Nat
    BY <1>1, BodyParts, RunnableParts, SizesAreWords
  <1>3. PICK m \in Nat : m = Len(body) /\ m + 2 = t /\ m >= 10 + 2 * n
    BY <1>1, <1>2, BodyParts
  <1>4. PICK crc \in Words : crc = Device!crc16(body)
    <2>1. m \in Nat \ {0}
      BY <1>2, <1>3
    <2>2. Len(body) \in Nat \ {0}
      BY <1>3, <2>1, Zenon
    <2> QED
      BY <2>2, ChecksumsAlike
  <1>5. PICK cb \in Seq(Octet) : cb = Device!AppendUint16(crc) /\ Len(cb) = 2
    BY Uint16Bytes
  <1>6. PICK blob \in Seq(Octet) : blob = body \o cb /\ Len(blob) = t
    <2>1. body \o cb \in Seq(Octet) /\ Len(body \o cb) = Len(body) + Len(cb)
      BY ConcatProperties, Zenon
    <2> QED
      BY <1>3, <1>5, <2>1, Zenon
  <1>7. Device!encode(c) = Device!Encoded(blob)
    BY <1>1, <1>2, <1>4, <1>5, <1>6, Zenon
  <1>8. Device!encode(c).blob = blob
    <2>1. \A b : Device!Encoded(b).blob = b
      BY DEF Device!Encoded
    <2> QED
      BY <1>7, <2>1, Zenon
  <1>9. PICK data \in Seq(Octet), L \in Nat : data = blob \o pad /\ L = Len(data) /\ t <= L
    <2>1. PICK data \in Seq(Octet) : data = blob \o pad
      BY ConcatOctets
    <2>2. Len(data) = Len(blob) + Len(pad)
      BY <2>1, ConcatProperties, Zenon
    <2>3. PICK L \in Nat, l \in Nat : L = Len(data) /\ l = Len(pad)
      OBVIOUS
    <2>4. L = t + l
      BY <1>6, <2>2, <2>3, Zenon
    <2>5. t <= L
      BY <1>2, <2>3, <2>4
    <2> QED
      BY <2>1, <2>3, <2>5, Zenon
  <1>10. At(data, 0, body) /\ At(data, m, cb)
    <2>1. At(data, 0, blob \o pad)
      BY <1>9, AtItself
    <2>2. 0 \in Nat /\ t \in Nat /\ 0 + m = m
      BY <1>2
    <2>3. At(data, 0, blob)
      BY <1>6, <2>1, <2>2, AtParts
    <2>4. At(data, 0, body \o cb)
      BY <1>6, <2>3, Zenon
    <2>5. At(data, 0, body) /\ At(data, 0 + m, cb)
      BY <1>3, <2>2, <2>4, AtParts
    <2> QED
      BY <2>2, <2>5, Zenon
  <1>11. \A i \in 1 .. m : data[i] = body[i]
    <2>1. \A i \in 1 .. m : data[0 + i] = body[i]
      BY <1>3, <1>10, Zenon DEF At
    <2>2. \A i \in 1 .. m : 0 + i = i
      OBVIOUS
    <2> QED
      BY <2>1, <2>2, Zenon
  <1>12. /\ body[1] = 75 /\ body[2] = 66 /\ body[3] = 50 /\ body[4] = 75
         /\ body[5] = 1 /\ body[7] = a /\ body[8] = n
    <2>1. PICK f \in Seq(Octet) : f = FirstEight(c) /\ Len(f) = 8 /\ f[1] = 75 /\ f[2] = 66 /\ f[3] = 50 /\ f[4] = 75
                                  /\ f[5] = 1 /\ f[7] = a /\ f[8] = n /\ At(body, 0, f)
      BY <1>1, <1>2, BodyParts, Zenon
    <2>2. \A i \in 1 .. 8 : body[0 + i] = f[i]
      BY <2>1, Zenon DEF At
    <2>3. \A i \in 1 .. 8 : 0 + i = i
      OBVIOUS
    <2>4. \A i \in 1 .. 8 : body[i] = f[i]
      BY <2>2, <2>3, Zenon
    <2>5. 1 \in 1 .. 8 /\ 2 \in 1 .. 8 /\ 3 \in 1 .. 8 /\ 4 \in 1 .. 8 /\ 5 \in 1 .. 8 /\ 7 \in 1 .. 8 /\ 8 \in 1 .. 8
      OBVIOUS
    <2>6. body[1] = f[1] /\ body[2] = f[2] /\ body[3] = f[3] /\ body[4] = f[4] /\ body[5] = f[5]
          /\ body[7] = f[7] /\ body[8] = f[8]
      BY <2>4, <2>5, Zenon
    <2> QED
      BY ONLY <2>1, <2>6, Zenon
  <1>13. /\ data[1] = 75 /\ data[2] = 66 /\ data[3] = 50 /\ data[4] = 75
         /\ data[5] = 1 /\ data[7] = a /\ data[8] = n
    <2>0. \A i \in 1 .. 8 : i \in 1 .. m
      BY <1>2, <1>3
    <2>1. \A i \in 1 .. 8 : data[i] = body[i]
      BY <2>0, <1>11, Zenon
    <2>2. 1 \in 1 .. 8 /\ 2 \in 1 .. 8 /\ 3 \in 1 .. 8 /\ 4 \in 1 .. 8 /\ 5 \in 1 .. 8 /\ 7 \in 1 .. 8 /\ 8 \in 1 .. 8
      OBVIOUS
    <2>3. data[1] = body[1] /\ data[2] = body[2] /\ data[3] = body[3] /\ data[4] = body[4] /\ data[5] = body[5]
          /\ data[7] = body[7] /\ data[8] = body[8]
      BY <2>1, <2>2, Zenon
    <2>4. data[1] = 75 /\ data[2] = 66
      BY ONLY <1>12, <2>3, Zenon
    <2>5. data[3] = 50 /\ data[4] = 75
      BY ONLY <1>12, <2>3, Zenon
    <2>6. data[5] = 1 /\ data[7] = a /\ data[8] = n
      BY ONLY <1>12, <2>3, Zenon
    <2> QED
      BY <2>4, <2>5, <2>6, Zenon
  <1>14. Device!Total(data) = t
    <2>1. At(body, 8, Device!AppendUint16(t)) /\ 8 \in Nat
      BY <1>1, <1>2, BodyParts, Zenon
    <2>2. Device!u16(body, 8) = t
      BY <2>1, U16At
    <2>3. data[9] = body[9] /\ data[10] = body[10]
      <3>1. 9 \in 1 .. m /\ 10 \in 1 .. m
        BY <1>2, <1>3
      <3> QED
        BY <3>1, <1>11, Zenon
    <2>4. Device!u16(data, 8) = Device!u16(body, 8)
      BY <2>3 DEF Device!u16
    <2> QED
      BY <2>2, <2>4, Zenon DEF Device!Total
  <1>15. Device!Body(data) = body
    <2>1. t - 2 = m /\ 0 + 1 = 1 /\ 0 + m = m /\ ~(0 + m > L) /\ 0 \in Nat
      BY <1>2, <1>3, <1>9
    <2>2. Device!Take(data, 0, Len(body)) = Device!Read(body, 0 + Len(body))
      BY <1>10, <2>1, TakeAt
    <2>3. Device!Take(data, 0, m) = Device!Read(SubSeq(data, 1, m), m)
      BY <1>9, <2>1, Zenon DEF Device!Take
    <2>4. Device!Read(body, 0 + Len(body)) = Device!Read(SubSeq(data, 1, m), m)
      BY <1>3, <2>2, <2>3, Zenon
    <2>5. SubSeq(data, 1, m) = body
      <3>1. Device!Read(body, 0 + Len(body)).val = body
        BY ReadFields, Zenon
      <3>2. Device!Read(SubSeq(data, 1, m), m).val = SubSeq(data, 1, m)
        BY ReadFields, Zenon
      <3> QED
        BY <2>4, <3>1, <3>2, Zenon
    <2> QED
      BY <1>14, <2>1, <2>5, Zenon DEF Device!Body, Device!CRC_TRAILER
  <1>16. Device!u16(data, t - 2) = crc
    <2>1. t - 2 = m
      BY <1>2, <1>3
    <2>2. Device!u16(data, m) = crc
      BY <1>5, <1>10, U16At
    <2> QED
      BY <2>1, <2>2, Zenon
  <1>17. SubSeq(data, 1, 4) = <<75, 66, 50, 75>>
    <2>1. PICK u \in Seq(Octet) : u = SubSeq(data, 1, 4) /\ Len(u) = 4 /\ \A i \in 1 .. 4 : u[i] = data[i]
      <3>1. 4 \in Nat /\ 4 <= Len(data)
        BY <1>2, <1>3, <1>9
      <3>2. /\ SubSeq(data, 1, 4) \in Seq(Octet) /\ Len(SubSeq(data, 1, 4)) = 4
            /\ \A i \in 1 .. 4 : SubSeq(data, 1, 4)[i] = data[i]
        BY <3>1, PrefixType
      <3> QED
        BY <3>2, Zenon
    <2>2. u = <<75, 66, 50, 75>>
      <3>1. PICK d \in Octet, b \in Octet, e \in Octet : d = 75 /\ b = 66 /\ e = 50
        BY DEF Octet
      <3>2. /\ <<d, b, e, d>> \in Seq(Octet) /\ Len(<<d, b, e, d>>) = 4
            /\ <<d, b, e, d>>[1] = d /\ <<d, b, e, d>>[2] = b /\ <<d, b, e, d>>[3] = e /\ <<d, b, e, d>>[4] = d
        BY Quadruple
      <3>3. PICK x \in Seq(Octet) : x = <<d, b, e, d>> /\ Len(x) = 4 /\ x[1] = d /\ x[2] = b /\ x[3] = e /\ x[4] = d
        BY <3>2, Zenon
      <3>4. u[1] = d /\ u[2] = b /\ u[3] = e /\ u[4] = d
        BY <1>13, <2>1, <3>1
      <3>5. Len(u) = Len(x) /\ \A i \in 1 .. Len(u) : u[i] = x[i]
        BY <2>1, <3>3, <3>4
      <3>6. u = x
        BY <3>5, SeqEqual
      <3> QED
        BY <3>1, <3>3, <3>6
    <2> QED
      BY <2>1, <2>2, Zenon
  <1>18. t \in 12 .. L /\ L >= 12 /\ n \in 1 .. MAX_PROFILES /\ ~(a >= n) /\ ~(m < 10 + 2 * n)
    <2>1. t \in 12 .. L /\ L >= 12 /\ ~(m < 10 + 2 * n)
      BY <1>2, <1>3, <1>9
    <2>2. n \in 1 .. MAX_PROFILES /\ a < n
      BY <1>2, RunnableParts, Zenon
    <2>3. a \in Nat
      BY OctetNat
    <2>4. ~(a >= n)
      BY <1>2, <2>2, <2>3
    <2> QED
      BY <2>1, <2>2, <2>4
  <1>19. Device!Whole(data)
    <2>1. Len(data) >= 10 + 2 /\ t \in 10 + 2 .. Len(data)
      BY <1>9, <1>18
    <2> QED
      BY <1>4, <1>13, <1>14, <1>15, <1>16, <1>17, <2>1, Zenon
      DEF Device!Whole, Device!HEADER_BASE, Device!CRC_TRAILER, Device!MAGIC, Device!FORMAT_VERSION
  <1>20. PICK ps : ps = Device!decode_profiles(body, n) /\ ps.ok = TRUE /\ ps.val = c.profiles
    BY <1>1, <1>2, ProfilesAt, Zenon
  <1>21. Device!decode(data) = Device!Decoded([format_version |-> 1, active |-> a, profiles |-> c.profiles])
    <2>1. ~(n \notin 1 .. MAX_PROFILES \/ Len(body) < 10 + 2 * n \/ a >= n)
      BY <1>3, <1>18
    <2> QED
      BY <1>13, <1>15, <1>19, <1>20, <2>1, Zenon DEF Device!decode, Device!Then, Device!HEADER_BASE
  <1>22. c = [format_version |-> 1, active |-> a, profiles |-> c.profiles]
    BY <1>2, RunnableParts, Zenon
  <1> QED
    BY <1>1, <1>2, <1>6, <1>8, <1>9, <1>14, <1>21, <1>22, Zenon

\* A step that the host validates is one the device can run.
LEMMA ValidStepRuns ==
    ASSUME NEW s \in Step, Host!ValidStep(s)
    PROVE  s \in RunStep
  <1>1. s.type = 1 => Len(s.text) \in 1 .. MAX_TEXT_LEN
    <2>1. Host!ValidStep(s) = CASE s.type = 0 -> s.keycode # 0
                                [] s.type = 1 -> Len(s.text) \in 1 .. MAX_TEXT_LEN
                                [] s.type = 2 -> s.consumer # 0
                                [] s.type = 3 -> s.delay_ms <= Host!MAX_DELAY_MS
      BY Zenon DEF Host!ValidStep, Host!STEP_KEY, Host!STEP_TEXT, Host!STEP_CONSUMER, Host!STEP_DELAY
    <2> SUFFICES ASSUME s.type = 1 PROVE Len(s.text) \in 1 .. MAX_TEXT_LEN
      OBVIOUS
    <2>2. s.type # 0 /\ s.type # 2 /\ s.type # 3
      OBVIOUS
    <2> QED
      BY <2>1, <2>2, Zenon
  <1>2. \A k \in 1 .. MAX_TEXT_LEN : k <= 255
    BY FormatAssumption
  <1> QED
    BY <1>1, <1>2, Zenon DEF RunStep

\* A sequence whose elements are in another set.
LEMMA SeqFrom ==
    ASSUME NEW V, NEW W, NEW s \in Seq(V), \A i \in DOMAIN s : s[i] \in V => s[i] \in W
    PROVE  s \in Seq(W)
  OBVIOUS

\* A binding that the host validates is one the device can run.
LEMMA ValidBindingRuns ==
    ASSUME NEW b \in Binding, Host!ValidBinding(b)
    PROVE  b \in RunBinding
  <1>1. b.color \in Colour /\ b.steps \in Seq(Step) /\ b = [color |-> b.color, steps |-> b.steps]
    BY DEF Binding
  <1>2. Len(b.steps) <= MAX_STEPS /\ \A i \in DOMAIN b.steps : Host!ValidStep(b.steps[i])
    BY Zenon DEF Host!ValidBinding
  <1>3. \A i \in DOMAIN b.steps : b.steps[i] \in Step => b.steps[i] \in RunStep
    BY <1>2, ValidStepRuns
  <1>4. b.steps \in Seq(RunStep)
    BY <1>1, <1>3, SeqFrom, Zenon
  <1>5. b \in [color : Colour, steps : Seq(RunStep)]
    BY <1>1, <1>4
  <1> QED
    BY <1>2, <1>5, Zenon DEF RunBinding

\* A profile that the host validates is one the device can run.
LEMMA ValidProfileRuns ==
    ASSUME NEW p \in Profile, Host!ValidProfile(p)
    PROVE  p \in RunProfile
  <1>1. /\ Len(p.name) <= MAX_NAME_LEN /\ p.overflow <= 2 /\ p.idle_mode <= 3 /\ Len(p.slots) \in 1 .. MAX_SLOTS
        /\ Host!ValidBinding(p.tap) /\ \A i \in DOMAIN p.slots : Host!ValidBinding(p.slots[i])
    BY Zenon DEF Host!ValidProfile, Host!OVERFLOW_CLAMP, Host!IDLE_RAINBOW
  <1>2. p.tap \in Binding /\ p.slots \in Seq(Binding)
    BY DEF Profile
  <1>3. p.tap \in RunBinding
    BY <1>1, <1>2, ValidBindingRuns
  <1>4. p.slots \in Seq(RunBinding)
    <2>1. \A i \in DOMAIN p.slots : p.slots[i] \in Binding => p.slots[i] \in RunBinding
      BY <1>1, ValidBindingRuns
    <2> QED
      BY <1>2, <2>1, SeqFrom, Zenon
  <1>5. p \in [name : Seq(Ascii), dwell_ms : Words, tap_max_ms : Words, overflow : Octet, ext_count : Octet,
            brightness : Octet, idle_mode : Octet, idle_color : Colour, tap : RunBinding, slots : Seq(RunBinding)]
    BY <1>3, <1>4 DEF Profile
  <1> QED
    BY <1>1, <1>5, Zenon DEF RunProfile

\* A configuration that the host validates is one the device can run.
LEMMA ValidRuns ==
    ASSUME NEW c \in Configuration, Host!Validate(c)
    PROVE  c \in Runnable
  <1>1. /\ c.format_version = 1 /\ Len(c.profiles) \in 1 .. MAX_PROFILES /\ c.active < Len(c.profiles)
        /\ \A i \in DOMAIN c.profiles : Host!ValidProfile(c.profiles[i])
    BY Zenon DEF Host!Validate, Host!FORMAT_VERSION
  <1>2. c.profiles \in Seq(Profile)
    BY DEF Configuration
  <1>3. c.profiles \in Seq(RunProfile)
    <2>1. \A i \in DOMAIN c.profiles : c.profiles[i] \in Profile => c.profiles[i] \in RunProfile
      BY <1>1, ValidProfileRuns
    <2> QED
      BY <1>2, <2>1, SeqFrom, Zenon
  <1>4. c \in [format_version : {1}, active : Octet, profiles : Seq(RunProfile)]
    BY <1>1, <1>3 DEF Configuration
  <1> QED
    BY <1>1, <1>4, Zenon DEF Runnable

\* The two writers write alike.
LEMMA WritersAlike ==
    /\ \A s : Host!encodeStep(s) = Device!encode_step(s)
    /\ \A b : Host!appendBinding(b) = Device!encode_binding(b)
    /\ \A p : Host!encodeProfile(p) = Device!encode_profile(p)
    /\ \A v : Host!AppendUint16(v) = Device!AppendUint16(v)
  <1>1. \A s : Host!encodeStep(s) = Device!encode_step(s)
    BY Zenon DEF Host!encodeStep, Device!encode_step, Host!STEP_KEY, Host!STEP_TEXT,
       Host!STEP_CONSUMER, Host!STEP_DELAY,
       Device!STEP_KEY, Device!STEP_TEXT, Device!STEP_CONSUMER, Device!STEP_DELAY, Host!AppendUint16, Device!AppendUint16
  <1>2. \A s : Host!Joined(Host!encodeStep, s) = FlattenSeq(StepPieces(s))
    <2>1. \A s : [i \in DOMAIN s |-> Host!encodeStep(s[i])] = StepPieces(s)
      BY <1>1, Zenon DEF StepPieces
    <2> QED
      BY <2>1, FlattensAlike, Zenon DEF Host!Joined
  <1>3. \A b : Host!appendBinding(b) = Device!encode_binding(b)
    BY <1>2, JoinedPieces, Zenon DEF Host!appendBinding, Device!encode_binding
  <1>4. \A s : Host!Joined(Host!appendBinding, s) = FlattenSeq(BindingPieces(s))
    <2>1. \A s : [i \in DOMAIN s |-> Host!appendBinding(s[i])] = BindingPieces(s)
      BY <1>3, Zenon DEF BindingPieces
    <2> QED
      BY <2>1, FlattensAlike, Zenon DEF Host!Joined
  <1>5. \A v : Host!AppendUint16(v) = Device!AppendUint16(v)
    BY Zenon DEF Host!AppendUint16, Device!AppendUint16
  <1>6. \A p : Host!encodeProfile(p) = Device!encode_profile(p)
    BY <1>3, <1>4, <1>5, JoinedPieces, Zenon DEF Host!encodeProfile, Device!encode_profile
  <1> QED
    BY <1>1, <1>3, <1>5, <1>6, Zenon

\* What the host writes, given the length it announces.
Announcing(c, size) ==
    ((FirstEight(c) \o Device!AppendUint16(size)) \o FlattenSeq(WordPieces(Offs(c)))) \o FlattenSeq(Recs(c))

\* What the host's Encode writes: the same parts, announcing the length predicted.
LEMMA HostWritten ==
    ASSUME NEW c \in Runnable
    PROVE  Host!Encode(c)
             = IF Host!Validate(c) /\ Len(Announcing(c, Host!EncodedSize(c))) + 2 = Host!EncodedSize(c)
               THEN Host!Encoded(Announcing(c, Host!EncodedSize(c))
                                   \o Device!AppendUint16(Host!crc16(Announcing(c, Host!EncodedSize(c)))))
               ELSE Host!Refuse
  <1>1. PICK n \in Nat : n = Len(c.profiles)
    BY RunnableParts
  <1>2. PICK e : e = Host!EncodedSize(c)
    OBVIOUS
  <1>3. [i \in 1 .. n |-> Host!encodeProfile(c.profiles[i])] = Recs(c)
    BY <1>1, WritersAlike, Zenon DEF Recs, ProfilePieces
  <1>4. [i \in 1 .. n |-> 10 + 2 * n + Len(FlattenSeq(SubSeq(Recs(c), 1, i - 1)))] = Offs(c)
    <2>1. /\ DOMAIN Offs(c) = 1 .. n
          /\ \A i \in 1 .. n : Offs(c)[i] = 10 + 2 * n + Len(FlattenSeq(SubSeq(Recs(c), 1, i - 1)))
      BY <1>1, OffsetsAre DEF UpTo
    <2>2. Offs(c) = [i \in DOMAIN Offs(c) |-> Offs(c)[i]]
      BY Zenon DEF Offs, Device!Offsets
    <2> QED
      BY <2>1, <2>2, Zenon
  <1>5. Host!Joined(Host!AppendUint16, Offs(c)) = FlattenSeq(WordPieces(Offs(c)))
    BY WritersAlike, FlattensAlike, Zenon DEF Host!Joined, WordPieces
  <1>6. Announcing(c, e) =
          <<75, 66, 50, 75>> \o <<c.format_version, 0, c.active, n>> \o Host!AppendUint16(e)
            \o Host!Joined(Host!AppendUint16, Offs(c)) \o FlattenSeq(Recs(c))
    BY <1>1, <1>5, WritersAlike, Zenon DEF Announcing, FirstEight
  <1> QED
    BY <1>1, <1>2, <1>3, <1>4, <1>6, WritersAlike, FlattensAlike, ZenonT(60)
    DEF Host!Encode, Host!MAGIC, Host!HEADER_BASE, Host!CRC_TRAILER

\* Any number is written as two octets.
LEMMA AnyUint16Bytes ==
    ASSUME NEW v \in Nat
    PROVE  Device!AppendUint16(v) \in Seq(Octet) /\ Len(Device!AppendUint16(v)) = 2
  <1>1. v % 256 \in Octet /\ (v \div 256) % 256 \in Octet
    BY DEF Octet
  <1>2. PICK x \in Octet, y \in Octet : x = v % 256 /\ y = (v \div 256) % 256
    BY <1>1
  <1>3. <<x, y>> \in Seq(Octet) /\ Len(<<x, y>>) = 2
    OBVIOUS
  <1> QED
    BY <1>2, <1>3, Zenon DEF Device!AppendUint16

\* However the length is announced, the body is as long as the records make it.
LEMMA AnnouncedLength ==
    ASSUME NEW c \in Runnable, NEW size
    PROVE  Len(Announcing(c, size)) + 2 = TotalOf(c) /\ TotalOf(c) \in Nat
  <1>1. PICK n \in Nat : n = Len(c.profiles)
    BY RunnableParts
  <1>2. PICK x, y : Device!AppendUint16(size) = <<x, y>>
    BY DEF Device!AppendUint16
  <1>3. PICK V : V = Octet \cup {x, y, c.format_version, c.active, n}
    OBVIOUS
  <1>4. Octet \subseteq V /\ x \in V /\ y \in V
    BY <1>3
  <1>5. \A s \in Seq(Octet) : s \in Seq(V)
    BY <1>4, SeqMonotonic
  <1>6. PICK f \in Seq(V) : f = FirstEight(c) /\ Len(f) = 8
    <2>1. 75 \in V /\ 66 \in V /\ 50 \in V /\ 0 \in V /\ n \in V /\ c.active \in V /\ c.format_version \in V
      BY <1>3 DEF Octet
    <2>2. \A p \in V, q \in V, r \in V, s \in V : <<p, q, r, s>> \in Seq(V) /\ Len(<<p, q, r, s>>) = 4
      OBVIOUS
    <2>3. PICK p \in Seq(V), q \in Seq(V) :
            p = <<75, 66, 50, 75>> /\ Len(p) = 4 /\ q = <<c.format_version, 0, c.active, n>> /\ Len(q) = 4
      <3>1. <<75, 66, 50, 75>> \in Seq(V) /\ Len(<<75, 66, 50, 75>>) = 4
        BY <2>1, <2>2, Zenon
      <3>2. <<c.format_version, 0, c.active, n>> \in Seq(V) /\ Len(<<c.format_version, 0, c.active, n>>) = 4
        BY <2>1, <2>2, Zenon
      <3>3. PICK p \in Seq(V) : p = <<75, 66, 50, 75>> /\ Len(p) = 4
        BY <3>1, Zenon
      <3>4. PICK q \in Seq(V) : q = <<c.format_version, 0, c.active, n>> /\ Len(q) = 4
        BY <3>2, Zenon
      <3> QED
        BY <3>3, <3>4, Zenon
    <2>4. p \o q \in Seq(V) /\ Len(p \o q) = Len(p) + Len(q)
      BY ConcatProperties, Zenon
    <2>5. 4 + 4 = 8
      OBVIOUS
    <2>6. p \o q = FirstEight(c)
      BY <1>1, <2>3, Zenon DEF FirstEight
    <2> QED
      BY <2>3, <2>4, <2>5, <2>6, Zenon
  <1>7. PICK tb \in Seq(V) : tb = Device!AppendUint16(size) /\ Len(tb) = 2
    <2>1. <<x, y>> \in Seq(V) /\ Len(<<x, y>>) = 2
      BY <1>4
    <2> QED
      BY <1>2, <2>1, Zenon
  <1>8. PICK ob \in Seq(V) : ob = FlattenSeq(WordPieces(Offs(c))) /\ Len(ob) = 2 * n
    <2>1. \A i \in 1 .. n : Offs(c)[i] \in Nat
      <3>1. PICK recs \in Seq(Seq(Octet)) : recs = Recs(c) /\ Len(recs) = n
        BY <1>1, RunnableParts, ProfilePiecesType DEF Recs
      <3> SUFFICES ASSUME NEW i \in 1 .. n PROVE Offs(c)[i] \in Nat
        OBVIOUS
      <3>2. i - 1 \in 0 .. Len(recs) - 1
        BY <3>1
      <3>3. Len(UpTo(recs, i - 1)) \in Nat
        BY <3>2, PartFits
      <3>4. Offs(c)[i] = 10 + 2 * n + Len(UpTo(recs, i - 1))
        BY <1>1, <3>1, OffsetsAre
      <3> QED
        BY <3>3, <3>4
    <2>2. DOMAIN Offs(c) = 1 .. n
      BY <1>1, OffsetsAre
    <2>3. PICK pieces : pieces = WordPieces(Offs(c))
      OBVIOUS
    <2>4. pieces = [i \in 1 .. n |-> Device!AppendUint16(Offs(c)[i])]
      BY <2>2, <2>3, Zenon DEF WordPieces
    <2>5. \A i \in 1 .. n : pieces[i] \in Seq(Octet) /\ Len(pieces[i]) = 2
      BY <2>1, <2>4, AnyUint16Bytes
    <2>6. pieces \in Seq(Seq(Octet)) /\ Len(pieces) = n
      BY <2>4, <2>5
    <2>7. Len(FlattenSeq(pieces)) = 2 * n
      BY <2>5, <2>6, PairsLength
    <2>8. FlattenSeq(pieces) \in Seq(Octet)
      BY <2>6, FlattenType
    <2> QED
      BY <1>5, <2>3, <2>7, <2>8, Zenon
  <1>9. PICK rb \in Seq(V), L \in Nat : rb = FlattenSeq(Recs(c)) /\ L = Len(rb)
    <2>1. FlattenSeq(Recs(c)) \in Seq(Octet)
      BY RunnableParts, ProfilePiecesType DEF Recs
    <2> QED
      BY <1>5, <2>1
  <1>10. Announcing(c, size) = ((f \o tb) \o ob) \o rb
    BY <1>6, <1>7, <1>8, <1>9, Zenon DEF Announcing
  <1>11. Len(((f \o tb) \o ob) \o rb) = ((8 + 2) + 2 * n) + L
    <2>1. f \o tb \in Seq(V) /\ Len(f \o tb) = 8 + 2
      <3>1. f \o tb \in Seq(V) /\ Len(f \o tb) = Len(f) + Len(tb)
        BY ConcatProperties, Zenon
      <3> QED
        BY <1>6, <1>7, <3>1, Zenon
    <2>2. (f \o tb) \o ob \in Seq(V) /\ Len((f \o tb) \o ob) = (8 + 2) + 2 * n
      <3>1. PICK g \in Seq(V) : g = f \o tb
        BY <2>1
      <3>2. g \o ob \in Seq(V) /\ Len(g \o ob) = Len(g) + Len(ob)
        BY ConcatProperties, Zenon
      <3> QED
        BY <1>8, <2>1, <3>1, <3>2, Zenon
    <2>3. PICK h \in Seq(V) : h = (f \o tb) \o ob
      BY <2>2
    <2>4. Len(h \o rb) = Len(h) + Len(rb)
      BY ConcatProperties, Zenon
    <2> QED
      BY <1>9, <2>2, <2>3, <2>4, Zenon
  <1>12. TotalOf(c) = 10 + 2 * n + L + 2
    BY <1>1, <1>9, Zenon DEF TotalOf
  <1>13. ((8 + 2) + 2 * n) + L + 2 = 10 + 2 * n + L + 2 /\ 10 + 2 * n + L + 2 \in Nat
    BY <1>9
  <1> QED
    BY <1>10, <1>11, <1>12, <1>13, Zenon

\* What the host writes is what the device would write, and fits.
THEOREM HostWritesAlike ==
    ASSUME NEW c \in Configuration, Host!Encode(c).ok, NVM_SIZE < 256 * 256
    PROVE  /\ c \in Runnable /\ Device!encode(c).ok /\ Host!Encode(c) = Device!encode(c)
           /\ Host!EncodedSize(c) = TotalOf(c) /\ TotalOf(c) <= NVM_SIZE
  <1>1. Host!Validate(c)
    BY Zenon DEF Host!Encode, Host!Refuse
  <1>2. c \in Runnable
    BY <1>1, ValidRuns
  <1>3. Len(Announcing(c, Host!EncodedSize(c))) + 2 = Host!EncodedSize(c)
    <2>1. Host!Refuse.ok = FALSE
      BY DEF Host!Refuse
    <2>2. Host!Encode(c) # Host!Refuse
      BY <2>1
    <2> QED
      BY <1>2, <2>2, HostWritten, Zenon
  <1>4. Host!EncodedSize(c) = TotalOf(c) /\ TotalOf(c) \in Nat
    BY <1>2, <1>3, AnnouncedLength, Zenon
  <1>5. TotalOf(c) <= NVM_SIZE
    BY <1>1, <1>4, Zenon DEF Host!Validate
  <1>6. Announcing(c, TotalOf(c)) = BodyOf(c)
    BY Zenon DEF Announcing, BodyOf
  <1>7. Host!crc16(BodyOf(c)) = Device!crc16(BodyOf(c))
    <2>1. Len(BodyOf(c)) \in Nat \ {0}
      <3>1. PICK n \in Nat : n = Len(c.profiles)
        BY <1>2, RunnableParts
      <3>2. BodyOf(c) \in Seq(Octet) /\ Len(BodyOf(c)) >= 10 + 2 * n
        BY <1>2, <1>5, <3>1, BodyParts, Zenon
      <3>3. PICK L \in Nat : L = Len(BodyOf(c)) /\ L >= 10 + 2 * n
        BY <3>2
      <3>4. L # 0
        BY <3>3
      <3> QED
        BY <3>3, <3>4
    <2> QED
      BY <2>1, ChecksumsAlike
  <1>8. Host!Encode(c) = Host!Encoded(BodyOf(c) \o Device!AppendUint16(Device!crc16(BodyOf(c))))
    BY <1>1, <1>2, <1>3, <1>4, <1>6, <1>7, HostWritten, Zenon
  <1>9. Device!encode(c) = Device!Encoded(BodyOf(c) \o Device!AppendUint16(Device!crc16(BodyOf(c))))
    <2>1. Len(c.profiles) \in 1 .. MAX_PROFILES /\ ~(c.active >= Len(c.profiles)) /\ ~(TotalOf(c) > NVM_SIZE)
      <3>1. PICK n \in Nat, a \in Nat, t \in Nat, N \in Nat :
              n = Len(c.profiles) /\ a = c.active /\ t = TotalOf(c) /\ a < n /\ N = NVM_SIZE /\ t <= N
        BY <1>2, <1>4, <1>5, RunnableParts, OctetNat, FormatAssumption
      <3>2. ~(a >= n) /\ ~(t > N)
        BY <3>1
      <3> QED
        BY <1>2, <3>1, <3>2, RunnableParts, Zenon
    <2> QED
      BY <2>1, Written, Zenon
  <1>10. \A b : Host!Encoded(b) = Device!Encoded(b) /\ Device!Encoded(b).ok
    BY DEF Host!Encoded, Device!Encoded
  <1> QED
    BY <1>2, <1>4, <1>5, <1>8, <1>9, <1>10, Zenon

\* A length fits 16 bits.
LEMMA StorageIsSmall == NVM_SIZE < 256 * 256
  BY InputAssumption DEF Device!WORD

\* Both ends answer alike.
LEMMA DecodedAlike == \A c : Host!Decoded(c) = Device!Decoded(c) /\ Device!Decoded(c).ok /\ Device!Decoded(c).config = c
  BY DEF Host!Decoded, Device!Decoded

\* Nothing behind a sequence.
LEMMA NothingBehind == ASSUME NEW s \in Seq(Octet) PROVE s \o <<>> = s /\ <<>> \in Seq(Octet)
  OBVIOUS

\* A blob the host has written, with anything behind it.
LEMMA WrittenIsRead ==
    ASSUME NEW c \in Configs, Host!Encode(c).ok, NEW pad \in Seq(Octet)
    PROVE  LET blob == Host!Encode(c).blob
           IN  /\ blob \in Seq(Octet) /\ blob \o pad \in Seq(Octet)
               /\ Device!decode(blob \o pad) = Device!Decoded(c)
               /\ Host!Decode(blob \o pad) = Host!Decoded(c)
               /\ Len(blob) = Host!EncodedSize(c) /\ Len(blob) <= NVM_SIZE
               /\ Device!Total(blob \o pad) = Len(blob)
  <1>1. /\ c \in Runnable /\ Device!encode(c).ok /\ Host!Encode(c) = Device!encode(c)
        /\ Host!EncodedSize(c) = TotalOf(c)
    <2>1. c \in Configuration
      BY InputAssumption
    <2> QED
      BY <2>1, StorageIsSmall, HostWritesAlike, Zenon
  <1>2. PICK blob : blob = Host!Encode(c).blob
    OBVIOUS
  <1>3. /\ blob \in Seq(Octet) /\ Len(blob) = TotalOf(c) /\ TotalOf(c) <= NVM_SIZE
        /\ Device!decode(blob \o pad) = Device!Decoded(c)
        /\ Device!Total(blob \o pad) = TotalOf(c)
    BY <1>1, <1>2, StorageIsSmall, RoundTrip, Zenon
  <1>4. blob \o pad \in Seq(Octet)
    BY <1>3, ConcatOctets
  <1>5. Host!Decode(blob \o pad) = Device!decode(blob \o pad)
    <2>1. blob \o pad \in Seq(Nat)
      BY <1>4, OctetsAreNumbers
    <2>2. Device!decode(blob \o pad).ok
      BY <1>3, DecodedAlike, Zenon
    <2> QED
      BY <2>1, <2>2, HostReadsAlikeDevice, Zenon
  <1> QED
    BY <1>1, <1>2, <1>3, <1>4, <1>5, DecodedAlike, Zenon

\* What runs, stored again, is the same.
THEOREM StoredAgainIsSame ==
    ASSUME NEW data \in Seq(Octet), Device!decode(data).ok,
           Device!encode(Device!decode(data).config).ok
    PROVE  Device!decode(Device!encode(Device!decode(data).config).blob) = Device!decode(data)
  <1>1. PICK c \in Runnable : Device!decode(data) = Device!Decoded(c)
    BY DecodeRuns
  <1>2. Device!decode(data).config = c
    BY <1>1, DecodedAlike, Zenon
  <1>3. PICK blob : blob = Device!encode(c).blob
    OBVIOUS
  <1>4. <<>> \in Seq(Octet)
    OBVIOUS
  <1>5. blob \in Seq(Octet) /\ Device!decode(blob \o <<>>) = Device!Decoded(c)
    BY <1>2, <1>3, <1>4, StorageIsSmall, RoundTrip, Zenon
  <1>6. blob \o <<>> = blob
    BY <1>5, NothingBehind
  <1> QED
    BY <1>1, <1>2, <1>3, <1>5, <1>6, Zenon

\* What was flipped can be flipped back.
LEMMA FlipInjective ==
    ASSUME NEW v \in Nat, NEW w \in Nat, NEW bit \in Nat \ {0}, Device!Flip(v, bit) = Device!Flip(w, bit)
    PROVE  v = w
  <1>1. ASSUME NEW x \in Nat
        PROVE  \E q \in Nat, r \in 0 .. bit - 1, p \in Nat :
                 /\ x = bit * q + r /\ Device!Flip(x, bit) = bit * p + r
                 /\ p = IF q % 2 = 1 THEN q - 1 ELSE q + 1
    <2>1. PICK q \in Nat, r \in 0 .. bit - 1 : q = x \div bit /\ x = bit * q + r
      BY DivMod
    <2>2. CASE q % 2 = 1
      <3>1. q - 1 \in Nat
        BY <2>2
      <3>2. bit * (q - 1) = bit * q - bit
        OBVIOUS
      <3>3. x - bit = bit * (q - 1) + r
        BY <2>1, <3>2
      <3> QED
        BY <2>1, <2>2, <3>1, <3>3 DEF Device!Flip
    <2>3. CASE q % 2 # 1
      <3>1. bit * (q + 1) = bit * q + bit
        OBVIOUS
      <3>2. x + bit = bit * (q + 1) + r
        BY <2>1, <3>1
      <3> QED
        BY <2>1, <2>3, <3>2, SMTT(30) DEF Device!Flip
    <2> QED
      BY <2>2, <2>3
  <1>2. PICK q \in Nat, r \in 0 .. bit - 1, p \in Nat :
          /\ v = bit * q + r /\ Device!Flip(v, bit) = bit * p + r /\ p = IF q % 2 = 1 THEN q - 1 ELSE q + 1
    BY <1>1
  <1>3. PICK q2 \in Nat, r2 \in 0 .. bit - 1, p2 \in Nat :
          /\ w = bit * q2 + r2 /\ Device!Flip(w, bit) = bit * p2 + r2 /\ p2 = IF q2 % 2 = 1 THEN q2 - 1 ELSE q2 + 1
    BY <1>1
  <1>4. p = p2 /\ r = r2
    <2>1. (bit * p + r) \div bit = p /\ (bit * p + r) % bit = r
      BY DivUnique, SMTT(30)
    <2>2. (bit * p2 + r2) \div bit = p2 /\ (bit * p2 + r2) % bit = r2
      BY DivUnique
    <2> QED
      BY <1>2, <1>3, <2>1, <2>2, Zenon
  <1>5. q = q2
    BY <1>2, <1>3, <1>4
  <1> QED
    BY <1>2, <1>3, <1>4, <1>5, Zenon

\* An even number is made odd by the first flip, and stays so.
LEMMA FlipFirst ==
    ASSUME NEW v \in Nat, v % 2 = 0
    PROVE  Device!Flip(v, 1) = v + 1 /\ (v + 1) % 2 = 1
  <1>1. v \div 1 = v
    OBVIOUS
  <1> QED
    BY <1>1 DEF Device!Flip

\* Flipping a higher bit leaves the lowest one.
LEMMA FlipKeepsOdd ==
    ASSUME NEW v \in Nat, NEW bit \in Nat \ {0}, v % 2 = 1
    PROVE  Device!Flip(v, 2 * bit) % 2 = 1
  <1>1. PICK b \in Nat : b = 2 * bit
    OBVIOUS
  <1>2. Device!Flip(v, b) = v - b \/ Device!Flip(v, b) = v + b
    BY DEF Device!Flip
  <1> QED
    BY <1>1, <1>2

\* A flipped bit leaves a number.
LEMMA FlipNat ==
    ASSUME NEW v \in Nat, NEW bit \in Nat \ {0}
    PROVE  Device!Flip(v, bit) \in Nat
  <1>1. PICK q \in Nat, r \in 0 .. bit - 1 : q = v \div bit /\ v = bit * q + r
    BY DivMod
  <1>2. CASE q % 2 = 1
    <2>1. q >= 1
      BY <1>2
    <2>2. bit * q >= bit
      BY <2>1
    <2> QED
      BY <1>1, <1>2, <2>2 DEF Device!Flip
  <1>3. CASE q % 2 # 1
    BY <1>1, <1>3 DEF Device!Flip
  <1> QED
    BY <1>2, <1>3

\* The polynomial has a term of degree zero, so that a shift loses nothing.
LEMMA ShiftInjective ==
    ASSUME NEW a \in Words, NEW b \in Words, Device!Shift(a) = Device!Shift(b)
    PROVE  a = b
  <1> DEFINE Low(c) == (2 * c) % Device!WORD
  <1>1. PICK H \in Nat : H = 256 * 128 /\ Device!WORD = 2 * H
    BY WordsAlike
  <1>2. ASSUME NEW c \in Words
        PROVE  /\ c \in Nat /\ Low(c) \in Nat /\ Low(c) % 2 = 0
               /\ Low(c) = IF 2 * c >= Device!WORD THEN 2 * c - Device!WORD ELSE 2 * c
    <2>1. PICK n \in Nat : n = c /\ n < 2 * H
      BY <1>1, WordRange
    <2>2. CASE n < H
      <3>1. (2 * n) % (2 * H) = 2 * n
        BY <2>2
      <3> QED
        BY <1>1, <2>1, <2>2, <3>1
    <2>3. CASE n >= H
      <3>1. 2 * n = (2 * H) * 1 + (2 * n - 2 * H) /\ 2 * n - 2 * H \in 0 .. (2 * H) - 1 /\ 2 * H \in Nat \ {0}
        BY <2>1, <2>3
      <3>2. (2 * n) % (2 * H) = 2 * n - 2 * H
        BY <3>1
      <3> QED
        BY <1>1, <2>1, <2>3, <3>2
    <2> QED
      BY <2>1, <2>2, <2>3
  <1> DEFINE One(c) == Device!Flip(Low(c), 1)
             Two(c) == Device!Flip(One(c), 32)
             Three(c) == Device!Flip(Two(c), 16 * 256)
  <1>3. \A c : Device!Shift(c) = IF 2 * c >= Device!WORD THEN Three(c) ELSE Low(c)
    BY Zenon DEF Device!Shift
  <1>4. ASSUME NEW c \in Words
        PROVE  /\ One(c) \in Nat /\ Two(c) \in Nat /\ Three(c) \in Nat
               /\ Three(c) % 2 = 1
    <2> HIDE DEF Low
    <2>1. One(c) \in Nat /\ One(c) % 2 = 1
      <3>1. PICK v \in Nat : v = Low(c) /\ v % 2 = 0
        BY <1>2
      <3>2. Device!Flip(v, 1) = v + 1 /\ (v + 1) % 2 = 1
        BY <3>1, FlipFirst
      <3> QED
        BY <3>1, <3>2
    <2>2. Two(c) \in Nat /\ Two(c) % 2 = 1
      <3>1. PICK k \in Nat \ {0} : k = 16 /\ 2 * k = 32
        OBVIOUS
      <3> HIDE DEF One
      <3>2. PICK v \in Nat : v = One(c) /\ v % 2 = 1
        BY <2>1
      <3>3. 2 * k \in Nat \ {0}
        OBVIOUS
      <3>4. Device!Flip(v, 2 * k) \in Nat
        BY <3>3, FlipNat
      <3>5. Device!Flip(v, 2 * k) % 2 = 1
        BY <3>2, FlipKeepsOdd
      <3> QED
        BY <3>1, <3>2, <3>4, <3>5, Zenon
    <2>3. Three(c) \in Nat /\ Three(c) % 2 = 1
      <3>1. PICK k \in Nat \ {0} : 2 * k = 16 * 256
        OBVIOUS
      <3> HIDE DEF Two
      <3>2. PICK v \in Nat : v = Two(c) /\ v % 2 = 1
        BY <2>2
      <3>3. 2 * k \in Nat \ {0}
        OBVIOUS
      <3>4. Device!Flip(v, 2 * k) \in Nat
        BY <3>3, FlipNat
      <3>5. Device!Flip(v, 2 * k) % 2 = 1
        BY <3>2, FlipKeepsOdd
      <3> QED
        BY <3>1, <3>2, <3>4, <3>5, Zenon
    <2> QED
      BY <2>1, <2>2, <2>3
  <1>5. ASSUME Three(a) = Three(b) PROVE Low(a) = Low(b)
    <2> HIDE DEF Low
    <2>1. Two(a) = Two(b)
      <3> HIDE DEF Two
      <3>1. PICK k \in Nat \ {0} : k = 16 * 256
        OBVIOUS
      <3>2. Device!Flip(Two(a), k) = Device!Flip(Two(b), k)
        BY <1>5, <3>1, Zenon
      <3> QED
        BY <1>4, <3>2, FlipInjective
    <2>2. One(a) = One(b)
      <3> HIDE DEF One
      <3>1. PICK k \in Nat \ {0} : k = 32
        OBVIOUS
      <3>2. Device!Flip(One(a), k) = Device!Flip(One(b), k)
        BY <2>1, <3>1, Zenon
      <3> QED
        BY <1>4, <3>2, FlipInjective
    <2> QED
      BY <1>2, <2>2, FlipInjective
  <1> HIDE DEF Three, Low
  <1>6. CASE 2 * a >= Device!WORD /\ 2 * b >= Device!WORD
    <2>1. Low(a) = Low(b)
      BY <1>3, <1>5, <1>6, Zenon
    <2> QED
      BY <1>1, <1>2, <1>6, <2>1
  <1>7. CASE ~(2 * a >= Device!WORD) /\ ~(2 * b >= Device!WORD)
    BY <1>1, <1>2, <1>3, <1>7
  <1>8. CASE 2 * a >= Device!WORD /\ ~(2 * b >= Device!WORD)
    <2>1. Three(a) = Low(b)
      BY <1>3, <1>8, Zenon
    <2> QED
      BY <1>2, <1>4, <2>1
  <1>9. CASE ~(2 * a >= Device!WORD) /\ 2 * b >= Device!WORD
    <2>1. Three(b) = Low(a)
      BY <1>3, <1>9, Zenon
    <2> QED
      BY <1>2, <1>4, <2>1
  <1> QED
    BY <1>6, <1>7, <1>8, <1>9

\* Shifting by a byte loses nothing.
LEMMA EightShiftsInjective ==
    ASSUME NEW a \in Words, NEW b \in Words, Device!EightShifts[a] = Device!EightShifts[b]
    PROVE  a = b
  <1> DEFINE S(x) == Device!Shift(x)
  <1>1. \A x \in Words : Device!EightShifts[x] = S(S(S(S(S(S(S(S(x))))))))
    BY Zenon DEF Device!EightShifts, Words
  <1>2. \A x \in Words : S(x) \in Words
    BY ShiftWord
  <1>3. \A x \in Words, y \in Words : S(x) = S(y) => x = y
    BY ShiftInjective
  <1> HIDE DEF S
  <1>4. PICK a1 \in Words, b1 \in Words : a1 = S(a) /\ b1 = S(b)
    BY <1>2
  <1>5. PICK a2 \in Words, b2 \in Words : a2 = S(a1) /\ b2 = S(b1)
    BY <1>2
  <1>6. PICK a3 \in Words, b3 \in Words : a3 = S(a2) /\ b3 = S(b2)
    BY <1>2
  <1>7. PICK a4 \in Words, b4 \in Words : a4 = S(a3) /\ b4 = S(b3)
    BY <1>2
  <1>8. PICK a5 \in Words, b5 \in Words : a5 = S(a4) /\ b5 = S(b4)
    BY <1>2
  <1>9. PICK a6 \in Words, b6 \in Words : a6 = S(a5) /\ b6 = S(b5)
    BY <1>2
  <1>10. PICK a7 \in Words, b7 \in Words : a7 = S(a6) /\ b7 = S(b6)
    BY <1>2
  <1>11. Device!EightShifts[a] = S(a7) /\ Device!EightShifts[b] = S(b7)
    <2>1. Device!EightShifts[a] = S(S(S(S(S(S(S(S(a))))))))
      BY <1>1
    <2>2. Device!EightShifts[b] = S(S(S(S(S(S(S(S(b))))))))
      BY <1>1
    <2>3. Device!EightShifts[a] = S(a7)
      BY <2>1, <1>4, <1>5, <1>6, <1>7, <1>8, <1>9, <1>10, Zenon
    <2>4. Device!EightShifts[b] = S(b7)
      BY <2>2, <1>4, <1>5, <1>6, <1>7, <1>8, <1>9, <1>10, Zenon
    <2> QED
      BY <2>3, <2>4
  <1>12. a7 = b7
    BY <1>3, <1>11, Zenon
  <1>13. a5 = b5
    BY <1>3, <1>9, <1>10, <1>12, Zenon
  <1>14. a3 = b3
    BY <1>3, <1>7, <1>8, <1>13, Zenon
  <1>15. a1 = b1
    BY <1>3, <1>5, <1>6, <1>14, Zenon
  <1> QED
    BY <1>3, <1>4, <1>15, Zenon

\* The bits of a byte say which it is.
SameBits(a, b) == \A k \in {1, 2, 4, 8, 16, 32, 64, 128} : (a \div k) % 2 = (b \div k) % 2

\* Eight bits are an octet.
LEMMA OctetOfBits ==
    ASSUME NEW a \in 0 .. 255, NEW b \in 0 .. 255, SameBits(a, b)
    PROVE  a = b
  <1>0. /\ a % 2 = b % 2 /\ (a \div 2) % 2 = (b \div 2) % 2 /\ (a \div 4) % 2 = (b \div 4) % 2
        /\ (a \div 8) % 2 = (b \div 8) % 2 /\ (a \div 16) % 2 = (b \div 16) % 2 /\ (a \div 32) % 2 = (b \div 32) % 2
        /\ (a \div 64) % 2 = (b \div 64) % 2 /\ (a \div 128) % 2 = (b \div 128) % 2
    <2>1. /\ (a \div 1) % 2 = (b \div 1) % 2 /\ (a \div 2) % 2 = (b \div 2) % 2 /\ (a \div 4) % 2 = (b \div 4) % 2
          /\ (a \div 8) % 2 = (b \div 8) % 2 /\ (a \div 16) % 2 = (b \div 16) % 2 /\ (a \div 32) % 2 = (b \div 32) % 2
          /\ (a \div 64) % 2 = (b \div 64) % 2 /\ (a \div 128) % 2 = (b \div 128) % 2
      BY Zenon DEF SameBits
    <2>2. a \div 1 = a /\ b \div 1 = b
      OBVIOUS
    <2> QED
      BY <2>1, <2>2, Zenon
  <1>1. ASSUME NEW x \in Nat, NEW y \in Nat, x \div 2 = y \div 2, x % 2 = y % 2 PROVE x = y
    BY <1>1
  <1>2. ASSUME NEW x \in Nat
        PROVE  /\ x \div 2 \in Nat /\ x \div 4 \in Nat /\ x \div 8 \in Nat /\ x \div 16 \in Nat
               /\ x \div 32 \in Nat /\ x \div 64 \in Nat /\ x \div 128 \in Nat
               /\ (x \div 2) \div 2 = x \div 4 /\ (x \div 4) \div 2 = x \div 8 /\ (x \div 8) \div 2 = x \div 16
               /\ (x \div 16) \div 2 = x \div 32 /\ (x \div 32) \div 2 = x \div 64 /\ (x \div 64) \div 2 = x \div 128
    OBVIOUS
  <1>3. a \in Nat /\ b \in Nat /\ (a \div 128) \div 2 = (b \div 128) \div 2
    OBVIOUS
  <1>4. a \div 128 = b \div 128
    BY <1>0, <1>1, <1>2, <1>3
  <1>5. a \div 64 = b \div 64
    BY <1>0, <1>1, <1>2, <1>3, <1>4
  <1>6. a \div 32 = b \div 32
    BY <1>0, <1>1, <1>2, <1>3, <1>5
  <1>7. a \div 16 = b \div 16
    BY <1>0, <1>1, <1>2, <1>3, <1>6
  <1>8. a \div 8 = b \div 8
    BY <1>0, <1>1, <1>2, <1>3, <1>7
  <1>9. a \div 4 = b \div 4
    BY <1>0, <1>1, <1>2, <1>3, <1>8
  <1>10. a \div 2 = b \div 2
    BY <1>0, <1>1, <1>2, <1>3, <1>9
  <1> QED
    BY <1>0, <1>1, <1>3, <1>10

\* Exclusive or with the same byte keeps two bytes apart.
LEMMA XorInjective ==
    ASSUME NEW a \in 0 .. 255, NEW b \in 0 .. 255, NEW c \in 0 .. 255,
           \/ Device!Xor(a, c) = Device!Xor(b, c)
           \/ Device!Xor(c, a) = Device!Xor(c, b)
    PROVE  a = b
  <1> DEFINE bit(k, x, y) == IF (x \div k) % 2 = (y \div k) % 2 THEN 0 ELSE k
  <1>1. \A k, x, y : bit(k, x, y) = bit(k, y, x)
    BY Zenon
  <1>2. \A x, y : Device!Xor(x, y) = bit(1, x, y) + bit(2, x, y) + bit(4, x, y) + bit(8, x, y) + bit(16, x, y) + bit(32, x, y) + bit(64, x, y) + bit(128, x, y)
    BY Zenon DEF Device!Xor
  <1>3. \A k, x, y : bit(k, x, y) = 0 \/ bit(k, x, y) = k
    OBVIOUS
  <1>4. ASSUME NEW k \in Nat \ {0}, bit(k, a, c) = bit(k, b, c) PROVE (a \div k) % 2 = (b \div k) % 2
    <2>1. (a \div k) % 2 \in 0 .. 1 /\ (b \div k) % 2 \in 0 .. 1 /\ (c \div k) % 2 \in 0 .. 1
      <3>1. a \div k \in Nat /\ b \div k \in Nat /\ c \div k \in Nat
        <4>1. a \in Nat /\ b \in Nat /\ c \in Nat
          OBVIOUS
        <4> QED
          BY <4>1, DivMod
      <3> QED
        BY <3>1
    <2> QED
      BY <1>4, <2>1
  <1> HIDE DEF bit
  <1>5. Device!Xor(a, c) = Device!Xor(b, c)
    <2>1. \A x, y : Device!Xor(x, y) = Device!Xor(y, x)
      <3> SUFFICES ASSUME NEW x, NEW y PROVE Device!Xor(x, y) = Device!Xor(y, x)
        OBVIOUS
      <3>1. bit(1, x, y) = bit(1, y, x) /\ bit(2, x, y) = bit(2, y, x) /\ bit(4, x, y) = bit(4, y, x)
            /\ bit(8, x, y) = bit(8, y, x) /\ bit(16, x, y) = bit(16, y, x) /\ bit(32, x, y) = bit(32, y, x)
            /\ bit(64, x, y) = bit(64, y, x) /\ bit(128, x, y) = bit(128, y, x)
        BY <1>1, Zenon
      <3>2. Device!Xor(x, y) = bit(1, x, y) + bit(2, x, y) + bit(4, x, y) + bit(8, x, y) + bit(16, x, y) + bit(32, x, y) + bit(64, x, y) + bit(128, x, y)
        BY <1>2, Zenon
      <3>3. Device!Xor(y, x) = bit(1, y, x) + bit(2, y, x) + bit(4, y, x) + bit(8, y, x) + bit(16, y, x) + bit(32, y, x) + bit(64, y, x) + bit(128, y, x)
        BY <1>2, Zenon
      <3> QED
        BY <3>1, <3>2, <3>3
    <2> QED
      BY <2>1, Zenon
  <1>6. /\ bit(1, a, c) = bit(1, b, c) /\ bit(2, a, c) = bit(2, b, c) /\ bit(4, a, c) = bit(4, b, c)
        /\ bit(8, a, c) = bit(8, b, c) /\ bit(16, a, c) = bit(16, b, c) /\ bit(32, a, c) = bit(32, b, c)
        /\ bit(64, a, c) = bit(64, b, c) /\ bit(128, a, c) = bit(128, b, c)
    BY <1>2, <1>3, <1>5, SMTT(30)
  <1>7. /\ 1 \in Nat \ {0} /\ 2 \in Nat \ {0} /\ 4 \in Nat \ {0} /\ 8 \in Nat \ {0}
        /\ 16 \in Nat \ {0} /\ 32 \in Nat \ {0} /\ 64 \in Nat \ {0} /\ 128 \in Nat \ {0}
    OBVIOUS
  <1>8. SameBits(a, b)
    <2> SUFFICES ASSUME NEW k \in {1, 2, 4, 8, 16, 32, 64, 128} PROVE (a \div k) % 2 = (b \div k) % 2
      BY DEF SameBits
    <2>1. k \in Nat \ {0} /\ bit(k, a, c) = bit(k, b, c)
      BY <1>6
    <2> QED
      BY <1>4, <2>1
  <1> QED
    BY <1>8, OctetOfBits

\* How a byte is taken in: h and l are the bytes of the sum, w what is shifted.
TakenIn(e, z, h, l, w) ==
    e = 256 * h + l /\ w = 256 * Device!Xor(h, z) + l /\ OneByte(e, z) = Device!EightShifts[w]

\* The checksum, in two bytes, as it takes in one more.
LEMMA OneByteTaken ==
    ASSUME NEW e \in Words, NEW z \in 0 .. 255
    PROVE  \E h \in 0 .. 255, l \in 0 .. 255, w \in Words : TakenIn(e, z, h, l, w)
  <1>1. PICK n \in Nat : n = e /\ n < 256 * 256
    <2>1. e \in Nat /\ e < Device!WORD /\ Device!WORD = 256 * 256
      BY WordRange, WordsAlike
    <2> QED
      BY <2>1, Zenon
  <1>2. PICK h \in Nat, l \in 0 .. 255 : h = n \div 256 /\ l = n % 256 /\ n = 256 * h + l
    <2>1. n \div 256 \in Nat /\ n % 256 \in 0 .. 255 /\ n = 256 * (n \div 256) + (n % 256)
      OBVIOUS
    <2> QED
      BY <2>1, Zenon
  <1>3. h \in 0 .. 255
    BY <1>1, <1>2
  <1>4. PICK q \in 0 .. 255 : q = Device!Xor(h, z)
    BY XorByte
  <1>5. PICK w \in Nat : w = 256 * q + l /\ w < 256 * 256
    OBVIOUS
  <1>6. w \in Words
    <2>1. PICK W \in Nat : W = Device!WORD /\ W = 256 * 256
      BY WordsAlike
    <2>2. w < W
      BY <1>5, <2>1, Zenon
    <2>3. w \in 0 .. W - 1
      BY <2>2
    <2> QED
      BY <2>1, <2>3, Zenon DEF Words
  <1>7. TakenIn(e, z, h, l, w)
    BY <1>1, <1>2, <1>4, <1>5, Zenon DEF OneByte, TakenIn
  <1> QED
    BY <1>3, <1>6, <1>7, Zenon

\* One byte taken in makes different sums of different sums.
LEMMA SumsInjective ==
    ASSUME NEW c \in Words, NEW d \in Words, NEW x \in 0 .. 255, OneByte(c, x) = OneByte(d, x)
    PROVE  c = d
  <1>1. PICK h \in 0 .. 255, l \in 0 .. 255, w \in Words : TakenIn(c, x, h, l, w)
    BY OneByteTaken
  <1>2. PICK h2 \in 0 .. 255, l2 \in 0 .. 255, w2 \in Words : TakenIn(d, x, h2, l2, w2)
    BY OneByteTaken
  <1>3. c = 256 * h + l /\ w = 256 * Device!Xor(h, x) + l /\ OneByte(c, x) = Device!EightShifts[w]
    BY <1>1, Zenon DEF TakenIn
  <1>4. d = 256 * h2 + l2 /\ w2 = 256 * Device!Xor(h2, x) + l2 /\ OneByte(d, x) = Device!EightShifts[w2]
    BY <1>2, Zenon DEF TakenIn
  <1>5. w = w2
    BY <1>3, <1>4, EightShiftsInjective
  <1>6. Device!Xor(h, x) = Device!Xor(h2, x) /\ l = l2
    <2>1. PICK p \in 0 .. 255, q \in 0 .. 255 : p = Device!Xor(h, x) /\ q = Device!Xor(h2, x)
      BY XorByte
    <2>2. 256 * p + l = 256 * q + l2
      BY <1>3, <1>4, <1>5, <2>1, Zenon
    <2>3. p = q /\ l = l2
      BY <2>2
    <2> QED
      BY <2>1, <2>3
  <1>7. h = h2
    BY <1>6, XorInjective
  <1> QED
    BY <1>3, <1>4, <1>6, <1>7, Zenon

\* Different bytes make different sums of one sum.
LEMMA BytesInjective ==
    ASSUME NEW c \in Words, NEW x \in 0 .. 255, NEW y \in 0 .. 255, OneByte(c, x) = OneByte(c, y)
    PROVE  x = y
  <1>1. PICK h \in 0 .. 255, l \in 0 .. 255, w \in Words : TakenIn(c, x, h, l, w)
    BY OneByteTaken
  <1>2. PICK h2 \in 0 .. 255, l2 \in 0 .. 255, w2 \in Words : TakenIn(c, y, h2, l2, w2)
    BY OneByteTaken
  <1>3. c = 256 * h + l /\ w = 256 * Device!Xor(h, x) + l /\ OneByte(c, x) = Device!EightShifts[w]
    BY <1>1, Zenon DEF TakenIn
  <1>4. c = 256 * h2 + l2 /\ w2 = 256 * Device!Xor(h2, y) + l2 /\ OneByte(c, y) = Device!EightShifts[w2]
    BY <1>2, Zenon DEF TakenIn
  <1>5. w = w2
    BY <1>3, <1>4, EightShiftsInjective
  <1>6. Device!Xor(h, x) = Device!Xor(h2, y) /\ l = l2
    <2>1. PICK p \in 0 .. 255, q \in 0 .. 255 : p = Device!Xor(h, x) /\ q = Device!Xor(h2, y)
      BY XorByte
    <2>2. 256 * p + l = 256 * q + l2
      BY <1>3, <1>4, <1>5, <2>1, Zenon
    <2>3. p = q /\ l = l2
      BY <2>2
    <2> QED
      BY <2>1, <2>3
  <1>7. 256 * h + l = 256 * h2 + l2
    BY <1>3, <1>4, Zenon
  <1>8. h = h2
    BY <1>7
  <1> QED
    BY <1>6, <1>8, XorInjective, ZenonT(60)

\* Two byte strings of one length that differ in one place.
OneApart(body, other, L, d) ==
    /\ \A i \in 1 .. L : body[i] \in 0 .. 255 /\ other[i] \in 0 .. 255
    /\ \A i \in 1 .. L : i # d => other[i] = body[i]
    /\ other[d] # body[d]

\* What two such strings make of one part: where they are the same, sums stay as same or as
\* different as they were; where they differ, one sum becomes two.
Apart(f, g, d, a, b) ==
    \A c \in Words, e \in Words :
        /\ d \notin a .. b => (f[<<a, b, c>>] = g[<<a, b, e>>] => c = e)
        /\ d \notin a .. b => f[<<a, b, c>>] = g[<<a, b, c>>]
        /\ d \in a .. b => f[<<a, b, c>>] # g[<<a, b, c>>]

\* The checksum behind a stretch is a word.
LEMMA PartIsWord ==
    ASSUME NEW body, NEW L \in Nat, NEW f, TakesIn(f, body, L, L)
    PROVE  \A a \in 1 .. L, b \in 1 .. L, c \in Words : f[<<a, b, c>>] \in Words
  BY TakesInAlike, Zenon DEF SameParts

\* The checksum behind a stretch, from those behind its halves.
LEMMA TwoHalves ==
    ASSUME NEW text, NEW L \in Nat, NEW h, TakesIn(h, text, L, L),
           NEW a \in 1 .. L, NEW b \in 1 .. L, NEW s \in Words, a < b
    PROVE  h[<<a, b, s>>] = h[<<Middle(a, b) + 1, b, h[<<a, Middle(a, b), s>>]>>]
  <1>1. b - a <= L /\ ~(a >= b)
    OBVIOUS
  <1>2. h[<<a, b, s>>] = IF a >= b THEN OneByte(s, text[a])
                         ELSE h[<<Middle(a, b) + 1, b, h[<<a, Middle(a, b), s>>]>>]
    BY <1>1, Zenon DEF TakesIn
  <1> QED
    BY <1>1, <1>2, Zenon

\* A stretch of one byte keeps checksums apart.
LEMMA OneBytePart ==
    ASSUME NEW body, NEW other, NEW L \in Nat, NEW d \in 1 .. L, OneApart(body, other, L, d),
           NEW f, NEW g, TakesIn(f, body, L, L), TakesIn(g, other, L, L), NEW a \in 1 .. L
    PROVE  Apart(f, g, d, a, a)
  <1> SUFFICES ASSUME NEW c \in Words, NEW e \in Words
               PROVE  /\ d \notin a .. a => (f[<<a, a, c>>] = g[<<a, a, e>>] => c = e)
                      /\ d \notin a .. a => f[<<a, a, c>>] = g[<<a, a, c>>]
                      /\ d \in a .. a => f[<<a, a, c>>] # g[<<a, a, c>>]
    BY DEF Apart
  <1>1. PICK x \in 0 .. 255, y \in 0 .. 255 : x = body[a] /\ y = other[a]
    BY Zenon DEF OneApart
  <1>2. a >= a /\ (d \in a .. a <=> d = a)
    OBVIOUS
  <1>3. f[<<a, a, c>>] = OneByte(c, x) /\ g[<<a, a, c>>] = OneByte(c, y) /\ g[<<a, a, e>>] = OneByte(e, y)
    <2>0. a - a <= L
      OBVIOUS
    <2>1. f[<<a, a, c>>] = OneByte(c, body[a])
      BY <1>2, <2>0, Zenon DEF TakesIn
    <2>2. g[<<a, a, c>>] = OneByte(c, other[a]) /\ g[<<a, a, e>>] = OneByte(e, other[a])
      BY <1>2, <2>0, Zenon DEF TakesIn
    <2> QED
      BY <1>1, <2>1, <2>2, Zenon
  <1>4. CASE d = a
    <2>1. x # y
      BY <1>1, <1>4, Zenon DEF OneApart
    <2>2. OneByte(c, x) # OneByte(c, y)
      BY <2>1, BytesInjective
    <2> QED
      BY <1>2, <1>3, <1>4, <2>2, Zenon
  <1>5. CASE d # a
    <2>1. x = y
      BY <1>1, <1>5, Zenon DEF OneApart
    <2>2. OneByte(c, x) = OneByte(e, x) => c = e
      BY SumsInjective
    <2>3. OneByte(c, x) = OneByte(c, y)
      BY <2>1, Zenon
    <2> QED
      BY <1>2, <1>3, <1>5, <2>1, <2>2, <2>3, Zenon
  <1> QED
    BY <1>4, <1>5

\* So does a stretch whose halves do.
LEMMA PartsApart ==
    ASSUME NEW body, NEW other, NEW L \in Nat, NEW d \in 1 .. L, OneApart(body, other, L, d),
           NEW f, NEW g, TakesIn(f, body, L, L), TakesIn(g, other, L, L),
           NEW a \in 1 .. L, NEW b \in 1 .. L, a < b,
           Apart(f, g, d, a, Middle(a, b)), Apart(f, g, d, Middle(a, b) + 1, b)
    PROVE  Apart(f, g, d, a, b)
  <1> SUFFICES ASSUME NEW c \in Words, NEW e \in Words
               PROVE  /\ d \notin a .. b => (f[<<a, b, c>>] = g[<<a, b, e>>] => c = e)
                      /\ d \notin a .. b => f[<<a, b, c>>] = g[<<a, b, c>>]
                      /\ d \in a .. b => f[<<a, b, c>>] # g[<<a, b, c>>]
    BY DEF Apart
  <1>1. PICK m \in 1 .. L : m = Middle(a, b) /\ m \in a .. b - 1
    <2>1. Middle(a, b) \in a .. b - 1
      BY MiddleBetween
    <2> QED
      BY <2>1
  <1>2. ~(a >= b) /\ m + 1 \in 1 .. L
    BY <1>1
  <1>3. PICK u \in Words, v \in Words, w \in Words :
            u = f[<<a, m, c>>] /\ v = g[<<a, m, c>>] /\ w = g[<<a, m, e>>]
    BY <1>1, PartIsWord, Zenon
  <1>4. f[<<a, b, c>>] = f[<<m + 1, b, u>>] /\ g[<<a, b, c>>] = g[<<m + 1, b, v>>] /\ g[<<a, b, e>>] = g[<<m + 1, b, w>>]
    <2>1. /\ f[<<a, b, c>>] = f[<<Middle(a, b) + 1, b, f[<<a, Middle(a, b), c>>]>>]
          /\ g[<<a, b, c>>] = g[<<Middle(a, b) + 1, b, g[<<a, Middle(a, b), c>>]>>]
          /\ g[<<a, b, e>>] = g[<<Middle(a, b) + 1, b, g[<<a, Middle(a, b), e>>]>>]
      BY TwoHalves
    <2> QED
      BY <1>1, <1>3, <2>1, Zenon
  <1>5. /\ d \notin a .. m => ((u = w => c = e) /\ u = v)
        /\ d \in a .. m => u # v
    BY <1>1, <1>3, Zenon DEF Apart
  <1>6. /\ d \notin m + 1 .. b => (f[<<m + 1, b, u>>] = g[<<m + 1, b, v>>] => u = v)
        /\ d \notin m + 1 .. b => (f[<<m + 1, b, u>>] = g[<<m + 1, b, w>>] => u = w)
        /\ d \notin m + 1 .. b => f[<<m + 1, b, u>>] = g[<<m + 1, b, u>>]
        /\ d \in m + 1 .. b => f[<<m + 1, b, u>>] # g[<<m + 1, b, u>>]
    BY <1>1, Zenon DEF Apart
  <1>7. /\ d \notin a .. b => d \notin a .. m /\ d \notin m + 1 .. b
        /\ d \in a .. b => \/ d \in a .. m /\ d \notin m + 1 .. b
                           \/ d \notin a .. m /\ d \in m + 1 .. b
    BY <1>1
  <1> QED
    BY <1>4, <1>5, <1>6, <1>7, Zenon

\* So does every stretch.
LEMMA AllApart ==
    ASSUME NEW body, NEW other, NEW L \in Nat, NEW d \in 1 .. L, OneApart(body, other, L, d),
           NEW f, NEW g, TakesIn(f, body, L, L), TakesIn(g, other, L, L)
    PROVE  \A a \in 1 .. L, b \in 1 .. L : a <= b => Apart(f, g, d, a, b)
  <1> DEFINE T == {n \in Nat : \A a \in 1 .. L, b \in 1 .. L : a <= b /\ b - a <= n => Apart(f, g, d, a, b)}
  <1>1. 0 \in T
    <2>1. \A a \in 1 .. L, b \in 1 .. L : a <= b /\ b - a <= 0 => a = b
      OBVIOUS
    <2>2. \A a \in 1 .. L : Apart(f, g, d, a, a)
      BY OneBytePart
    <2>3. 0 \in Nat
      OBVIOUS
    <2> QED
      BY <2>1, <2>2, <2>3, Zenon
  <1>2. ASSUME NEW n \in T PROVE n + 1 \in T
    <2>0. n \in Nat /\ n + 1 \in Nat
      OBVIOUS
    <2>1. \A a \in 1 .. L, b \in 1 .. L : a <= b /\ b - a <= n => Apart(f, g, d, a, b)
      OBVIOUS
    <2>2. ASSUME NEW a \in 1 .. L, NEW b \in 1 .. L, a < b, b - a <= n + 1
          PROVE  Apart(f, g, d, a, b)
      <3>1. PICK m \in a .. b - 1 : m = Middle(a, b)
        BY <2>2, MiddleBetween
      <3>2. m \in 1 .. L /\ m + 1 \in 1 .. L /\ a <= m /\ m + 1 <= b /\ m - a <= n /\ b - (m + 1) <= n
        BY <2>0, <2>2
      <3>3. Apart(f, g, d, a, m) /\ Apart(f, g, d, m + 1, b)
        BY <2>1, <3>2, Zenon
      <3>4. Apart(f, g, d, a, Middle(a, b)) /\ Apart(f, g, d, Middle(a, b) + 1, b)
        BY <3>1, <3>3, Zenon
      <3> QED
        BY <2>2, <3>4, PartsApart
    <2>3. \A a \in 1 .. L, b \in 1 .. L : a <= b => a = b \/ a < b
      OBVIOUS
    <2>4. \A a \in 1 .. L : Apart(f, g, d, a, a)
      BY OneBytePart
    <2> QED
      BY <2>0, <2>2, <2>3, <2>4, Zenon
  <1> HIDE DEF T
  <1>3. L \in T
    BY <1>1, <1>2, Induction DEF T
  <1>4. \A a \in 1 .. L, b \in 1 .. L : b - a <= L
    OBVIOUS
  <1> QED
    BY <1>3, <1>4, Zenon DEF T

\* Two strings of one length that differ in one byte have different checksums (crc16 of blob.py
\* and codec.go): no such damage is ever missed.
THEOREM ChecksumSeesOneByte ==
    ASSUME NEW L \in Nat \ {0}, NEW body, NEW other, L = Len(body), L = Len(other),
           NEW d \in 1 .. L, OneApart(body, other, L, d)
    PROVE  Device!crc16(other) # Device!crc16(body)
  <1>1. PICK f : HalfByHalf(f, body, L) /\ Device!crc16(body) = f[<<1, L, Device!WORD - 1>>]
    BY DeviceHalfByHalf
  <1>2. PICK g : HalfByHalf(g, other, L) /\ Device!crc16(other) = g[<<1, L, Device!WORD - 1>>]
    BY DeviceHalfByHalf
  <1>3. TakesIn(f, body, L, L) /\ TakesIn(g, other, L, L)
    BY <1>1, <1>2, HalfByHalfTakesIn
  <1>4. 1 \in 1 .. L /\ L \in 1 .. L /\ 1 <= L
    OBVIOUS
  <1>5. PICK w \in Words : w = Device!WORD - 1
    BY WordsAlike DEF Words
  <1>6. Apart(f, g, d, 1, L)
    BY <1>3, <1>4, AllApart
  <1>7. f[<<1, L, w>>] # g[<<1, L, w>>]
    BY <1>6, Zenon DEF Apart
  <1> QED
    BY <1>1, <1>2, <1>5, <1>7, Zenon

\* The host takes nothing that the device's checks on the whole refuse.
LEMMA HostChecksWhole ==
    ASSUME NEW data \in Seq(Nat), Host!Decode(data).ok
    PROVE  Device!Whole(data)
  <1>1. PICK trim, body : trim = Host!Trim(data) /\ body = SubSeq(trim, 1, Len(trim) - 2)
    OBVIOUS
  <1>2. /\ ~(Len(data) < 10 + 2) /\ SubSeq(data, 1, 4) = Host!MAGIC /\ data[5] = 1
        /\ Host!u16(data, 8) \in 10 + 2 .. Len(data)
        /\ Host!crc16(body) = Host!u16(trim, Len(body))
    BY <1>1, Zenon DEF Host!Decode, Host!Refuse, Host!HEADER_BASE, Host!CRC_TRAILER, Host!FORMAT_VERSION
  <1>3. Host!MAGIC = Device!MAGIC /\ Host!u16(data, 8) = Device!Total(data)
    BY FieldsAlike DEF Host!MAGIC, Device!MAGIC, Device!Total
  <1>4. PICK total \in Nat : total = Device!Total(data) /\ total \in 12 .. Len(data) /\ Len(data) >= 12
    <2>1. PICK L \in Nat : L = Len(data)
      OBVIOUS
    <2>2. Device!Total(data) \in 10 + 2 .. L /\ ~(L < 10 + 2)
      BY <1>2, <1>3, <2>1, Zenon
    <2>3. Device!Total(data) \in Nat /\ Device!Total(data) \in 12 .. L /\ L >= 12
      BY <2>2
    <2> QED
      BY <2>1, <2>3, Zenon
  <1>5. PICK t \in Seq(Nat), b \in Seq(Nat) : Trimmed(data, total, t, b)
    BY <1>4, TrimmedAlike
  <1>6. /\ t = trim /\ b = body /\ body = Device!Body(data)
        /\ Host!crc16(body) = Device!crc16(body) /\ Host!u16(trim, Len(body)) = Device!u16(data, total - 2)
    BY <1>1, <1>5, Zenon DEF Trimmed
  <1>7. Device!crc16(Device!Body(data)) = Device!u16(data, Device!Total(data) - 2)
    BY <1>2, <1>4, <1>6, Zenon
  <1>8. Len(data) >= 10 + 2 /\ Device!Total(data) \in 10 + 2 .. Len(data)
    BY <1>4
  <1> QED
    BY <1>2, <1>3, <1>7, <1>8, Zenon DEF Device!Whole, Device!HEADER_BASE, Device!CRC_TRAILER,
       Device!FORMAT_VERSION

\* Neither end takes a buffer that the device's checks on the whole refuse.
LEMMA NotWholeIsRefused ==
    ASSUME NEW data \in Seq(Octet), ~Device!Whole(data)
    PROVE  ~Device!decode(data).ok /\ ~Host!Decode(data).ok
  <1>1. ~Device!decode(data).ok
    BY DEF Device!decode, Device!Refuse
  <1>2. data \in Seq(Nat)
    BY OctetsAreNumbers
  <1> QED
    BY <1>1, <1>2, HostChecksWhole

\* A blob that announces the length it has.
Proper(blob) == blob \in Seq(Octet) /\ Device!Whole(blob) /\ Device!Total(blob) = Len(blob)

\* What those checks say.
LEMMA WholeParts ==
    ASSUME NEW data \in Seq(Octet), Device!Whole(data)
    PROVE  /\ Len(data) \in Nat /\ Len(data) >= 12
           /\ Device!Total(data) \in Nat /\ Device!Total(data) >= 12 /\ Device!Total(data) <= Len(data)
           /\ Device!Body(data) = SubSeq(data, 1, Device!Total(data) - 2)
           /\ Device!crc16(Device!Body(data)) = Device!u16(data, Device!Total(data) - 2)
  BY DEF Device!Whole, Device!HEADER_BASE, Device!CRC_TRAILER, Device!Body

\* A blob whose end is missing does not pass.
LEMMA CutIsNotWhole ==
    ASSUME NEW blob, Proper(blob), NEW n \in 0 .. Len(blob) - 1
    PROVE  SubSeq(blob, 1, n) \in Seq(Octet) /\ ~Device!Whole(SubSeq(blob, 1, n))
  <1>1. PICK L \in Nat : L = Len(blob) /\ blob \in Seq(Octet) /\ n \in Nat /\ n < L
    BY DEF Proper
  <1>2. PICK cut \in Seq(Octet) : cut = SubSeq(blob, 1, n) /\ Len(cut) = n /\ \A i \in 1 .. n : cut[i] = blob[i]
    <2>1. n <= Len(blob)
      BY <1>1
    <2>2. /\ SubSeq(blob, 1, n) \in Seq(Octet) /\ Len(SubSeq(blob, 1, n)) = n
          /\ \A i \in 1 .. n : SubSeq(blob, 1, n)[i] = blob[i]
      BY <1>1, <2>1, PrefixType
    <2> QED
      BY <2>2, Zenon
  <1>3. ASSUME Device!Whole(cut) PROVE FALSE
    <2>1. n >= 12 /\ Device!Total(cut) \in Nat /\ Device!Total(cut) <= n
      BY <1>2, <1>3, WholeParts
    <2>2. 9 \in 1 .. n /\ 10 \in 1 .. n
      BY <2>1
    <2>3. cut[9] = blob[9] /\ cut[10] = blob[10]
      BY <1>2, <2>2, Zenon
    <2>4. Device!Total(cut) = Device!Total(blob)
      BY <2>3 DEF Device!Total, Device!u16
    <2>5. Device!Total(cut) = L
      BY <1>1, <2>4, Zenon DEF Proper
    <2> QED
      BY <1>1, <2>1, <2>5
  <1> QED
    BY <1>2, <1>3, Zenon

\* One byte is another, and the length announced is not less than what is there.
Changed(blob, i, v, other) ==
    /\ v # blob[i] /\ other \in Seq(Octet) /\ Len(other) = Len(blob)
    /\ other[i] = v
    /\ \A j \in 1 .. Len(blob) : j # i => other[j] = blob[j]
    /\ Device!Total(other) >= Len(other)

\* Neither does one of which a byte is changed, if it does not announce less than there is.
LEMMA ChangedIsNotWhole ==
    ASSUME NEW blob, Proper(blob), NEW i \in 1 .. Len(blob), NEW v \in Octet, NEW other, Changed(blob, i, v, other)
    PROVE  ~Device!Whole(other)
  <1> SUFFICES ASSUME Device!Whole(other) PROVE FALSE
    OBVIOUS
  <1>1. /\ blob \in Seq(Octet) /\ other \in Seq(Octet) /\ v # blob[i] /\ other[i] = v
        /\ Device!Whole(blob) /\ Device!Total(blob) = Len(blob) /\ Len(other) = Len(blob)
        /\ \A j \in 1 .. Len(blob) : j # i => other[j] = blob[j]
        /\ Device!Total(other) >= Len(other)
    BY Zenon DEF Proper, Changed
  <1>2. PICK L \in Nat : L = Len(blob) /\ L >= 12 /\ Len(other) = L /\ Device!Total(other) = L /\ Device!Total(blob) = L
    <2>1. PICK L \in Nat : L = Len(blob) /\ L >= 12
      BY <1>1, WholeParts
    <2>2. PICK t \in Nat : t = Device!Total(other) /\ t <= L /\ t >= L
      BY <1>1, <2>1, WholeParts
    <2>3. t = L
      BY <2>1, <2>2
    <2> QED
      BY <1>1, <2>1, <2>2, <2>3, Zenon
  <1>3. PICK m \in Nat : m = L - 2 /\ m + 2 = L /\ m # 0 /\ m <= L
    BY <1>2
  <1>4. /\ Device!crc16(SubSeq(blob, 1, m)) = Device!u16(blob, m)
        /\ Device!crc16(SubSeq(other, 1, m)) = Device!u16(other, m)
    <2>1. Device!Body(blob) = SubSeq(blob, 1, L - 2) /\ Device!crc16(Device!Body(blob)) = Device!u16(blob, L - 2)
      BY <1>1, <1>2, WholeParts
    <2>2. Device!Body(other) = SubSeq(other, 1, L - 2) /\ Device!crc16(Device!Body(other)) = Device!u16(other, L - 2)
      BY <1>1, <1>2, WholeParts
    <2> QED
      BY <1>3, <2>1, <2>2, Zenon
  <1>5. PICK x : x = SubSeq(blob, 1, m) /\ x \in Seq(Octet) /\ Len(x) = m /\ \A j \in 1 .. m : x[j] = blob[j]
    <2>1. m <= Len(blob) /\ blob \in Seq(Octet)
      BY <1>1, <1>2, <1>3
    <2>2. /\ SubSeq(blob, 1, m) \in Seq(Octet) /\ Len(SubSeq(blob, 1, m)) = m
          /\ \A j \in 1 .. m : SubSeq(blob, 1, m)[j] = blob[j]
      BY <2>1, PrefixType
    <2> QED
      BY <2>2, Zenon
  <1>6. PICK y : y = SubSeq(other, 1, m) /\ y \in Seq(Octet) /\ Len(y) = m /\ \A j \in 1 .. m : y[j] = other[j]
    <2>1. m <= Len(other) /\ other \in Seq(Octet)
      BY <1>1, <1>2, <1>3
    <2>2. /\ SubSeq(other, 1, m) \in Seq(Octet) /\ Len(SubSeq(other, 1, m)) = m
          /\ \A j \in 1 .. m : SubSeq(other, 1, m)[j] = other[j]
      BY <2>1, PrefixType
    <2> QED
      BY <2>2, Zenon
  <1>7. i \in 1 .. L /\ m + 1 \in 1 .. L /\ m + 2 \in 1 .. L /\ \A j \in 1 .. m : j \in 1 .. L
    BY <1>2, <1>3
  <1>8. CASE i \in 1 .. m
    <2>1. i # m + 1 /\ i # m + 2
      BY <1>8
    <2>2. other[m + 1] = blob[m + 1] /\ other[m + 2] = blob[m + 2]
      BY <1>1, <1>2, <1>7, <2>1, Zenon
    <2>3. Device!u16(other, m) = Device!u16(blob, m)
      BY <2>2, Zenon DEF Device!u16
    <2>4. OneApart(x, y, m, i)
      <3>1. \A j \in 1 .. m : x[j] \in 0 .. 255 /\ y[j] \in 0 .. 255
        BY <1>5, <1>6, ElementOfSeq DEF Octet
      <3>2. \A j \in 1 .. m : j # i => y[j] = x[j]
        BY <1>1, <1>2, <1>5, <1>6, <1>7, Zenon
      <3>3. y[i] # x[i]
        BY <1>1, <1>5, <1>6, <1>8, Zenon
      <3> QED
        BY <3>1, <3>2, <3>3, Zenon DEF OneApart
    <2>5. m \in Nat \ {0}
      BY <1>3
    <2>6. Device!crc16(y) # Device!crc16(x)
      BY ONLY <1>5, <1>6, <1>8, <2>4, <2>5, ChecksumSeesOneByte
    <2> QED
      BY <1>4, <1>5, <1>6, <2>3, <2>6, Zenon
  <1>9. CASE i \notin 1 .. m
    <2>1. i = m + 1 \/ i = m + 2
      BY <1>3, <1>7, <1>9
    <2>2. x = y
      <3>1. \A j \in 1 .. m : j # i
        BY <1>9
      <3>2. \A j \in 1 .. m : x[j] = y[j]
        BY <1>1, <1>2, <1>5, <1>6, <1>7, <3>1, Zenon
      <3> QED
        BY ONLY <1>5, <1>6, <3>2, m \in Nat, SeqEqual
    <2>3. PICK a \in Octet, b \in Octet, c \in Octet, d \in Octet :
              a = blob[m + 1] /\ b = blob[m + 2] /\ c = other[m + 1] /\ d = other[m + 2]
      <3>1. blob[m + 1] \in Octet /\ blob[m + 2] \in Octet /\ other[m + 1] \in Octet /\ other[m + 2] \in Octet
        BY <1>1, <1>2, <1>7, ElementOfSeq
      <3> QED
        BY <3>1, Zenon
    <2>4. a + 256 * b = c + 256 * d
      <3>1. Device!u16(blob, m) = a + 256 * b /\ Device!u16(other, m) = c + 256 * d
        BY <2>3 DEF Device!u16
      <3> QED
        BY <1>4, <1>5, <1>6, <2>2, <3>1, Zenon
    <2>5. a = c /\ b = d
      BY <2>4 DEF Octet
    <2> QED
      BY <1>1, <2>1, <2>3, <2>5, Zenon
  <1> QED
    BY <1>8, <1>9

\* What can be tried.
CodecInv ==
    /\ kind = "bytes" => input \in Seq(Byte)
    /\ kind = "text" => input \in Seq(Character)
    /\ kind = "blob" =>
         /\ config \in Configs /\ Host!Encode(config).ok
         /\ input \in Seq(Octet)
         /\ state = "whole" => input = Host!Encode(config).blob
         /\ state = "padded" => \E v \in Values : input = Host!Encode(config).blob \o <<v, v>>
         /\ state = "short" =>
              \E n \in 0 .. Len(Host!Encode(config).blob) - 1 : input = SubSeq(Host!Encode(config).blob, 1, n)
         /\ state = "damaged" =>
              /\ Len(input) >= 12
              /\ \E i \in DOMAIN Host!Encode(config).blob, v \in Values :
                   v # Host!Encode(config).blob[i] /\ input = [Host!Encode(config).blob EXCEPT ![i] = v]

\* What the host encodes are octets, a header and a checksum at least, and passes the checks.
LEMMA BlobIsBytes ==
    ASSUME NEW c \in Configs, Host!Encode(c).ok
    PROVE  /\ Host!Encode(c).blob \in Seq(Octet) /\ Len(Host!Encode(c).blob) >= 12
           /\ Proper(Host!Encode(c).blob)
  <1>1. PICK blob : blob = Host!Encode(c).blob
    OBVIOUS
  <1>2. /\ blob \in Seq(Octet) /\ Device!decode(blob \o <<>>) = Device!Decoded(c)
        /\ Device!Total(blob \o <<>>) = Len(blob)
    <2>1. <<>> \in Seq(Octet)
      OBVIOUS
    <2> QED
      BY <1>1, <2>1, WrittenIsRead
  <1>3. blob \o <<>> = blob
    BY <1>2, NothingBehind
  <1>4. Device!decode(blob).ok
    BY <1>2, <1>3, DecodedAlike, Zenon
  <1>5. Device!Whole(blob)
    BY <1>4 DEF Device!decode, Device!Refuse
  <1>6. Len(blob) >= 12
    BY <1>5 DEF Device!Whole, Device!HEADER_BASE, Device!CRC_TRAILER
  <1>7. Proper(blob)
    BY <1>2, <1>3, <1>5, Zenon DEF Proper
  <1> QED
    BY <1>1, <1>2, <1>6, <1>7, Zenon

\* The initial states.
LEMMA CodecInvInit == CodecInit => CodecInv
  <1> SUFFICES ASSUME CodecInit PROVE CodecInv
    OBVIOUS
  <1>1. state = "whole"
    BY DEF CodecInit
  <1>2. CASE kind \in {"bytes", "text"} /\ input = <<>>
    BY <1>2 DEF CodecInv
  <1>3. CASE kind = "blob" /\ config \in {c \in Configs : Host!Encode(c).ok} /\ input = Host!Encode(config).blob
    BY <1>1, <1>3, BlobIsBytes DEF CodecInv
  <1> QED
    BY <1>2, <1>3 DEF CodecInit

\* Octets are resealed to octets.
LEMMA ResealedIsBytes ==
    ASSUME NEW s \in Seq(Octet), Len(s) >= 12
    PROVE  LET body == SubSeq(s, 1, Len(s) - 2)
           IN  body \o Host!AppendUint16(Host!crc16(body)) \in Seq(Octet)
  <1>1. PICK m \in Nat : m = Len(s) - 2 /\ m <= Len(s) /\ m # 0
    <2>1. PICK L \in Nat : L = Len(s) /\ L >= 12
      OBVIOUS
    <2>2. L - 2 \in Nat /\ L - 2 <= L /\ L - 2 # 0
      BY <2>1
    <2> QED
      BY <2>1, <2>2
  <1>2. PICK body \in Seq(Octet) : body = SubSeq(s, 1, m) /\ Len(body) = m
    BY <1>1, PrefixType, Zenon
  <1>3. Host!crc16(body) \in Words
    BY <1>1, <1>2, ChecksumsAlike
  <1>4. Host!AppendUint16(Host!crc16(body)) \in Seq(Octet)
    BY <1>3, WritersAlike, Uint16Bytes
  <1>5. body \o Host!AppendUint16(Host!crc16(body)) \in Seq(Octet)
    BY <1>4, ConcatOctets
  <1> QED
    BY <1>1, <1>2, <1>5, Zenon

\* Every step.
LEMMA CodecInvStep == CodecInv /\ [CodecNext]_codecVars => CodecInv'
  <1> SUFFICES ASSUME CodecInv, [CodecNext]_codecVars PROVE CodecInv'
    OBVIOUS
  <1>1. ASSUME NEW s \in Byte \cup Character, Grow(s) PROVE CodecInv'
    <2>1. CASE kind = "bytes" /\ s \in Byte
      <3>1. input \in Seq(Byte) /\ input' = Append(input, s) /\ kind' = kind
        BY <1>1, <2>1 DEF CodecInv, Grow
      <3> QED
        BY <2>1, <3>1 DEF CodecInv
    <2>2. CASE kind = "text" /\ s \in Character
      <3>1. input \in Seq(Character) /\ input' = Append(input, s) /\ kind' = kind
        BY <1>1, <2>2 DEF CodecInv, Grow
      <3> QED
        BY <2>2, <3>1 DEF CodecInv
    <2> QED
      BY <1>1, <2>1, <2>2 DEF Grow
  <1>3. ASSUME NEW v \in Values, PadBlob(v) PROVE CodecInv'
    <2>1. /\ kind = "blob" /\ state = "whole" /\ input' = input \o <<v, v>> /\ state' = "padded"
          /\ kind' = kind /\ config' = config
      BY <1>3 DEF PadBlob, Become
    <2>2. config \in Configs /\ Host!Encode(config).ok /\ input = Host!Encode(config).blob /\ input \in Seq(Octet)
      BY <2>1 DEF CodecInv
    <2>3. <<v, v>> \in Seq(Octet)
      BY InputAssumption
    <2>4. input' \in Seq(Octet)
      BY <2>1, <2>2, <2>3, ConcatOctets
    <2>5. input' = Host!Encode(config').blob \o <<v, v>> /\ config' \in Configs /\ Host!Encode(config').ok
      BY <2>1, <2>2, Zenon
    <2> QED
      BY <2>1, <2>4, <2>5 DEF CodecInv
  <1>4. ASSUME NEW n \in 0 .. Len(input) - 1, CutShort(n) PROVE CodecInv'
    <2>1. /\ kind = "blob" /\ state = "whole" /\ input' = SubSeq(input, 1, n) /\ state' = "short"
          /\ kind' = kind /\ config' = config
      BY <1>4 DEF CutShort, Become
    <2>2. config \in Configs /\ Host!Encode(config).ok /\ input = Host!Encode(config).blob /\ input \in Seq(Octet)
      BY <2>1 DEF CodecInv
    <2>3. n \in Nat /\ n <= Len(input)
      BY <2>2
    <2>4. SubSeq(input, 1, n) \in Seq(Octet)
      BY <2>2, <2>3, PrefixType, Zenon
    <2>5. /\ config' \in Configs /\ Host!Encode(config').ok /\ input' \in Seq(Octet)
          /\ n \in 0 .. Len(Host!Encode(config').blob) - 1 /\ input' = SubSeq(Host!Encode(config').blob, 1, n)
      BY <2>1, <2>2, <2>4, Zenon
    <2> QED
      BY <2>1, <2>5 DEF CodecInv
  <1>5. ASSUME NEW i \in DOMAIN input, NEW v \in Values, Damage(i, v) PROVE CodecInv'
    <2>1. /\ kind = "blob" /\ state = "whole" /\ input[i] # v
          /\ input' = [input EXCEPT ![i] = v] /\ state' = "damaged" /\ kind' = kind /\ config' = config
      BY <1>5 DEF Damage, Become
    <2>2. /\ config \in Configs /\ Host!Encode(config).ok /\ input = Host!Encode(config).blob
          /\ input \in Seq(Octet) /\ Len(input) >= 12
      BY <2>1, BlobIsBytes DEF CodecInv
    <2>3. v \in Octet
      BY InputAssumption
    <2>4. [input EXCEPT ![i] = v] \in Seq(Octet) /\ Len([input EXCEPT ![i] = v]) = Len(input)
      BY <2>2, <2>3, ExceptSeq
    <2>5. /\ config' \in Configs /\ Host!Encode(config').ok /\ input' \in Seq(Octet) /\ Len(input') >= 12
          /\ i \in DOMAIN Host!Encode(config').blob /\ v # Host!Encode(config').blob[i]
          /\ input' = [Host!Encode(config').blob EXCEPT ![i] = v]
      BY <2>1, <2>2, <2>4, Zenon
    <2> QED
      BY <2>1, <2>5 DEF CodecInv
  <1>6. CASE Reseal
    <2>1. /\ kind = "blob" /\ state = "damaged" /\ state' = "resealed" /\ kind' = kind /\ config' = config
          /\ input' = SubSeq(input, 1, Len(input) - 2)
                        \o Host!AppendUint16(Host!crc16(SubSeq(input, 1, Len(input) - 2)))
      BY <1>6, Zenon DEF Reseal, Become
    <2>2. input \in Seq(Octet) /\ Len(input) >= 12 /\ config \in Configs /\ Host!Encode(config).ok
      BY <2>1 DEF CodecInv
    <2>3. input' \in Seq(Octet)
      BY <2>1, <2>2, ResealedIsBytes
    <2>4. config' \in Configs /\ Host!Encode(config').ok
      BY <2>1, <2>2, Zenon
    <2> QED
      BY <2>1, <2>3, <2>4 DEF CodecInv
  <1>7. CASE UNCHANGED codecVars
    BY <1>7 DEF CodecInv, codecVars
  <1> QED
    BY <1>1, <1>3, <1>4, <1>5, <1>6, <1>7 DEF CodecNext

\* The inductive invariant: what can be tried, and how a damaged blob comes from a whole one.
THEOREM CodecInvariant == CodecSpec => []CodecInv
  BY CodecInvInit, CodecInvStep, PTL DEF CodecSpec

\* Bytes travel whole in both directions, for all strings of bytes, whatever the radix.
THEOREM BytesAlwaysTravel == CodecSpec => []BytesTravel
  <1>1. CodecInv => BytesTravel
    BY UploadArrives, AnswerComesBack DEF CodecInv, BytesTravel
  <1> QED
    BY <1>1, CodecInvariant, PTL

\* No text means one thing to the device and another to the host, and counting characters
\* frames every upload.
THEOREM TextsAlwaysReadAlike == CodecSpec => []TextsReadAlike
  <1>1. CodecInv => TextsReadAlike
    <2>1. \A n \in 0 .. MAX_DATA : n \in Nat
      BY InputAssumption
    <2> QED
      BY <2>1, HostAgrees, CountFrames DEF CodecInv, TextsReadAlike
  <1> QED
    BY <1>1, CodecInvariant, PTL

\* What the host validates and encodes, the device accepts, as it was meant, and the host reads
\* back.
THEOREM HostBlobsAreAlwaysRead == CodecSpec => []HostBlobsAreRead
  <1>1. ASSUME CodecInv PROVE HostBlobsAreRead
    <2> SUFFICES ASSUME kind = "blob", state \in {"whole", "padded"}
                 PROVE  /\ Device!decode(input) = Device!Decoded(config)
                        /\ Host!Decode(input) = Host!Decoded(config)
                        /\ state = "whole" => Len(input) = Host!EncodedSize(config) /\ Len(input) <= NVM_SIZE
      BY DEF HostBlobsAreRead
    <2>1. config \in Configs /\ Host!Encode(config).ok
      BY <1>1 DEF CodecInv
    <2>2. PICK blob : blob = Host!Encode(config).blob
      OBVIOUS
    <2>3. PICK pad \in Seq(Octet) : input = blob \o pad
      <3>1. CASE state = "whole"
        <4>1. input = blob /\ blob \in Seq(Octet)
          BY <1>1, <2>2, <3>1 DEF CodecInv
        <4> QED
          BY <4>1, NothingBehind
      <3>2. CASE state = "padded"
        <4>1. PICK v \in Values : input = blob \o <<v, v>>
          BY <1>1, <2>2, <3>2 DEF CodecInv
        <4>2. <<v, v>> \in Seq(Octet)
          BY InputAssumption
        <4> QED
          BY <4>1, <4>2
      <3> QED
        BY <3>1, <3>2
    <2>4. /\ Device!decode(blob \o pad) = Device!Decoded(config) /\ Host!Decode(blob \o pad) = Host!Decoded(config)
          /\ Len(blob) = Host!EncodedSize(config) /\ Len(blob) <= NVM_SIZE
      BY <2>1, <2>2, WrittenIsRead
    <2>5. state = "whole" => input = blob
      BY <1>1, <2>2 DEF CodecInv
    <2> QED
      BY <2>3, <2>4, <2>5, Zenon
  <1> QED
    BY <1>1, CodecInvariant, PTL

\* No blob of which a byte was changed or the end is missing is taken, by either end.
THEOREM DamageIsAlwaysSeen == CodecSpec => []DamageIsSeen
  <1>1. ASSUME CodecInv PROVE DamageIsSeen
    <2> SUFFICES ASSUME kind = "blob", state = "short" \/ (state = "damaged" /\ Device!Total(input) >= Len(input))
                 PROVE  ~Device!decode(input).ok /\ ~Host!Decode(input).ok
      BY DEF DamageIsSeen
    <2>1. PICK blob : blob = Host!Encode(config).blob
      OBVIOUS
    <2>2. input \in Seq(Octet) /\ config \in Configs /\ Host!Encode(config).ok
      BY <1>1 DEF CodecInv
    <2>3. Proper(blob)
      BY <2>1, <2>2, BlobIsBytes
    <2>4. CASE state = "short"
      <3>1. PICK n \in 0 .. Len(blob) - 1 : input = SubSeq(blob, 1, n)
        BY <1>1, <2>1, <2>4 DEF CodecInv
      <3>2. ~Device!Whole(input)
        BY <2>3, <3>1, CutIsNotWhole
      <3> QED
        BY <2>2, <3>2, NotWholeIsRefused
    <2>5. CASE state = "damaged" /\ Device!Total(input) >= Len(input)
      <3>1. PICK i \in DOMAIN blob, v \in Values : v # blob[i] /\ input = [blob EXCEPT ![i] = v]
        BY <1>1, <2>1, <2>5 DEF CodecInv
      <3>2. blob \in Seq(Octet) /\ v \in Octet
        BY <2>3, InputAssumption DEF Proper
      <3>3. i \in 1 .. Len(blob) /\ Len(input) = Len(blob) /\ input[i] = v
            /\ \A j \in 1 .. Len(blob) : j # i => input[j] = blob[j]
        BY <3>1, <3>2
      <3>4. Changed(blob, i, v, input)
        BY <2>2, <2>5, <3>1, <3>3, Zenon DEF Changed
      <3>5. ~Device!Whole(input)
        BY <2>3, <3>2, <3>3, <3>4, ChangedIsNotWhole
      <3> QED
        BY <2>2, <3>5, NotWholeIsRefused
    <2> QED
      BY <2>4, <2>5
  <1> QED
    BY <1>1, CodecInvariant, PTL

\* What the device takes, whoever wrote it, the host reads alike.
THEOREM HostAlwaysReadsWhatRuns == CodecSpec => []HostReadsWhatRuns
  <1>1. ASSUME CodecInv PROVE HostReadsWhatRuns
    BY <1>1, OctetsAreNumbers, HostReadsAlikeDevice DEF CodecInv, HostReadsWhatRuns
  <1> QED
    BY <1>1, CodecInvariant, PTL

\* Storing again what was read keeps every field.
THEOREM RewriteAlwaysKeeps == CodecSpec => []RewriteKeeps
  <1>1. ASSUME CodecInv PROVE RewriteKeeps
    BY <1>1, StoredAgainIsSame, Zenon DEF CodecInv, RewriteKeeps
  <1> QED
    BY <1>1, CodecInvariant, PTL
=============================================================================
