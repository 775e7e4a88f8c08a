------------------------------- MODULE Counters -------------------------------
(***************************************************************************)
(* Arithmetic of the unsigned counters that stmmac_main.c lets run freely  *)
(* and reduces to an index of its rings (cur_tx, dirty_tx, cur_rx,         *)
(* dirty_rx): w is where a counter wraps, n the size of the ring.  The     *)
(* solvers do not find these facts about % on their own.                   *)
(***************************************************************************)
EXTENDS Integers, TLAPS

(* Quotient and remainder determine a natural number.                      *)
LEMMA DivMod ==
    ASSUME NEW x \in Nat, NEW y \in Nat \ {0}
    PROVE  /\ x = y * (x \div y) + (x % y)
           /\ x \div y \in Nat
           /\ x % y \in 0 .. y - 1
  OBVIOUS

(* The remainder is unique.                                                *)
LEMMA ModUnique ==
    ASSUME NEW q \in Nat, NEW y \in Nat \ {0}, NEW r \in 0 .. y - 1
    PROVE  (y * q + r) % y = r
  OBVIOUS

(* The remainder of a successor.                                           *)
LEMMA ModSuccessor ==
    ASSUME NEW x \in Nat, NEW y \in Nat \ {0}
    PROVE  (x + 1) % y = (IF x % y = y - 1 THEN 0 ELSE (x % y) + 1)
  <1> DEFINE q == x \div y
             r == x % y
  <1>1. x = y * q + r /\ q \in Nat /\ r \in 0 .. y - 1
    BY DivMod
  <1> HIDE DEF q, r
  <1>2. CASE r = y - 1
    <2>1. x + 1 = y * (q + 1) + 0
      BY <1>1, <1>2
    <2>2. (y * (q + 1) + 0) % y = 0
      BY <1>1, ModUnique
    <2> QED
      BY <1>2, <2>1, <2>2 DEF r
  <1>3. CASE r # y - 1
    <2>1. x + 1 = y * q + (r + 1)
      BY <1>1
    <2>2. (y * q + (r + 1)) % y = r + 1
      BY <1>1, <1>3, ModUnique
    <2> QED
      BY <1>3, <2>1, <2>2 DEF r
  <1> QED
    BY <1>2, <1>3

(* Reduction just below zero, in range, and just above it.                 *)
LEMMA Reduce ==
    ASSUME NEW x \in Int, NEW y \in Nat \ {0}
    PROVE  /\ x \in 0 .. y - 1 => x % y = x
           /\ x \in y .. 2 * y - 1 => x % y = x - y
           /\ x \in (0 - y) .. (0 - 1) => x % y = x + y
  OBVIOUS

(* Counters wrap at a multiple of the ring size, at least twice it.        *)
LEMMA MultipleFacts ==
    ASSUME NEW n \in Nat \ {0}, NEW l \in Nat \ {0, 1}, NEW w, w = n * l
    PROVE  /\ w \in Nat \ {0, 1}
           /\ 2 * n <= w
           /\ (w - 1) % n = n - 1
  <1>1. w - 1 = n * (l - 1) + (n - 1) /\ l - 1 \in Nat
    OBVIOUS
  <1>2. (n * (l - 1) + (n - 1)) % n = n - 1
    BY <1>1, ModUnique
  <1>3. w \in Nat \ {0, 1} /\ 2 * n <= w
    OBVIOUS
  <1> QED
    BY <1>1, <1>2, <1>3

(* The distance of two counters, without the modulus.                      *)
LEMMA CounterDistance ==
    ASSUME NEW w \in Nat \ {0}, NEW c \in 0 .. w - 1, NEW d \in 0 .. w - 1
    PROVE  /\ (c - d) % w = (IF c >= d THEN c - d ELSE c - d + w)
           /\ (c - d) % w \in 0 .. w - 1
           /\ (c - d) % w = 0 <=> c = d
  <1> DEFINE x == c - d
  <1>1. x \in Int
    OBVIOUS
  <1> HIDE DEF x
  <1>2. /\ x \in 0 .. w - 1 => x % w = x
        /\ x \in (0 - w) .. (0 - 1) => x % w = x + w
    BY <1>1, Reduce
  <1> QED
    BY <1>2 DEF x

(* Incrementing a counter.                                                 *)
LEMMA CounterIncrement ==
    ASSUME NEW w \in Nat \ {0, 1}, NEW c \in 0 .. w - 1
    PROVE  /\ (c + 1) % w = (IF c = w - 1 THEN 0 ELSE c + 1)
           /\ (c + 1) % w \in 0 .. w - 1
  <1> DEFINE x == c + 1
  <1>1. x \in Int
    OBVIOUS
  <1> HIDE DEF x
  <1>2. /\ x \in 0 .. w - 1 => x % w = x
        /\ x \in w .. 2 * w - 1 => x % w = x - w
    BY <1>1, Reduce
  <1> QED
    BY <1>2 DEF x

(* Incrementing the first of two counters adds one to their distance.      *)
LEMMA CounterAdvance ==
    ASSUME NEW w \in Nat \ {0, 1}, NEW c \in 0 .. w - 1, NEW d \in 0 .. w - 1,
           (c - d) % w < w - 1
    PROVE  (((c + 1) % w) - d) % w = ((c - d) % w) + 1
  <1> DEFINE D(a, b) == (a - b) % w
             c1 == (c + 1) % w
  <1>1. \A a, b \in 0 .. w - 1 : D(a, b) = IF a >= b THEN a - b ELSE a - b + w
    BY CounterDistance
  <1>2. c1 = (IF c = w - 1 THEN 0 ELSE c + 1) /\ c1 \in 0 .. w - 1
    BY CounterIncrement
  <1>3. D(c, d) < w - 1
    OBVIOUS
  <1> HIDE DEF D, c1
  <1>4. /\ D(c, d) = IF c >= d THEN c - d ELSE c - d + w
        /\ D(c1, d) = IF c1 >= d THEN c1 - d ELSE c1 - d + w
    BY <1>1, <1>2
  <1>5. D(c1, d) = D(c, d) + 1
    BY <1>2, <1>3, <1>4
  <1> QED
    BY <1>5 DEF D, c1

(* Incrementing the second one takes one away.                             *)
LEMMA CounterRetire ==
    ASSUME NEW w \in Nat \ {0, 1}, NEW c \in 0 .. w - 1, NEW d \in 0 .. w - 1,
           c # d
    PROVE  (c - ((d + 1) % w)) % w = ((c - d) % w) - 1
  <1> DEFINE D(a, b) == (a - b) % w
             d1 == (d + 1) % w
  <1>1. \A a, b \in 0 .. w - 1 : D(a, b) = IF a >= b THEN a - b ELSE a - b + w
    BY CounterDistance
  <1>2. d1 = (IF d = w - 1 THEN 0 ELSE d + 1) /\ d1 \in 0 .. w - 1
    BY CounterIncrement
  <1> HIDE DEF D, d1
  <1>3. D(c, d1) = D(c, d) - 1
    BY <1>1, <1>2
  <1> QED
    BY <1>3 DEF D, d1

(* The ring index of an incremented counter is the next one, also when the *)
(* counter wraps.                                                          *)
LEMMA CounterSlot ==
    ASSUME NEW n \in Nat \ {0}, NEW w \in Nat \ {0, 1}, (w - 1) % n = n - 1,
           NEW c \in 0 .. w - 1
    PROVE  /\ c % n \in 0 .. n - 1
           /\ ((c + 1) % w) % n = (IF c % n = n - 1 THEN 0 ELSE (c % n) + 1)
  <1>1. c % n \in 0 .. n - 1
    BY DivMod
  <1>2. CASE c = w - 1
    <2>1. (c + 1) % w = 0
      BY <1>2, CounterIncrement
    <2>2. 0 % n = 0
      BY Reduce
    <2> QED
      BY <1>1, <1>2, <2>1, <2>2
  <1>3. CASE c # w - 1
    <2>1. (c + 1) % w = c + 1
      BY <1>3, CounterIncrement
    <2>2. (c + 1) % n = (IF c % n = n - 1 THEN 0 ELSE (c % n) + 1)
      BY ModSuccessor, c \in Nat, Zenon
    <2> QED
      BY <1>1, <2>1, <2>2
  <1> QED
    BY <1>2, <1>3

(* The index of a counter plus a distance shorter than the ring.           *)
LEMMA CounterIndex ==
    ASSUME NEW n \in Nat \ {0}, NEW c \in Nat, NEW m \in 0 .. n - 1
    PROVE  (c + m) % n = (IF (c % n) + m < n THEN (c % n) + m ELSE (c % n) + m - n)
  <1> DEFINE q == c \div n
             r == c % n
  <1>1. c = n * q + r /\ q \in Nat /\ r \in 0 .. n - 1
    BY DivMod
  <1> HIDE DEF q, r
  <1>2. CASE r + m < n
    <2>1. c + m = n * q + (r + m)
      BY <1>1
    <2>2. (n * q + (r + m)) % n = r + m
      BY <1>1, <1>2, ModUnique
    <2> QED
      BY <1>2, <2>1, <2>2 DEF r
  <1>3. CASE r + m >= n
    <2>1. c + m = n * (q + 1) + (r + m - n)
      BY <1>1
    <2>2. q + 1 \in Nat /\ r + m - n \in 0 .. n - 1
      BY <1>1, <1>3
    <2>3. (n * (q + 1) + (r + m - n)) % n = r + m - n
      BY <2>2, ModUnique
    <2> QED
      BY <1>1, <1>3, <2>1, <2>3 DEF r
  <1> QED
    BY <1>1, <1>2, <1>3

===============================================================================
