---------------------------- MODULE ClockProofs ----------------------------
(***************************************************************************)
(* The clock of the Arduino is a uint32_t that wraps, and its program      *)
(* measures every time as millis() - timer in that type.  These lemmas say *)
(* when the difference is the real time: as long as it is less than the    *)
(* wrap, wherever the clock stood when the timer was set.                  *)
(***************************************************************************)
EXTENDS Integers, TLAPS

(* An unsigned difference, without the remainder.                          *)
LEMMA Difference ==
  ASSUME NEW W \in Nat \ {0}, NEW now \in 0 .. W - 1, NEW t \in 0 .. W - 1
  PROVE  (now - t) % W = IF t <= now THEN now - t ELSE now - t + W
<1>1. CASE t <= now
  <2>1. now - t \in 0 .. W - 1
    BY <1>1
  <2>2. \A x \in 0 .. W - 1 : x % W = x
    BY Z3
  <2> QED
    BY <1>1, <2>1, <2>2
<1>2. CASE now < t
  <2>1. now - t \in -W .. -1
    BY <1>2
  <2>2. \A x \in -W .. -1 : x % W = x + W
    BY Z3
  <2> QED
    BY <1>2, <2>1, <2>2
<1> QED
  BY <1>1, <1>2

(* The next value of the clock.                                            *)
LEMMA NextTime ==
  ASSUME NEW W \in Nat \ {0}, NEW now \in 0 .. W - 1
  PROVE  /\ (now + 1) % W = IF now = W - 1 THEN 0 ELSE now + 1
         /\ (now + 1) % W \in 0 .. W - 1
<1>1. CASE now = W - 1
  <2>1. W % W = 0
    BY Z3
  <2> QED
    BY <1>1, <2>1
<1>2. CASE now < W - 1
  <2>1. \A x \in 0 .. W - 1 : x % W = x
    BY Z3
  <2> QED
    BY <1>2, <2>1
<1> QED
  BY <1>1, <1>2

(* A timer that is set reads 0, and no timer reads the wrap or more.       *)
LEMMA TimerRange ==
  ASSUME NEW W \in Nat \ {0}, NEW now \in 0 .. W - 1, NEW t \in 0 .. W - 1
  PROVE  (now - t) % W \in 0 .. W - 1 /\ (now - now) % W = 0
BY Difference

(* A timer goes with the clock as long as it stays below the wrap.         *)
LEMMA TimerTicks ==
  ASSUME NEW W \in Nat \ {0}, NEW now \in 0 .. W - 1, NEW t \in 0 .. W - 1,
         ((now - t) % W) + 1 < W
  PROVE  (((now + 1) % W) - t) % W = ((now - t) % W) + 1
<1> DEFINE next == (now + 1) % W
           old == (now - t) % W
           new == (next - t) % W
<1>1. next = (IF now = W - 1 THEN 0 ELSE now + 1) /\ next \in 0 .. W - 1
  BY NextTime
<1>2. old = IF t <= now THEN now - t ELSE now - t + W
  BY Difference
<1>3. new = IF t <= next THEN next - t ELSE next - t + W
  BY <1>1, Difference
<1>4. old + 1 < W
  OBVIOUS
<1> HIDE DEF next, old, new
<1>5. new = old + 1
  BY <1>1, <1>2, <1>3, <1>4
<1> QED
  BY <1>5 DEF next, old, new
=============================================================================
