---------------------------- MODULE TimerProofs ----------------------------
(***************************************************************************)
(* What holds of the clock and of the active time it banks, for a counter  *)
(* and an elapsed_tick of any width, any number of restarts and overflows  *)
(* anywhere.                                                               *)
(*                                                                         *)
(* Everything is said in congruences modulo Modulus, about plain sums of   *)
(* what the registers and the FRAM hold.  The overflows by which they      *)
(* differ are counted by                                                   *)
(*                                                                         *)
(*   r   lost since the last reading,                                      *)
(*   m   waiting when a reading missed it: 0 or 1,                         *)
(*   s   lost from the beginning of the segment to the last reading,       *)
(*   k   missing from what is banked.                                      *)
(*                                                                         *)
(* Each one that is missing was waiting when its life ended or is counted  *)
(* in lost, hence the bound boots + lost.  An addition that a failure cut  *)
(* short adds the segment or does not, and what it does besides is torn.   *)
(***************************************************************************)
EXTENDS Timer, TLAPS

\* Equal as far as 32 bits tell.
Cong(a, b) == a % Modulus = b % Modulus

\* The three readings of get_current_tick().
Reading == pc \in {"high1", "cnt", "high2", "read"}

\* The one of low_res_timer_start(), before which the segment of the life
\* before stands.
Starting == Reading /\ caller = "start"

\* The segment of this life has begun.
Started == pc # "off" /\ ~Starting

\* What the hardware and elapsed_tick add up to, and what is banked less than
\* it should be, apart from what was torn.
Raw == elapsed_tick + TA2R + (IF TAIFG THEN Wrap ELSE 0)
Behind == (banked_time - torn) - cumulative_active_ticks

\* An overflow during a reading shows in elapsed_tick, once.
OverflowInv ==
  /\ pc \in {"cnt", "high2"} /\ elapsed_tick # high1 => ~TAIFG
  /\ Starting => ~TAIFG

\* What a reading returned, or will if elapsed_tick is what it was: the time
\* less m overflows.
Off(value, m) ==
  /\ Cong(value + m * Wrap, cnt_tick)
  /\ m = 1 => masked /\ ~Starting

\* A reading that is about to succeed, and one that has.
ReadInv ==
  /\ pc = "high2" /\ high1 = elapsed_tick =>
       \E m \in {0, 1} : Off(cnt + high1, m)
  /\ pc = "read" => \E m \in {0, 1} : Off(tick, m)

\* What was banked ends where the segment begins, which is behind no reading.
OrderInv ==
  /\ pc # "off" => boots >= 1
  /\ Starting /\ pc \in {"high2", "read"} => banked_time <= cnt_time
  /\ Started /\ pc # "banked" =>
       banked_time <= segment_began /\ segment_began <= cnt_time
  /\ pc = "banked" => banked_time <= cnt_time

\* Since the last reading the counter went on with the time, but for r
\* overflows that were lost.
SinceReading(r) == Cong(Raw - time, (cnt_tick - cnt_time) - r * Wrap)

\* The segment began at a reading m overflows behind the time; s were lost
\* from there to the last reading.
SinceSegment(m, s) ==
  Cong(cnt_tick - cnt_time,
       (segment_start_tick - segment_began) + (m - s) * Wrap)

\* k overflows are missing from what is banked: no more than one for each
\* life before this one, the m of this life and the lost ones.
InSegment(k) ==
  \E m \in {0, 1}, s, r \in 0..(boots + lost) :
    /\ m <= k /\ k - m + s + r <= boots - 1 + lost
    /\ SinceSegment(m, s)
    /\ SinceReading(r)

\* Likewise once the segment is added and the next not yet begun.
AtReading(k) ==
  \E m \in {0, 1}, r \in 0..(boots + lost) :
    /\ m <= k /\ k - m + r <= boots - 1 + lost
    /\ Off(tick, m)
    /\ SinceReading(r)

\* What is missing from the bank, before the segment of this life begins,
\* while it runs and once it is added.
Banked(k) ==
  /\ Cong(Behind, k * Wrap)
  /\ Starting => k <= boots - 1 + lost
  /\ Starting /\ pc \in {"high2", "read"} => SinceReading(0)
  /\ Started /\ pc # "banked" => InSegment(k)
  /\ pc = "banked" => AtReading(k)

BankInv == \E k \in 0..(boots + lost) : Banked(k)

\* What a failure inside an addition adds or takes away is a number of whole
\* words.
TornInv == torn % Wrap = 0

\* The inductive invariant of the rest.
IInv == TypeOK /\ OverflowInv /\ ReadInv /\ OrderInv /\ BankInv

-----------------------------------------------------------------------------
\* Division with remainder, of negative numbers too.
LEMMA Division ==
  ASSUME NEW a \in Int
  PROVE  /\ a % Modulus \in 0..(Modulus - 1)
         /\ \E q \in Int : a = q * Modulus + (a % Modulus)
<1>1. Modulus \in Nat /\ Modulus > 0
  BY WrapAssumption, ModulusAssumption
<1>2. a % Modulus \in 0..(Modulus - 1)
  BY <1>1
<1>3. a = (a \div Modulus) * Modulus + (a % Modulus) /\ a \div Modulus \in Int
  BY <1>1
<1> QED
  BY <1>2, <1>3

\* Quotient and remainder are unique.
LEMMA Remainder ==
  ASSUME NEW p \in Int, NEW r \in 0..(Modulus - 1), NEW q \in Int,
         NEW s \in 0..(Modulus - 1),
         p * Modulus + r = q * Modulus + s
  PROVE  p = q /\ r = s
<1>1. Modulus \in Nat /\ Modulus > 0
  BY WrapAssumption, ModulusAssumption
<1>2. (p - q) * Modulus = s - r
  BY <1>1
<1> DEFINE d == p - q
<1>3. d \in Int /\ d * Modulus = s - r
  BY <1>2
<1> HIDE DEF d
<1>4. ~(d >= 1)
  <2>1. d >= 1 => d * Modulus >= Modulus
    BY <1>1, <1>3
  <2> QED
    BY <2>1, <1>1, <1>3
<1>5. ~(d <= -1)
  <2>1. d <= -1 => d * Modulus <= -Modulus
    BY <1>1, <1>3
  <2> QED
    BY <2>1, <1>1, <1>3
<1>6. d = 0
  BY <1>3, <1>4, <1>5
<1>7. p = q
  BY <1>6 DEF d
<1> QED
  BY <1>1, <1>7

\* Congruence, spelled out.
LEMMA CongWitness ==
  ASSUME NEW a \in Int, NEW b \in Int
  PROVE  Cong(a, b) <=> \E q \in Int : a = b + q * Modulus
<1>0. Modulus \in Nat
  BY ModulusAssumption
<1>1. PICK p \in Int : a = p * Modulus + (a % Modulus)
  BY Division
<1>2. PICK q \in Int : b = q * Modulus + (b % Modulus)
  BY Division
<1> DEFINE x == a % Modulus
           y == b % Modulus
<1>3. x \in 0..(Modulus - 1) /\ y \in 0..(Modulus - 1)
  BY Division
<1> HIDE DEF x, y
<1>4. a = p * Modulus + x /\ b = q * Modulus + y
  BY <1>1, <1>2 DEF x, y
<1>5. ASSUME x = y PROVE \E n \in Int : a = b + n * Modulus
  <2>1. a = b + (p - q) * Modulus
    BY <1>0, <1>3, <1>4, <1>5
  <2> QED
    BY <2>1
<1>6. ASSUME NEW n \in Int, a = b + n * Modulus PROVE x = y
  <2>1. p * Modulus + x = (q + n) * Modulus + y
    BY <1>0, <1>3, <1>4, <1>6
  <2> QED
    BY <2>1, <1>3, Remainder
<1> QED
  BY <1>5, <1>6 DEF Cong, x, y

\* A number below the modulus is its own remainder, and one less than twice
\* the modulus loses it once.
LEMMA SmallRemainder ==
  ASSUME NEW x \in 0..(Modulus - 1)
  PROVE  x % Modulus = x /\ (x + Modulus) % Modulus = x
<1>0. Modulus \in Nat
  BY ModulusAssumption
<1>1. ASSUME NEW c \in {0, 1} PROVE (x + c * Modulus) % Modulus = x
  <2> DEFINE a == x + c * Modulus
  <2>1. a \in Int /\ c \in Int /\ a = c * Modulus + x
    BY <1>0
  <2>2. PICK q \in Int : a = q * Modulus + (a % Modulus)
    BY <2>1, Division
  <2>3. a % Modulus \in 0..(Modulus - 1)
    BY <2>1, Division
  <2> HIDE DEF a
  <2>4. c * Modulus + x = q * Modulus + (a % Modulus)
    BY <2>1, <2>2
  <2>5. x = a % Modulus
    BY <2>1, <2>3, <2>4, Remainder
  <2> QED
    BY <2>5 DEF a
<1>2. x + 0 * Modulus = x /\ x + 1 * Modulus = x + Modulus
  BY <1>0
<1> QED
  BY <1>1, <1>2

\* Congruences may be added and subtracted.
LEMMA CongSum ==
  ASSUME NEW a \in Int, NEW b \in Int, NEW c \in Int, NEW d \in Int,
         Cong(a, b), Cong(c, d)
  PROVE  Cong(a + c, b + d) /\ Cong(a - c, b - d)
<1>0. Modulus \in Nat
  BY ModulusAssumption
<1>1. PICK p \in Int : a = b + p * Modulus
  BY CongWitness
<1>2. PICK q \in Int : c = d + q * Modulus
  BY CongWitness
<1>3. a + c = (b + d) + (p + q) * Modulus
  BY <1>0, <1>1, <1>2
<1>4. a - c = (b - d) + (p - q) * Modulus
  BY <1>0, <1>1, <1>2
<1>5. p + q \in Int /\ p - q \in Int
  OBVIOUS
<1>6. Cong(a + c, b + d)
  <2>1. a + c \in Int /\ b + d \in Int
    OBVIOUS
  <2> QED
    BY <1>3, <1>5, <2>1, CongWitness
<1>7. Cong(a - c, b - d)
  <2>1. a - c \in Int /\ b - d \in Int
    OBVIOUS
  <2> QED
    BY <1>4, <1>5, <2>1, CongWitness
<1> QED
  BY <1>6, <1>7

\* A number is congruent to its remainder.
LEMMA CongRemainder ==
  ASSUME NEW a \in Int
  PROVE  a % Modulus \in 0..(Modulus - 1) /\ Cong(a % Modulus, a)
<1>1. a % Modulus \in 0..(Modulus - 1)
  BY Division
<1> DEFINE x == a % Modulus
<1>2. x % Modulus = x
  BY <1>1, SmallRemainder
<1> QED
  BY <1>1, <1>2 DEF Cong

\* The remainder of a number that is given as a multiple and a rest.
LEMMA RestIs ==
  ASSUME NEW d \in Nat \ {0}, NEW q \in Int, NEW x \in 0..(d - 1),
         NEW y \in Int, y = q * d + x
  PROVE  y % d = x
  OBVIOUS

\* elapsed_tick after one more overflow.
LEMMA NextElapsed ==
  ASSUME NEW e \in {Wrap * n : n \in 0..((Modulus \div Wrap) - 1)}
  PROVE  /\ e \in 0..(Modulus - 1)
         /\ (e + Wrap) % Modulus
              \in {Wrap * n : n \in 0..((Modulus \div Wrap) - 1)}
         /\ (e + Wrap) % Modulus # e
<1> DEFINE P == Modulus \div Wrap
<1>1. /\ Wrap \in Nat /\ Wrap > 1 /\ Modulus \in Nat /\ Modulus > Wrap
      /\ P \in Int /\ Modulus = Wrap * P
  BY WrapAssumption, ModulusAssumption
<1>2. PICK n \in 0..(P - 1) : e = Wrap * n
  OBVIOUS
<1> HIDE DEF P
<1>3. P \in Nat /\ P >= 1 /\ n \in Nat /\ n + 1 <= P
  BY <1>1, <1>2
<1>4. Wrap * (n + 1) = e + Wrap /\ e \in Nat
  BY <1>1, <1>2, <1>3
<1>5. e + Wrap <= Modulus
  <2>1. n + 1 = P \/ n + 1 <= P - 1
    BY <1>3
  <2>2. \A m \in Nat : Wrap * m >= 0
    BY <1>1
  <2>3. Wrap * (P - (n + 1)) = Wrap * P - Wrap * (n + 1)
    BY <1>1, <1>3
  <2>4. P - (n + 1) \in Nat
    BY <1>3
  <2>5. Wrap * (P - (n + 1)) >= 0
    BY <2>2, <2>4
  <2>6. Wrap * P \in Int /\ Wrap * (n + 1) \in Int
    BY <1>1, <1>3
  <2> QED
    BY <2>3, <2>5, <2>6, <1>1, <1>4
<1>6. e \in 0..(Modulus - 1)
  BY <1>1, <1>4, <1>5
<1>7. CASE e + Wrap < Modulus
  <2>1. e + Wrap \in 0..(Modulus - 1)
    BY <1>1, <1>4, <1>7
  <2>2. (e + Wrap) % Modulus = e + Wrap
    BY <2>1, SmallRemainder
  <2>3. n + 1 # P
    BY <1>1, <1>4, <1>7
  <2>4. n + 1 \in 0..(P - 1)
    BY <1>3, <2>3
  <2>5. e + Wrap # e
    BY <1>1, <1>4
  <2> QED
    BY <1>4, <1>6, <2>2, <2>4, <2>5 DEF P
<1>8. CASE e + Wrap = Modulus
  <2>1. 0 \in 0..(Modulus - 1) /\ 0 + Modulus = e + Wrap
    BY <1>1, <1>8
  <2>2. (e + Wrap) % Modulus = 0
    BY <2>1, SmallRemainder
  <2>3. 0 \in 0..(P - 1) /\ Wrap * 0 = 0
    BY <1>1, <1>3
  <2>4. e # 0
    BY <1>1, <1>8
  <2> QED
    BY <1>6, <2>2, <2>3, <2>4 DEF P
<1> QED
  BY <1>1, <1>4, <1>5, <1>7, <1>8

-----------------------------------------------------------------------------
\* The sorts of everything that is added and compared.
LEMMA Numbers ==
  ASSUME TypeOK
  PROVE  /\ Wrap \in Nat /\ Wrap > 1 /\ Modulus \in Nat /\ Modulus > Wrap
         /\ elapsed_tick \in 0..(Modulus - 1) /\ TA2R \in 0..(Wrap - 1)
         /\ Raw \in Nat /\ Behind \in Int
         /\ time \in Nat /\ boots \in Nat /\ lost \in Nat
         /\ high1 \in Nat /\ cnt \in Nat /\ tick \in Nat
         /\ segment_start_tick \in Nat /\ cumulative_active_ticks \in Nat
         /\ cnt_tick \in 0..(Modulus - 1) /\ cnt_time \in Nat
         /\ segment_began \in Nat /\ banked_time \in Nat
         /\ torn \in Nat
<1>1. Wrap \in Nat /\ Wrap > 1 /\ Modulus \in Nat /\ Modulus > Wrap
  BY WrapAssumption, ModulusAssumption
<1>2. elapsed_tick \in 0..(Modulus - 1)
  BY NextElapsed DEF TypeOK
<1>3. /\ time \in Nat /\ boots \in Nat /\ lost \in Nat
      /\ high1 \in Nat /\ cnt \in Nat /\ tick \in Nat
      /\ segment_start_tick \in Nat /\ cumulative_active_ticks \in Nat
      /\ cnt_tick \in 0..(Modulus - 1) /\ cnt_time \in Nat
      /\ segment_began \in Nat /\ banked_time \in Nat
      /\ torn \in Nat
      /\ TA2R \in 0..(Wrap - 1)
  BY <1>1, BoundsAssumption DEF TypeOK
<1>4. Raw \in Nat
  BY <1>1, <1>2, <1>3 DEF Raw
<1>5. Behind \in Int
  BY <1>3 DEF Behind
<1> QED
  BY <1>1, <1>2, <1>3, <1>4, <1>5

\* The same after a step, as far as it is needed.
LEMMA NumbersNext ==
  ASSUME TypeOK'
  PROVE  Raw' \in Int /\ time' \in Nat /\ elapsed_tick' \in 0..(Modulus - 1)
<1>1. elapsed_tick' \in 0..(Modulus - 1)
  BY NextElapsed DEF TypeOK
<1>2. TA2R' \in Int /\ time' \in Nat /\ Wrap \in Int /\ Modulus \in Nat
  BY WrapAssumption, ModulusAssumption, BoundsAssumption DEF TypeOK
<1>3. Raw' = elapsed_tick' + TA2R' + (IF TAIFG' THEN Wrap ELSE 0)
  BY DEF Raw
<1>4. (IF TAIFG' THEN Wrap ELSE 0) \in Int
  BY <1>2
<1> QED
  BY <1>1, <1>2, <1>3, <1>4

\* What the steps of the program that neither read nor store leave alone.
Idle == UNCHANGED <<hardware, elapsed_tick, account, time, boots, lost,
                    cnt, cnt_tick, cnt_time, segments>>

\* The steps in which the program goes on to, or past, the next reading.
Quiet ==
  \/ ReadHigh1 \/ StartTask \/ EnterCheckpoint \/ BankAtCheckpoint
  \/ BankAtEnd \/ ReadAtExit \/ LeaveCheckpoint \/ Measure \/ Measured

\* They keep the types and stay on their side of the segment.
LEMMA QuietStep ==
  ASSUME TypeOK, Quiet
  PROVE  /\ TypeOK' /\ Idle
         /\ pc # "off" /\ pc' # "off" /\ pc # "banked" /\ pc' # "banked"
         /\ Starting' <=> Starting
         /\ pc' # "read" /\ pc' # "high2" /\ pc # "high2"
         /\ pc' = "cnt" => high1' = elapsed_tick
<1>1. elapsed_tick \in 0..(Modulus - 1)
  BY Numbers
<1>2. CASE ReadHigh1
  BY <1>1, <1>2
  DEF ReadHigh1, Goes, Idle, TypeOK, hardware, account, segments, Starting,
      Reading
<1>3. CASE StartTask
  BY <1>3
  DEF StartTask, Goes, Idle, TypeOK, hardware, account, segments, reader,
      Starting, Reading
<1>4. CASE EnterCheckpoint
  BY <1>4
  DEF EnterCheckpoint, Goes, Call, Idle, TypeOK, Callers, hardware, account,
      segments, Starting, Reading
<1>5. CASE BankAtCheckpoint
  BY <1>5
  DEF BankAtCheckpoint, Goes, Call, Idle, TypeOK, Callers, hardware, account,
      segments, Starting, Reading
<1>6. CASE BankAtEnd
  BY <1>6
  DEF BankAtEnd, Goes, Call, Idle, TypeOK, Callers, hardware, account,
      segments, Starting, Reading
<1>7. CASE ReadAtExit
  BY <1>7
  DEF ReadAtExit, Goes, Call, Idle, TypeOK, Callers, hardware, account,
      segments, Starting, Reading
<1>8. CASE LeaveCheckpoint
  BY <1>8
  DEF LeaveCheckpoint, Goes, Idle, TypeOK, hardware, account, segments,
      reader, Starting, Reading
<1>9. CASE Measure
  BY <1>9
  DEF Measure, Goes, Call, Idle, TypeOK, Callers, hardware, account,
      segments, Starting, Reading
<1>10. CASE Measured
  BY <1>10
  DEF Measured, Goes, Idle, TypeOK, hardware, account, segments, reader,
      Starting, Reading
<1> QED
  BY <1>2, <1>3, <1>4, <1>5, <1>6, <1>7, <1>8, <1>9, <1>10 DEF Quiet

\* The sum is a number, and so is the time that it stands for.
LEMMA SumSorts ==
  ASSUME IInv, pc = "read", caller = "bank"
  PROVE  Sum \in Nat /\ SumTime \in 0..time
<1>0. TypeOK /\ OrderInv
  BY DEF IInv
<1>1. /\ Modulus \in Nat /\ tick - segment_start_tick \in Int
      /\ cumulative_active_ticks \in Nat
  BY <1>0, Numbers
<1>2. (tick - segment_start_tick) % Modulus \in 0..(Modulus - 1)
  BY <1>1, CongRemainder
<1>3. Sum \in Nat
  BY <1>1, <1>2 DEF Sum
<1>4. banked_time <= segment_began /\ segment_began <= cnt_time
  BY <1>0 DEF OrderInv, Started, Starting
<1>5. /\ cnt_time \in 0..time /\ segment_began \in 0..time
      /\ banked_time \in 0..time /\ time \in Nat
  BY <1>0, Numbers DEF TypeOK
<1>6. SumTime \in 0..time
  BY <1>4, <1>5 DEF SumTime
<1> QED
  BY <1>3, <1>6

\* Whatever words a failure leaves of two numbers, they are a number, and its
\* lowest word is the one left.
LEMMA MixedWords ==
  ASSUME NEW a \in Nat, NEW b \in Nat, NEW S \in SUBSET (1..4)
  PROVE  LET w == [i \in 1..4 |-> IF i \in S THEN WordsOf(a)[i]
                                            ELSE WordsOf(b)[i]]
         IN  /\ Number(w) \in Nat
             /\ Number(w) % Wrap = (IF 1 \in S THEN a ELSE b) % Wrap
<1>1. Wrap \in Nat /\ Wrap > 1 /\ Wrap * Wrap \in Nat \ {0}
      /\ Wrap * Wrap * Wrap \in Nat \ {0}
  <2>1. Wrap \in Nat /\ Wrap > 1
    BY WrapAssumption
  <2>2. Wrap * Wrap \in Nat \ {0}
    BY <2>1
  <2>3. Wrap * Wrap * Wrap \in Nat \ {0}
    BY <2>1, <2>2
  <2> QED
    BY <2>1, <2>2, <2>3
<1>2. ASSUME NEW n \in Nat
      PROVE  /\ WordsOf(n)[1] = n % Wrap
             /\ \A i \in 1..4 : WordsOf(n)[i] \in Nat
  <2>1. n % Wrap \in Nat /\ (n \div Wrap) % Wrap \in Nat
    BY <1>1
  <2>2. (n \div (Wrap * Wrap)) % Wrap \in Nat
    <3> DEFINE d == Wrap * Wrap
    <3>1. n \div d \in Nat
      BY <1>1
    <3> HIDE DEF d
    <3>2. (n \div d) % Wrap \in Nat
      BY <1>1, <3>1
    <3> QED
      BY <3>2 DEF d
  <2>3. n \div (Wrap * Wrap * Wrap) \in Nat
    <3> DEFINE d == Wrap * Wrap * Wrap
    <3>1. d \in Nat \ {0}
      BY <1>1
    <3> HIDE DEF d
    <3>2. n \div d \in Nat
      BY <3>1
    <3> QED
      BY <3>2 DEF d
  <2> QED
    BY <2>1, <2>2, <2>3 DEF WordsOf
<1> DEFINE w == [i \in 1..4 |-> IF i \in S THEN WordsOf(a)[i]
                                         ELSE WordsOf(b)[i]]
           x == IF 1 \in S THEN a ELSE b
<1>3. w[1] \in Nat /\ w[2] \in Nat /\ w[3] \in Nat /\ w[4] \in Nat
  BY <1>2
<1>4. w[1] = x % Wrap /\ x \in Nat
  BY <1>2
<1> HIDE DEF w, x
<1>5. PICK h \in Nat : Number(w) = w[1] + Wrap * h
  <2>1. Wrap * w[4] \in Nat
    BY <1>1, <1>3
  <2>2. w[3] + Wrap * w[4] \in Nat
    BY <1>3, <2>1
  <2>3. Wrap * (w[3] + Wrap * w[4]) \in Nat
    BY <1>1, <2>2
  <2>4. w[2] + Wrap * (w[3] + Wrap * w[4]) \in Nat
    BY <1>3, <2>3
  <2> QED
    BY <2>4 DEF Number
<1>6. Number(w) \in Nat
  BY <1>1, <1>3, <1>5
<1>7. w[1] \in 0..(Wrap - 1)
  BY <1>1, <1>4
<1>8. Number(w) % Wrap = w[1]
  <2> DEFINE y == Number(w)
             l == w[1]
  <2>1. y \in Int /\ y = h * Wrap + l /\ l \in 0..(Wrap - 1)
    BY <1>1, <1>3, <1>5, <1>6, <1>7
  <2> HIDE DEF y, l
  <2>2. y % Wrap = l
    BY <1>1, <2>1, RestIs
  <2> QED
    BY <2>2 DEF y, l
<1> QED
  BY <1>4, <1>6, <1>8 DEF w, x

\* After a failure inside the addition the account is as it should be but for
\* what is torn: with the segment or without it.
LEMMA FailSorts ==
  ASSUME IInv, FailInAddition
  PROVE  /\ cumulative_active_ticks' \in Nat /\ banked_time' \in 0..time
         /\ torn' \in 0..(Modulus - 1)
         /\ \E y \in Nat :
              /\ \/ y = cumulative_active_ticks /\ banked_time' = banked_time
                 \/ y = Sum /\ banked_time' = SumTime
              /\ cumulative_active_ticks' % Wrap = y % Wrap
              /\ torn' = (torn + (y - cumulative_active_ticks')) % Modulus
<1>1. pc = "read" /\ caller = "bank"
  BY DEF FailInAddition
<1>2. Sum \in Nat /\ SumTime \in 0..time
  BY <1>1, SumSorts
<1>3. cumulative_active_ticks \in Nat /\ torn \in Nat /\ banked_time \in 0..time
  BY Numbers DEF IInv, TypeOK
<1>4. PICK stored \in SUBSET (1..4) :
        /\ cumulative_active_ticks' =
             Number([i \in 1..4 |-> IF i \in stored
                                    THEN WordsOf(Sum)[i]
                                    ELSE WordsOf(cumulative_active_ticks)[i]])
        /\ IF 1 \in stored
           THEN /\ banked_time' = SumTime
                /\ torn' = (torn + (Sum - cumulative_active_ticks')) % Modulus
           ELSE /\ banked_time' = banked_time
                /\ torn' = (torn + (cumulative_active_ticks
                                     - cumulative_active_ticks')) % Modulus
  BY DEF FailInAddition
<1> DEFINE y == IF 1 \in stored THEN Sum ELSE cumulative_active_ticks
           u == cumulative_active_ticks'
<1>5. y \in Nat
  BY <1>2, <1>3
<1>6. u \in Nat /\ u % Wrap = y % Wrap
  BY <1>2, <1>3, <1>4, MixedWords
<1>7. torn' = (torn + (y - u)) % Modulus
  BY <1>4
<1>8. banked_time' \in 0..time
  BY <1>2, <1>3, <1>4
<1>9. \/ y = cumulative_active_ticks /\ banked_time' = banked_time
      \/ y = Sum /\ banked_time' = SumTime
  BY <1>4
<1>10. torn' \in 0..(Modulus - 1)
  <2>1. torn + (y - u) \in Int
    BY <1>3, <1>5, <1>6
  <2> HIDE DEF y, u
  <2> QED
    BY <1>7, <2>1, CongRemainder
<1> HIDE DEF y
<1> QED
  BY <1>5, <1>6, <1>7, <1>8, <1>9, <1>10

\* The types, over all steps.
LEMMA TypeStep ==
  ASSUME IInv, Next
  PROVE  TypeOK'
<1>0. TypeOK /\ OrderInv
  BY DEF IInv
<1>1. /\ Wrap \in Nat /\ Wrap > 1 /\ Modulus \in Nat /\ Modulus > Wrap
      /\ 0 \in 0..(Wrap - 1)
  BY <1>0, Numbers
<1>2. CASE Tick
  <2>1. (TA2R + 1) % Wrap \in 0..(Wrap - 1)
    BY <1>0, <1>1, Numbers
  <2>2. time' \in 0..MaxTime /\ lost' \in Nat
    BY <1>0, <1>2, BoundsAssumption DEF Tick, TypeOK
  <2>3. 0..time \subseteq 0..time'
    BY <1>0, <1>2, Numbers DEF Tick
  <2>4. TA2R' \in 0..(Wrap - 1) /\ TAIFG' \in BOOLEAN
    BY <1>0, <1>2, <2>1 DEF Tick, TypeOK
  <2> QED
    BY <1>0, <1>2, <2>2, <2>3, <2>4
    DEF Tick, TypeOK, reader, account, segments
<1>3. CASE A2_ISR
  BY <1>0, <1>3, NextElapsed
  DEF A2_ISR, TypeOK, reader, account, segments
<1>4. CASE ReadCnt
  <2>1. TrueTick \in 0..(Modulus - 1)
    <3>1. /\ elapsed_tick + TA2R + (IF TAIFG THEN Wrap ELSE 0) \in Int
      BY <1>0, Numbers DEF Raw
    <3> QED
      BY <3>1, CongRemainder DEF TrueTick
  <2>2. time \in 0..time
    BY <1>0, Numbers
  <2> QED
    BY <1>0, <1>4, <2>1, <2>2
    DEF ReadCnt, Goes, TypeOK, hardware, account, segments
<1>5. CASE ReadHigh2
  <2>1. (cnt + high1) % Modulus \in 0..(Modulus - 1)
    <3>1. cnt + high1 \in Int
      BY <1>0, Numbers
    <3> QED
      BY <3>1, CongRemainder
  <2> QED
    BY <1>0, <1>5, <2>1
    DEF ReadHigh2, Goes, TypeOK, hardware, account, segments
<1>6. CASE StartSegment
  BY <1>0, <1>6 DEF StartSegment, Goes, TypeOK, hardware, reader
<1>7. CASE AddSegment
  <2>1. pc = "read" /\ caller = "bank"
    BY <1>7 DEF AddSegment, Goes
  <2>2. Sum \in Nat /\ SumTime \in 0..time
    BY <2>1, SumSorts
  <2> QED
    BY <1>0, <1>7, <2>2 DEF AddSegment, Goes, TypeOK, hardware, reader
<1>12. CASE FailInAddition
  BY <1>0, <1>12, FailSorts DEF FailInAddition, TypeOK, hardware, reader
<1>8. CASE NextSegment
  BY <1>0, <1>8 DEF NextSegment, Goes, TypeOK, hardware, reader
<1>9. CASE Boot
  <2>1. boots' \in 0..MaxBoots
    BY <1>0, <1>9, BoundsAssumption DEF Boot, TypeOK
  <2> QED
    BY <1>0, <1>1, <1>9, <2>1 DEF Boot, TypeOK, Callers, account, segments
<1>10. CASE PowerFail
  BY <1>0, <1>10
  DEF PowerFail, TypeOK, hardware, reader, account, segments
<1>11. CASE Quiet
  BY <1>0, <1>11, QuietStep
<1> QED
  BY <1>2, <1>3, <1>4, <1>5, <1>6, <1>7, <1>8, <1>9, <1>10, <1>11,
     <1>12
  DEF Next, Program, Quiet

-----------------------------------------------------------------------------
\* Nothing has run, nothing is banked, nothing is missing.
LEMMA InitEstablishes == Init => IInv
<1> SUFFICES ASSUME Init PROVE IInv
  OBVIOUS
<1>1. /\ Wrap \in Nat /\ Wrap > 1 /\ Modulus \in Nat /\ Modulus > Wrap
      /\ MaxTime \in Nat /\ MaxBoots \in Nat
  BY WrapAssumption, ModulusAssumption, BoundsAssumption
<1>2. elapsed_tick \in {Wrap * n : n \in 0..((Modulus \div Wrap) - 1)}
  <2> DEFINE P == Modulus \div Wrap
  <2>1. P \in Int /\ Modulus = Wrap * P
    BY <1>1, ModulusAssumption
  <2> HIDE DEF P
  <2>2. P >= 1
    BY <1>1, <2>1
  <2>3. 0 \in 0..(P - 1) /\ Wrap * 0 = 0
    BY <1>1, <2>1, <2>2
  <2> QED
    BY <2>3 DEF Init, P
<1>3. TypeOK
  <2>1. /\ 0 \in 0..(Wrap - 1) /\ 0 \in 0..(Modulus - 1) /\ 0 \in 0..0
        /\ 0 \in 0..MaxTime /\ 0 \in 0..MaxBoots
    BY <1>1
  <2> QED
    BY <1>2, <2>1 DEF Init, TypeOK, Callers
<1>4. OverflowInv /\ ReadInv /\ OrderInv
  BY DEF Init, OverflowInv, ReadInv, OrderInv, Starting, Started, Reading
<1>5. BankInv
  <2>1. Behind = 0 * Wrap /\ 0 \in 0..(boots + lost)
    BY <1>1 DEF Init, Behind
  <2> QED
    BY <2>1 DEF Init, BankInv, Banked, Cong, Starting, Started, Reading
<1> QED
  BY <1>3, <1>4, <1>5 DEF IInv

\* They change nothing the invariant counts.
LEMMA QuietInv ==
  ASSUME IInv, Quiet
  PROVE  IInv'
<1>1. /\ TypeOK' /\ Idle
      /\ pc # "off" /\ pc' # "off" /\ pc # "banked" /\ pc' # "banked"
      /\ Starting' <=> Starting
      /\ pc' # "read" /\ pc' # "high2" /\ pc # "high2"
      /\ pc' = "cnt" => high1' = elapsed_tick
  BY QuietStep DEF IInv
<1>2. UNCHANGED <<TA2R, TAIFG, elapsed_tick, segment_start_tick,
                  cumulative_active_ticks, time, boots, lost, cnt, cnt_tick,
                  cnt_time, segment_began, banked_time, torn>>
  BY <1>1 DEF Idle, hardware, account, segments
<1>3. OverflowInv'
  BY <1>1, <1>2 DEF IInv, OverflowInv
<1>4. ReadInv'
  BY <1>1 DEF ReadInv
<1>5. OrderInv'
  BY <1>1, <1>2 DEF IInv, OrderInv, Started
<1>6. BankInv'
  BY <1>1, <1>2
  DEF IInv, BankInv, Banked, InSegment, Started, SinceReading, SinceSegment,
      Cong, Raw, Behind
<1> QED
  BY <1>1, <1>3, <1>4, <1>5, <1>6 DEF IInv

\* A tick moves the counter and the time alike, unless it loses an overflow.
LEMMA TickMoves ==
  ASSUME TypeOK, Tick
  PROVE  \/ /\ lost' = lost
            /\ Raw' - time' = Raw - time
         \/ /\ lost' = lost + 1 /\ TAIFG /\ TA2R = Wrap - 1
            /\ Raw' - time' = (Raw - time) - Wrap
<1>1. /\ Wrap \in Nat /\ Wrap > 1 /\ TA2R \in 0..(Wrap - 1)
      /\ elapsed_tick \in Int /\ time \in Int
  BY Numbers
<1>2. /\ TA2R' = (TA2R + 1) % Wrap /\ time' = time + 1
      /\ TAIFG' = (TAIFG \/ TA2R' = 0) /\ elapsed_tick' = elapsed_tick
      /\ lost' = IF TAIFG /\ TA2R' = 0 THEN lost + 1 ELSE lost
  BY DEF Tick
<1>3. CASE TA2R = Wrap - 1
  <2>1. TA2R' = 0
    BY <1>1, <1>2, <1>3
  <2>2. CASE TAIFG
    <3>1. TAIFG' /\ lost' = lost + 1
      BY <1>2, <2>1, <2>2
    <3>2. /\ Raw = elapsed_tick + TA2R + Wrap
          /\ Raw' = elapsed_tick' + TA2R' + Wrap
      BY <2>2, <3>1 DEF Raw
    <3>3. Raw' - time' = (Raw - time) - Wrap
      BY <1>1, <1>2, <1>3, <2>1, <3>2
    <3> QED
      BY <1>3, <2>2, <3>1, <3>3
  <2>3. CASE ~TAIFG
    <3>1. TAIFG' /\ lost' = lost
      BY <1>2, <2>1, <2>3
    <3>2. /\ Raw = elapsed_tick + TA2R + 0
          /\ Raw' = elapsed_tick' + TA2R' + Wrap
      BY <2>3, <3>1 DEF Raw
    <3>3. Raw' - time' = Raw - time
      BY <1>1, <1>2, <1>3, <2>1, <3>2
    <3> QED
      BY <3>1, <3>3
  <2> QED
    BY <2>2, <2>3
<1>4. CASE TA2R # Wrap - 1
  <2>1. TA2R' = TA2R + 1 /\ TA2R' # 0
    BY <1>1, <1>2, <1>4
  <2>2. TAIFG' = TAIFG /\ lost' = lost
    BY <1>2, <2>1 DEF TypeOK
  <2> QED
    BY <1>1, <1>2, <2>1, <2>2 DEF Raw
<1> QED
  BY <1>3, <1>4

\* What a tick loses is counted in lost, and so is allowed to be missing.
LEMMA TickInv ==
  ASSUME IInv, Tick
  PROVE  IInv'
<1>1. TypeOK'
  BY TypeStep DEF Next
<1>2. UNCHANGED <<pc, elapsed_tick, masked, caller, high1, cnt, tick, boots,
                  segment_start_tick, cumulative_active_ticks, cnt_tick,
                  cnt_time, segment_began, banked_time, torn>>
  BY DEF Tick, reader, account, segments
<1>3. /\ Wrap \in Nat /\ Raw \in Int /\ Raw' \in Int /\ time \in Int
      /\ time' \in Int /\ cnt_tick \in Int /\ cnt_time \in Int
      /\ boots \in Nat /\ lost \in Nat
  BY <1>1, Numbers, NumbersNext DEF IInv
<1>4. ASSUME Brief PROVE TAIFG' = TAIFG /\ lost' = lost
  <2>1. TA2R < Wrap - 1 /\ TA2R \in 0..(Wrap - 1)
    BY <1>4, Numbers DEF Tick, IInv
  <2>2. (TA2R + 1) % Wrap # 0
    BY <1>3, <2>1
  <2> QED
    BY <2>2 DEF Tick, IInv, TypeOK
<1>5. OverflowInv'
  BY <1>2, <1>4 DEF IInv, OverflowInv, Brief, Starting, Reading
<1>6. ReadInv' /\ OrderInv'
  BY <1>2
  DEF IInv, ReadInv, OrderInv, Off, Cong, Starting, Started, Reading
<1>7. PICK d \in {0, 1} :
        /\ lost' = lost + d
        /\ Starting => d = 0
        /\ Raw' - time' = (Raw - time) - d * Wrap
  <2>1. CASE lost' = lost /\ Raw' - time' = Raw - time
    <3>1. lost + 0 = lost /\ (Raw - time) - 0 * Wrap = Raw - time
      BY <1>3
    <3> QED
      BY <2>1, <3>1
  <2>2. CASE lost' = lost + 1 /\ Raw' - time' = (Raw - time) - Wrap
    <3>1. ~Starting
      <4>1. Starting => Brief
        BY DEF Brief, Starting, Reading
      <4>2. lost # lost + 1
        BY <1>3
      <4> QED
        BY <4>1, <4>2, <1>4, <2>2
    <3>2. (Raw - time) - 1 * Wrap = (Raw - time) - Wrap
      BY <1>3
    <3> QED
      BY <2>2, <3>1, <3>2
  <2> QED
    BY <2>1, <2>2, TickMoves DEF IInv
<1>8. ASSUME NEW r \in Nat, SinceReading(r)
      PROVE  SinceReading(r + d)'
  <2> DEFINE since == (cnt_tick - cnt_time) - r * Wrap
  <2>1. Cong(Raw - time, since) /\ Raw - time \in Int /\ since \in Int
    BY <1>3, <1>8 DEF SinceReading
  <2>2. Cong(d * Wrap, d * Wrap) /\ d * Wrap \in Int
    BY <1>3 DEF Cong
  <2>3. Cong((Raw - time) - d * Wrap, since - d * Wrap)
    BY <2>1, <2>2, CongSum
  <2>4. since - d * Wrap = (cnt_tick - cnt_time) - (r + d) * Wrap
    BY <1>3
  <2> QED
    BY <1>2, <1>7, <2>3, <2>4 DEF SinceReading, Cong
<1>9. BankInv'
  <2>1. PICK k \in 0..(boots + lost) : Banked(k)
    BY DEF IInv, BankInv
  <2>2. k \in Nat /\ k \in 0..(boots' + lost')
    BY <1>2, <1>3, <1>7, <2>1
  <2>3. Cong(Behind, k * Wrap)'
    BY <1>2, <2>1 DEF Banked, Cong, Behind
  <2>4. Starting' => k <= boots' - 1 + lost'
    <3>1. Starting' = Starting
      BY <1>2 DEF Starting, Reading
    <3>2. k <= boots - 1 + lost => k <= boots' - 1 + lost'
      BY <1>2, <1>3, <1>7, <2>2
    <3> QED
      BY <2>1, <3>1, <3>2 DEF Banked
  <2>5. Starting' /\ pc' \in {"high2", "read"} => SinceReading(0)'
    <3>1. Starting /\ pc \in {"high2", "read"} => SinceReading(0) /\ d = 0
      BY <1>7, <2>1 DEF Banked
    <3>2. Starting /\ pc \in {"high2", "read"} => SinceReading(0)'
      BY <1>8, <3>1
    <3> QED
      BY <1>2, <3>2 DEF Starting, Reading
  <2>6. ASSUME Started', pc' # "banked"
        PROVE  InSegment(k)'
    <3>1. PICK m \in {0, 1}, s \in 0..(boots + lost), r \in 0..(boots + lost) :
            /\ m <= k /\ k - m + s + r <= boots - 1 + lost
            /\ SinceSegment(m, s)
            /\ SinceReading(r)
      BY <1>2, <2>1, <2>6 DEF Started, Starting, Reading, Banked, InSegment
    <3>2. SinceSegment(m, s)'
      BY <1>2, <3>1 DEF SinceSegment, Cong
    <3>3. SinceReading(r + d)'
      BY <1>3, <1>8, <3>1
    <3>4. /\ s \in 0..(boots' + lost') /\ r + d \in 0..(boots' + lost')
          /\ k - m + s + (r + d) <= boots' - 1 + lost'
      BY <1>2, <1>3, <1>7, <2>2, <3>1
    <3> QED
      BY <3>1, <3>2, <3>3, <3>4 DEF InSegment
  <2>7. ASSUME pc' = "banked"
        PROVE  AtReading(k)'
    <3>1. PICK m \in {0, 1}, r \in 0..(boots + lost) :
            /\ m <= k /\ k - m + r <= boots - 1 + lost
            /\ Off(tick, m)
            /\ SinceReading(r)
      BY <1>2, <2>1, <2>7 DEF Banked, AtReading
    <3>2. Off(tick, m)'
      BY <1>2, <3>1 DEF Off, Cong, Starting, Reading
    <3>3. SinceReading(r + d)'
      BY <1>3, <1>8, <3>1
    <3>4. r + d \in 0..(boots' + lost') /\ k - m + (r + d) <= boots' - 1 + lost'
      BY <1>2, <1>3, <1>7, <2>2, <3>1
    <3> QED
      BY <3>1, <3>2, <3>3, <3>4 DEF AtReading
  <2>8. Banked(k)'
    BY <2>3, <2>4, <2>5, <2>6, <2>7 DEF Banked
  <2> QED
    BY <2>2, <2>8 DEF BankInv
<1> QED
  BY <1>1, <1>5, <1>6, <1>9 DEF IInv

\* The handler moves what the flag stood for into elapsed_tick.
LEMMA A2_ISRInv ==
  ASSUME IInv, A2_ISR
  PROVE  IInv'
<1>1. TypeOK'
  BY TypeStep DEF Next
<1>2. UNCHANGED <<pc, TA2R, masked, caller, high1, cnt, tick, time, boots, lost,
                  segment_start_tick, cumulative_active_ticks, cnt_tick,
                  cnt_time, segment_began, banked_time, torn>>
  BY DEF A2_ISR, reader, account, segments
<1>3. /\ TAIFG /\ ~TAIFG' /\ elapsed_tick' = (elapsed_tick + Wrap) % Modulus
  BY DEF A2_ISR, Interrupted
<1>4. /\ Wrap \in Nat /\ elapsed_tick \in Nat /\ TA2R \in Nat
      /\ Raw \in Int /\ Raw' \in Int /\ time \in Int
      /\ elapsed_tick' \in Int /\ Modulus \in Nat
  BY <1>1, Numbers, NumbersNext DEF IInv
<1>5. Cong(Raw' - time, Raw - time)
  <2>1. Cong(elapsed_tick', elapsed_tick + Wrap)
    BY <1>3, <1>4, CongRemainder
  <2>2. Cong(TA2R - time, TA2R - time) /\ TA2R - time \in Int
    BY <1>4 DEF Cong
  <2>3. elapsed_tick + Wrap \in Int
    BY <1>4
  <2>4. Cong(elapsed_tick' + (TA2R - time),
             (elapsed_tick + Wrap) + (TA2R - time))
    BY <2>1, <2>2, <2>3, <1>4, CongSum
  <2>5. Raw - time = (elapsed_tick + Wrap) + (TA2R - time)
    <3>1. Raw = elapsed_tick + TA2R + Wrap
      BY <1>3 DEF Raw
    <3> QED
      BY <3>1, <1>4
  <2>6. Raw' - time = elapsed_tick' + (TA2R - time)
    <3>1. Raw' = elapsed_tick' + TA2R + 0
      BY <1>2, <1>3 DEF Raw
    <3> DEFINE e == elapsed_tick'
    <3>2. e \in Int /\ Raw' = e + TA2R + 0
      BY <3>1, <1>4
    <3> HIDE DEF e
    <3>3. (e + TA2R + 0) - time = e + (TA2R - time)
      BY <3>2, <1>4
    <3> QED
      BY <3>2, <3>3 DEF e
  <2> QED
    BY <2>4, <2>5, <2>6
<1>6. ~Starting /\ ~(pc = "high2" /\ elapsed_tick # high1)
  BY <1>3 DEF IInv, OverflowInv
<1>7. elapsed_tick' # elapsed_tick
  BY <1>3, NextElapsed DEF IInv, TypeOK
<1>8. OverflowInv' /\ OrderInv'
  BY <1>2, <1>3 DEF IInv, OverflowInv, OrderInv, Starting, Started, Reading
<1>9. ReadInv'
  BY <1>2, <1>6, <1>7 DEF IInv, ReadInv, Off, Cong, Starting, Reading
<1>10. \A r \in Nat : SinceReading(r) => SinceReading(r)'
  BY <1>2, <1>5 DEF SinceReading, Cong
<1>11. BankInv'
  <2>1. PICK k \in 0..(boots + lost) : Banked(k)
    BY DEF IInv, BankInv
  <2>2. 0..(boots + lost) \subseteq Nat
    OBVIOUS
  <2>3. InSegment(k) => InSegment(k)'
    BY <1>2, <1>10, <2>2 DEF InSegment, SinceSegment, Cong
  <2>4. AtReading(k) => AtReading(k)'
    BY <1>2, <1>10, <2>2 DEF AtReading, Off, Cong, Starting, Reading
  <2>5. Banked(k)'
    BY <1>2, <1>6, <2>1, <2>3, <2>4
    DEF Banked, Cong, Behind, Starting, Started, Reading
  <2> QED
    BY <1>2, <2>1, <2>5 DEF BankInv
<1> QED
  BY <1>1, <1>8, <1>9, <1>11 DEF IInv

\* The reading of the counter fixes what the time is.
LEMMA ReadCntInv ==
  ASSUME IInv, ReadCnt
  PROVE  IInv'
<1>1. TypeOK'
  BY TypeStep DEF Next, Program
<1>2. /\ pc = "cnt" /\ pc' = "high2" /\ (TAIFG => masked)
      /\ cnt' = TA2R /\ cnt_tick' = TrueTick /\ cnt_time' = time
      /\ UNCHANGED <<TA2R, TAIFG, elapsed_tick, time, boots, lost, masked,
                     caller, high1, tick, segment_start_tick,
                     cumulative_active_ticks, segment_began, banked_time, torn>>
  BY DEF ReadCnt, Goes, Interrupted, hardware, account, segments
<1>3. /\ Wrap \in Nat /\ elapsed_tick \in Nat /\ TA2R \in Nat
      /\ Raw \in Int /\ time \in Int /\ cnt_tick \in Int /\ cnt_time \in Int
      /\ segment_start_tick \in Int /\ segment_began \in Int
      /\ boots \in Nat /\ lost \in Nat
      /\ TrueTick \in Int /\ Cong(TrueTick, Raw)
  <2>1. TrueTick = Raw % Modulus
    BY DEF TrueTick, Raw
  <2>2. Raw \in Int
    BY Numbers DEF IInv
  <2>3. TrueTick \in 0..(Modulus - 1) /\ Cong(TrueTick, Raw)
    BY <2>1, <2>2, CongRemainder
  <2>4. Modulus \in Nat
    BY ModulusAssumption
  <2> QED
    BY <2>3, <2>4, Numbers DEF IInv
<1>4. Cong(TrueTick - time, Raw - time)
  <2>1. Cong(time, time)
    BY DEF Cong
  <2> QED
    BY <2>1, <1>3, CongSum
<1>5. OverflowInv'
  BY <1>2 DEF IInv, OverflowInv, Starting, Reading
<1>6. ReadInv'
  <2> SUFFICES ASSUME high1 = elapsed_tick
               PROVE  \E m \in {0, 1} : Off(cnt + high1, m)'
    BY <1>2 DEF ReadInv
  <2>1. PICK c \in {0, 1} : /\ c = 1 => masked /\ ~Starting
                            /\ (TA2R + elapsed_tick) + c * Wrap = Raw
    <3>1. CASE TAIFG
      <4>1. masked /\ ~Starting
        BY <1>2, <3>1 DEF IInv, OverflowInv
      <4>2. Raw = elapsed_tick + TA2R + Wrap
        BY <3>1 DEF Raw
      <4>3. (TA2R + elapsed_tick) + 1 * Wrap = Raw
        BY <4>2, <1>3
      <4> QED
        BY <4>1, <4>3
    <3>2. CASE ~TAIFG
      <4>1. Raw = elapsed_tick + TA2R + 0
        BY <3>2 DEF Raw
      <4>2. (TA2R + elapsed_tick) + 0 * Wrap = Raw /\ 0 # 1
        BY <4>1, <1>3
      <4> QED
        BY <4>2
    <3> QED
      BY <3>1, <3>2
  <2>2. Off(cnt + high1, c)'
    <3>1. Cong((TA2R + elapsed_tick) + c * Wrap, TrueTick)
      BY <1>3, <2>1 DEF Cong
    <3>2. cnt' = TA2R /\ high1' = elapsed_tick
      BY <1>2
    <3>3. Cong((cnt' + high1') + c * Wrap, cnt_tick')
      BY <1>2, <3>1, <3>2
    <3>4. c = 1 => masked' /\ ~Starting'
      BY <1>2, <2>1 DEF Starting, Reading
    <3> QED
      BY <3>3, <3>4 DEF Off, Cong
  <2> QED
    BY <2>2
<1>7. OrderInv'
  <2>1. banked_time <= time /\ segment_began <= time
    BY <1>3 DEF IInv, TypeOK
  <2>2. Started /\ pc # "banked" => banked_time <= segment_began
    BY DEF IInv, OrderInv
  <2>3. Started' => Started
    BY <1>2 DEF Started, Starting, Reading
  <2>4. boots >= 1
    BY <1>2 DEF IInv, OrderInv
  <2> QED
    BY <1>2, <2>1, <2>2, <2>3, <2>4 DEF OrderInv
<1>8. SinceReading(0)'
  <2>1. (TrueTick - time) - 0 * Wrap = TrueTick - time
    BY <1>3
  <2>2. Cong(Raw - time, (TrueTick - time) - 0 * Wrap)
    BY <1>4, <2>1 DEF Cong
  <2> QED
    BY <1>2, <2>2 DEF SinceReading, Cong, Raw
<1>9. BankInv'
  <2>1. PICK k \in 0..(boots + lost) : Banked(k)
    BY DEF IInv, BankInv
  <2>2. Cong(Behind, k * Wrap)' /\ (Starting' => k <= boots' - 1 + lost')
    BY <1>2, <2>1 DEF Banked, Cong, Behind, Starting, Reading
  <2>3. ASSUME Started' PROVE InSegment(k)'
    <3>1. PICK m \in {0, 1}, s \in 0..(boots + lost), r \in 0..(boots + lost) :
            /\ m <= k /\ k - m + s + r <= boots - 1 + lost
            /\ SinceSegment(m, s)
            /\ SinceReading(r)
      BY <1>2, <2>1, <2>3 DEF Started, Starting, Reading, Banked, InSegment
    <3>2. k \in Nat /\ m \in {0, 1} /\ s \in Nat /\ r \in Nat
      BY <1>3, <2>1, <3>1
    <3>3. /\ s + r \in 0..(boots + lost) /\ 0 \in 0..(boots + lost)
          /\ k - m + (s + r) + 0 <= boots - 1 + lost
      BY <1>3, <3>1, <3>2
    <3>4. SinceSegment(m, s + r)'
      <4> DEFINE a == cnt_tick - cnt_time
                 b == segment_start_tick - segment_began
                 now == Raw - time
      <4>1. Cong(now, a - r * Wrap) /\ Cong(a, b + (m - s) * Wrap)
        BY <3>1 DEF SinceReading, SinceSegment
      <4>2. a \in Int /\ b \in Int /\ now \in Int
        BY <1>3
      <4>3. Cong(TrueTick - time, now)
        BY <1>4
      <4> HIDE DEF a, b, now
      <4>4. /\ Cong(r * Wrap, r * Wrap) /\ r * Wrap \in Int
            /\ b + (m - s) * Wrap \in Int
        BY <1>3, <3>2, <4>2 DEF Cong
      <4>5. Cong(a - r * Wrap, (b + (m - s) * Wrap) - r * Wrap)
        BY <4>1, <4>2, <4>4, CongSum
      <4>6. (b + (m - s) * Wrap) - r * Wrap = b + (m - (s + r)) * Wrap
        BY <1>3, <3>2, <4>2
      <4>7. Cong(TrueTick - time, b + (m - (s + r)) * Wrap)
        BY <4>1, <4>3, <4>5, <4>6 DEF Cong
      <4> QED
        BY <1>2, <4>7 DEF SinceSegment, Cong, b
    <3> QED
      BY <1>2, <1>8, <3>1, <3>3, <3>4 DEF InSegment
  <2> QED
    BY <1>2, <1>8, <2>1, <2>2, <2>3 DEF BankInv, Banked
<1> QED
  BY <1>1, <1>5, <1>6, <1>7, <1>9 DEF IInv

\* If elapsed_tick did not move, the two readings belong together.
LEMMA ReadHigh2Inv ==
  ASSUME IInv, ReadHigh2
  PROVE  IInv'
<1>1. TypeOK'
  BY TypeStep DEF Next, Program
<1>2. /\ pc = "high2"
      /\ UNCHANGED <<TA2R, TAIFG, elapsed_tick, time, boots, lost, masked,
                     caller, high1, cnt, cnt_tick, cnt_time,
                     segment_start_tick, cumulative_active_ticks,
                     segment_began, banked_time, torn>>
      /\ \/ /\ high1 = elapsed_tick /\ pc' = "read"
            /\ tick' = (cnt + high1) % Modulus
         \/ pc' = "high1"
  BY DEF ReadHigh2, Goes, hardware, account, segments
<1>3. OverflowInv' /\ OrderInv'
  BY <1>2 DEF IInv, OverflowInv, OrderInv, Starting, Started, Reading
<1>4. ReadInv'
  <2> SUFFICES ASSUME pc' = "read" PROVE \E m \in {0, 1} : Off(tick, m)'
    BY <1>2 DEF ReadInv
  <2>1. high1 = elapsed_tick /\ tick' = (cnt + high1) % Modulus
    BY <1>2
  <2>2. PICK m \in {0, 1} : Off(cnt + high1, m)
    BY <1>2, <2>1 DEF IInv, ReadInv
  <2>3. cnt + high1 \in Int /\ m * Wrap \in Int
    BY Numbers DEF IInv
  <2>4. /\ (cnt + high1) % Modulus \in Int
        /\ Cong((cnt + high1) % Modulus, cnt + high1)
    <3>1. Modulus \in Nat
      BY ModulusAssumption
    <3> QED
      BY <2>3, <3>1, CongRemainder
  <2>5. Cong(m * Wrap, m * Wrap)
    BY DEF Cong
  <2>6. Cong(((cnt + high1) % Modulus) + m * Wrap, (cnt + high1) + m * Wrap)
    BY <2>3, <2>4, <2>5, CongSum
  <2>7. Cong(tick' + m * Wrap, cnt_tick)
    BY <2>1, <2>2, <2>6 DEF Cong, Off
  <2> QED
    BY <1>2, <2>2, <2>7 DEF Off, Cong, Starting, Reading
<1>5. BankInv'
  BY <1>2
  DEF IInv, BankInv, Banked, InSegment, Starting, Started, Reading,
      SinceReading, SinceSegment, Cong, Raw, Behind
<1> QED
  BY <1>1, <1>3, <1>4, <1>5 DEF IInv

\* The first segment of a life begins at a reading that is exact.
LEMMA StartSegmentInv ==
  ASSUME IInv, StartSegment
  PROVE  IInv'
<1>1. TypeOK'
  BY TypeStep DEF Next, Program
<1>2. /\ pc = "read" /\ caller = "start" /\ pc' = "boot"
      /\ segment_start_tick' = tick /\ segment_began' = cnt_time
      /\ UNCHANGED <<TA2R, TAIFG, elapsed_tick, time, boots, lost, masked,
                     caller, high1, cnt, tick, cnt_tick, cnt_time,
                     cumulative_active_ticks, banked_time, torn>>
  BY DEF StartSegment, Goes, hardware, reader
<1>3. Starting /\ ~Starting'
  BY <1>2 DEF Starting, Reading
<1>4. /\ Wrap \in Nat /\ tick \in Int /\ cnt_tick \in Int /\ cnt_time \in Int
      /\ boots \in Nat /\ lost \in Nat
  BY Numbers DEF IInv
<1>5. Cong(tick, cnt_tick)
  <2>1. PICK m \in {0, 1} : Off(tick, m)
    BY <1>2 DEF IInv, ReadInv
  <2>2. m = 0
    BY <1>3, <2>1 DEF Off
  <2>3. tick + m * Wrap = tick
    BY <1>4, <2>2
  <2> QED
    BY <2>1, <2>3 DEF Off
<1>6. OverflowInv' /\ ReadInv'
  BY <1>2, <1>3 DEF OverflowInv, ReadInv
<1>7. OrderInv'
  <2>1. boots >= 1 /\ banked_time <= cnt_time
    BY <1>2, <1>3 DEF IInv, OrderInv
  <2>2. cnt_time <= cnt_time
    BY <1>4
  <2> QED
    BY <1>2, <1>3, <2>1, <2>2 DEF OrderInv
<1>8. BankInv'
  <2>1. PICK k \in 0..(boots + lost) : Banked(k)
    BY DEF IInv, BankInv
  <2>2. k <= boots - 1 + lost /\ SinceReading(0) /\ Cong(Behind, k * Wrap)
    BY <1>2, <1>3, <2>1 DEF Banked
  <2>3. SinceSegment(0, 0)'
    <3>1. Cong(cnt_time, cnt_time)
      BY DEF Cong
    <3>2. Cong(cnt_tick - cnt_time, tick - cnt_time)
      <4>1. Cong(cnt_tick, tick)
        BY <1>5 DEF Cong
      <4> QED
        BY <1>4, <3>1, <4>1, CongSum
    <3>3. (tick - cnt_time) + (0 - 0) * Wrap = tick - cnt_time
      BY <1>4
    <3>4. Cong(cnt_tick - cnt_time, (tick - cnt_time) + (0 - 0) * Wrap)
      BY <3>2, <3>3
    <3> QED
      BY <1>2, <3>4 DEF SinceSegment, Cong
  <2>4. SinceReading(0)'
    BY <1>2, <2>2 DEF SinceReading, Cong, Raw
  <2>5. /\ 0 \in 0..(boots + lost) /\ 0 <= k
        /\ k - 0 + 0 + 0 <= boots - 1 + lost
    BY <1>4, <2>1, <2>2
  <2>6. InSegment(k)'
    BY <1>2, <2>3, <2>4, <2>5 DEF InSegment
  <2>7. Cong(Behind, k * Wrap)'
    BY <1>2, <2>2 DEF Cong, Behind
  <2> QED
    BY <1>2, <1>3, <2>1, <2>6, <2>7 DEF BankInv, Banked
<1> QED
  BY <1>1, <1>6, <1>7, <1>8 DEF IInv

\* A segment is banked up to the reading: it is short of the time by what the
\* reading is behind, long by what its beginning was, and short of the losses.
LEMMA SegmentCounted ==
  ASSUME IInv, pc = "read", caller = "bank"
  PROVE  \E n \in {0, 1}, r \in 0..(boots + lost), j \in 0..(boots + lost) :
           /\ n <= j /\ j - n + r <= boots - 1 + lost
           /\ Off(tick, n)
           /\ SinceReading(r)
           /\ Cong((SumTime - torn) - Sum, j * Wrap)
<1> DEFINE seg == (tick - segment_start_tick) % Modulus
           len == cnt_time - segment_began
<1>13. Started /\ pc # "banked"
  BY DEF Started, Starting
<1>14. /\ Wrap \in Nat /\ tick \in Int /\ cnt_tick \in Int /\ cnt_time \in Int
       /\ segment_start_tick \in Int /\ segment_began \in Int
       /\ cumulative_active_ticks \in Int /\ banked_time \in Int
       /\ boots \in Nat /\ lost \in Nat /\ torn \in Int
  BY Numbers DEF IInv
<1>15. seg \in Int /\ Cong(seg, tick - segment_start_tick)
  <2>1. tick - segment_start_tick \in Int /\ Modulus \in Nat
    BY <1>14, ModulusAssumption
  <2>2. seg \in 0..(Modulus - 1) /\ Cong(seg, tick - segment_start_tick)
    BY <2>1, CongRemainder
  <2> HIDE DEF seg
  <2> QED
    BY <2>1, <2>2
<1>1. PICK k \in 0..(boots + lost) : Banked(k)
  BY DEF IInv, BankInv
<1>2. PICK m \in {0, 1}, s \in 0..(boots + lost), r \in 0..(boots + lost) :
        /\ m <= k /\ k - m + s + r <= boots - 1 + lost
        /\ SinceSegment(m, s)
        /\ SinceReading(r)
  BY <1>13, <1>1 DEF Banked, InSegment
<1>3. PICK n \in {0, 1} : Off(tick, n)
  BY DEF IInv, ReadInv
<1> DEFINE j == k - m + s + n
<1>4. /\ k \in Nat /\ m \in {0, 1} /\ s \in Nat /\ r \in Nat /\ n \in {0, 1}
      /\ boots \in Nat /\ lost \in Nat
  BY <1>14, <1>1, <1>2, <1>3
<1>5. /\ j \in 0..(boots + lost) /\ n <= j
      /\ j - n + r <= boots - 1 + lost
  BY <1>2, <1>4
<1>6. Cong((SumTime - torn) - Sum, j * Wrap)
  <2>1. Cong(len - seg, (k - j) * (-Wrap))
    <3> DEFINE a == tick + n * Wrap
               b == cnt_tick - cnt_time
               c == segment_start_tick - segment_began
    <3>1. Cong(a, cnt_tick) /\ Cong(b, c + (m - s) * Wrap)
      BY <1>2, <1>3 DEF Off, SinceSegment
    <3>2. /\ a \in Int /\ b \in Int /\ c \in Int
          /\ c + (m - s) * Wrap \in Int
      BY <1>14, <1>4
    <3>3. /\ Cong(cnt_time, cnt_time) /\ Cong(segment_start_tick,
                                              segment_start_tick)
          /\ Cong(n * Wrap, n * Wrap) /\ Cong(len, len)
          /\ len \in Int /\ n * Wrap \in Int
      BY <1>14, <1>4 DEF Cong
    \* the reading, back from the time it stands for
    <3>4. Cong(a - cnt_time, c + (m - s) * Wrap)
      <4>1. Cong(a - cnt_time, cnt_tick - cnt_time)
        BY <1>14, <3>1, <3>2, <3>3, CongSum
      <4> QED
        BY <3>1, <4>1 DEF Cong, b
    <3>5. a - cnt_time \in Int
      BY <1>14, <3>2
    <3>6. Cong((a - cnt_time) - n * Wrap,
               (c + (m - s) * Wrap) - n * Wrap)
      BY <3>2, <3>3, <3>4, <3>5, CongSum
    <3>7. (a - cnt_time) - n * Wrap = tick - cnt_time
      BY <1>14, <1>4
    <3>8. (c + (m - s) * Wrap) - n * Wrap
            = (segment_start_tick - segment_began) + (m - s - n) * Wrap
      BY <1>14, <1>4
    <3>9. Cong(tick - cnt_time,
               (segment_start_tick - segment_began) + (m - s - n) * Wrap)
      BY <3>6, <3>7, <3>8
    <3>10. Cong(cnt_time - segment_start_tick, cnt_time - segment_start_tick)
      BY DEF Cong
    <3>11. Cong((tick - cnt_time) + (cnt_time - segment_start_tick),
                ((segment_start_tick - segment_began) + (m - s - n) * Wrap)
                  + (cnt_time - segment_start_tick))
      <4>1. /\ tick - cnt_time \in Int
            /\ cnt_time - segment_start_tick \in Int
            /\ (segment_start_tick - segment_began) + (m - s - n) * Wrap
                 \in Int
        BY <1>14, <1>4
      <4> QED
        BY <3>9, <3>10, <4>1, CongSum
    <3>12. (tick - cnt_time) + (cnt_time - segment_start_tick)
             = tick - segment_start_tick
      BY <1>14
    <3>13. ((segment_start_tick - segment_began) + (m - s - n) * Wrap)
             + (cnt_time - segment_start_tick)
             = len + (m - s - n) * Wrap
      BY <1>14, <1>4
    <3>14. Cong(seg, len + (m - s - n) * Wrap)
      BY <1>15, <3>11, <3>12, <3>13 DEF Cong
    <3>15. Cong(len - seg, len - (len + (m - s - n) * Wrap))
      <4>1. len + (m - s - n) * Wrap \in Int
        BY <1>14, <1>4, <3>3
      <4> HIDE DEF seg, len
      <4> QED
        BY <1>15, <3>3, <3>14, <4>1, CongSum
    <3>16. len - (len + (m - s - n) * Wrap) = (k - j) * (-Wrap)
      BY <1>14, <1>4, <3>3
    <3> QED
      BY <3>15, <3>16
  <2>2. Cong(Behind, k * Wrap)
    BY <1>1 DEF Banked
  <2>3. /\ len - seg \in Int /\ Behind \in Int /\ k * Wrap \in Int
        /\ (k - j) * (-Wrap) \in Int
    BY <1>14, <1>15, <1>4 DEF Behind
  <2>4. Cong(Behind + (len - seg), k * Wrap + (k - j) * (-Wrap))
    BY <2>1, <2>2, <2>3, CongSum
  <2>5. k * Wrap + (k - j) * (-Wrap) = j * Wrap
    BY <1>14, <1>4
  <2>6. (SumTime - torn) - Sum = Behind + (len - seg)
    <3>1. Sum = cumulative_active_ticks + seg /\ SumTime = banked_time + len
      BY DEF Sum, SumTime
    <3> HIDE DEF seg
    <3> QED
      BY <1>14, <1>15, <3>1 DEF Behind, len
  <2> QED
    BY <2>4, <2>5, <2>6
<1> HIDE DEF j
<1> QED
  BY <1>2, <1>3, <1>5, <1>6

\* What is missing with the segment added is what SegmentCounted says.
LEMMA AddSegmentInv ==
  ASSUME IInv, AddSegment
  PROVE  IInv'
<1>1. TypeOK'
  BY TypeStep DEF Next, Program
<1>2. /\ pc = "read" /\ caller = "bank" /\ pc' = "banked"
      /\ cumulative_active_ticks' = Sum
      /\ banked_time' = SumTime
      /\ UNCHANGED <<TA2R, TAIFG, elapsed_tick, time, boots, lost, masked,
                     caller, high1, cnt, tick, cnt_tick, cnt_time,
                     segment_start_tick, segment_began, torn>>
  BY DEF AddSegment, Goes, hardware, reader
<1>3. Started /\ ~Starting /\ ~Starting'
  BY <1>2 DEF Started, Starting, Reading
<1>4. /\ cnt_time \in Int /\ segment_began \in Int /\ banked_time \in Int
      /\ boots \in Nat /\ lost \in Nat
  BY Numbers DEF IInv
<1>5. OverflowInv' /\ ReadInv'
  BY <1>2, <1>3 DEF OverflowInv, ReadInv
<1>6. OrderInv'
  <2>1. boots >= 1 /\ banked_time <= segment_began
    BY <1>2, <1>3 DEF IInv, OrderInv
  <2>2. SumTime <= cnt_time
    BY <1>4, <2>1 DEF SumTime
  <2> QED
    BY <1>2, <1>3, <2>1, <2>2 DEF OrderInv, Started
<1>7. BankInv'
  <2>1. PICK n \in {0, 1}, r \in 0..(boots + lost), j \in 0..(boots + lost) :
          /\ n <= j /\ j - n + r <= boots - 1 + lost
          /\ Off(tick, n)
          /\ SinceReading(r)
          /\ Cong((SumTime - torn) - Sum, j * Wrap)
    BY <1>2, SegmentCounted
  <2>2. Off(tick, n)' /\ SinceReading(r)'
    BY <1>2, <1>3, <2>1
    DEF Off, SinceReading, Cong, Raw, Starting, Reading
  <2>3. AtReading(j)'
    BY <1>2, <2>1, <2>2 DEF AtReading
  <2>4. Behind' = (SumTime - torn) - Sum
    BY <1>2 DEF Behind
  <2>5. Cong(Behind, j * Wrap)'
    BY <2>1, <2>4 DEF Cong
  <2>6. Banked(j)'
    BY <1>2, <1>3, <2>3, <2>5 DEF Banked
  <2> QED
    BY <1>2, <2>1, <2>6 DEF BankInv
<1> QED
  BY <1>1, <1>5, <1>6, <1>7 DEF IInv

\* A failure inside the addition banks the segment or does not; what it makes
\* of the account besides is in torn.
LEMMA FailInAdditionInv ==
  ASSUME IInv, FailInAddition
  PROVE  IInv'
<1>1. TypeOK'
  BY TypeStep DEF Next
<1>2. /\ pc = "read" /\ caller = "bank" /\ pc' = "off"
      /\ UNCHANGED <<boots, lost>>
  BY DEF FailInAddition
<1>3. ~Starting' /\ ~Started'
  BY <1>2 DEF Starting, Started, Reading
<1>4. OverflowInv' /\ ReadInv' /\ OrderInv'
  BY <1>2, <1>3 DEF OverflowInv, ReadInv, OrderInv
<1>5. PICK y \in Nat :
        /\ \/ y = cumulative_active_ticks /\ banked_time' = banked_time
           \/ y = Sum /\ banked_time' = SumTime
        /\ torn' = (torn + (y - cumulative_active_ticks')) % Modulus
  BY FailSorts
<1>6. PICK j \in 0..(boots + lost) :
        Cong((banked_time' - torn) - y, j * Wrap)
  <2>1. CASE y = cumulative_active_ticks /\ banked_time' = banked_time
    <3>1. PICK k \in 0..(boots + lost) : Cong(Behind, k * Wrap)
      BY DEF IInv, BankInv, Banked
    <3> QED
      BY <2>1, <3>1 DEF Behind
  <2>2. CASE y = Sum /\ banked_time' = SumTime
    <3>1. PICK k \in 0..(boots + lost) :
            Cong((SumTime - torn) - Sum, k * Wrap)
      BY <1>2, SegmentCounted
    <3> QED
      BY <2>2, <3>1
  <2> QED
    BY <1>5, <2>1, <2>2
<1>7. Cong(Behind', (banked_time' - torn) - y)
  <2> DEFINE u == cumulative_active_ticks'
             z == torn + (y - u)
             x == banked_time' - u
  <2>1. /\ u \in Int /\ torn \in Int /\ banked_time' \in Int
        /\ z \in Int /\ x \in Int
    <3>1. u \in Nat /\ banked_time' \in 0..time
      BY FailSorts
    <3>2. torn \in Nat
      BY Numbers DEF IInv
    <3> QED
      BY <3>1, <3>2
  <2>2. Cong(torn', z) /\ torn' \in Int
    <3>1. torn' = z % Modulus
      BY <1>5
    <3>2. z % Modulus \in 0..(Modulus - 1) /\ Cong(z % Modulus, z)
      BY <2>1, CongRemainder
    <3> QED
      BY <3>1, <3>2, FailSorts
  <2>3. Cong(x, x)
    BY DEF Cong
  <2>4. Cong(x - torn', x - z)
    <3> HIDE DEF x, z
    <3> QED
      BY <2>1, <2>2, <2>3, CongSum
  <2>5. x - torn' = Behind' /\ x - z = (banked_time' - torn) - y
    BY <2>1, <2>2 DEF Behind
  <2> QED
    BY <2>4, <2>5
<1>8. Cong(Behind, j * Wrap)'
  BY <1>6, <1>7 DEF Cong
<1>9. BankInv'
  BY <1>2, <1>3, <1>6, <1>8 DEF BankInv, Banked
<1> QED
  BY <1>1, <1>4, <1>9 DEF IInv

\* The next segment begins where the last was banked up to.
LEMMA NextSegmentInv ==
  ASSUME IInv, NextSegment
  PROVE  IInv'
<1>1. TypeOK'
  BY TypeStep DEF Next, Program
<1>2. /\ pc = "banked" /\ pc' \in {"saved", "run"}
      /\ segment_start_tick' = tick /\ segment_began' = cnt_time
      /\ UNCHANGED <<TA2R, TAIFG, elapsed_tick, time, boots, lost, masked,
                     caller, high1, cnt, tick, cnt_tick, cnt_time,
                     cumulative_active_ticks, banked_time, torn>>
  BY DEF NextSegment, Goes, hardware, reader
<1>3. ~Starting /\ ~Starting'
  BY <1>2 DEF Starting, Reading
<1>4. /\ Wrap \in Nat /\ tick \in Int /\ cnt_tick \in Int /\ cnt_time \in Int
      /\ boots \in Nat /\ lost \in Nat
  BY Numbers DEF IInv
<1>5. OverflowInv' /\ ReadInv'
  BY <1>2, <1>3 DEF OverflowInv, ReadInv
<1>6. OrderInv'
  <2>1. boots >= 1 /\ banked_time <= cnt_time
    BY <1>2 DEF IInv, OrderInv
  <2>2. cnt_time <= cnt_time
    BY <1>4
  <2> QED
    BY <1>2, <1>3, <2>1, <2>2 DEF OrderInv
<1>7. BankInv'
  <2>1. PICK k \in 0..(boots + lost) : Banked(k)
    BY DEF IInv, BankInv
  <2>2. PICK m \in {0, 1}, r \in 0..(boots + lost) :
          /\ m <= k /\ k - m + r <= boots - 1 + lost
          /\ Off(tick, m)
          /\ SinceReading(r)
    BY <1>2, <2>1 DEF Banked, AtReading
  <2>3. k \in Nat /\ m \in {0, 1} /\ r \in Nat
    BY <1>4, <2>1, <2>2
  <2>4. SinceSegment(m, 0)'
    <3>1. Cong(cnt_time, cnt_time) /\ Cong(cnt_tick, tick + m * Wrap)
      BY <2>2 DEF Cong, Off
    <3>2. tick + m * Wrap \in Int
      BY <1>4, <2>3
    <3>3. Cong(cnt_tick - cnt_time, (tick + m * Wrap) - cnt_time)
      BY <1>4, <3>1, <3>2, CongSum
    <3>4. (tick + m * Wrap) - cnt_time = (tick - cnt_time) + (m - 0) * Wrap
      BY <1>4, <2>3
    <3>5. Cong(cnt_tick - cnt_time, (tick - cnt_time) + (m - 0) * Wrap)
      BY <3>3, <3>4
    <3> QED
      BY <1>2, <3>5 DEF SinceSegment, Cong
  <2>5. SinceReading(r)'
    BY <1>2, <2>2 DEF SinceReading, Cong, Raw
  <2>6. 0 \in 0..(boots + lost) /\ k - m + 0 + r <= boots - 1 + lost
    BY <1>4, <2>2, <2>3
  <2>7. InSegment(k)'
    BY <1>2, <2>2, <2>4, <2>5, <2>6 DEF InSegment
  <2>8. Cong(Behind, k * Wrap)'
    BY <1>2, <2>1 DEF Cong, Behind, Banked
  <2> QED
    BY <1>2, <1>3, <2>1, <2>7, <2>8 DEF BankInv, Banked
<1> QED
  BY <1>1, <1>5, <1>6, <1>7 DEF IInv

\* A new life owes one overflow more at most.
LEMMA BootInv ==
  ASSUME IInv, Boot
  PROVE  IInv'
<1>1. TypeOK'
  BY TypeStep DEF Next
<1>2. /\ pc' = "high1" /\ caller' = "start" /\ boots' = boots + 1 /\ ~TAIFG'
      /\ UNCHANGED <<lost, cumulative_active_ticks, banked_time, torn>>
  BY DEF Boot, account, segments
<1>3. boots \in Nat /\ lost \in Nat
  BY Numbers DEF IInv
<1>4. Starting' /\ ~Started'
  BY <1>2 DEF Starting, Started, Reading
<1>5. OverflowInv' /\ ReadInv'
  BY <1>2 DEF OverflowInv, ReadInv
<1>6. OrderInv'
  BY <1>2, <1>3, <1>4 DEF OrderInv
<1>7. BankInv'
  <2>1. PICK k \in 0..(boots + lost) : Banked(k)
    BY DEF IInv, BankInv
  <2>2. k \in 0..(boots' + lost') /\ k <= boots' - 1 + lost'
    BY <1>2, <1>3, <2>1
  <2>3. Cong(Behind, k * Wrap)'
    BY <1>2, <2>1 DEF Cong, Behind, Banked
  <2> QED
    BY <1>2, <1>4, <2>2, <2>3 DEF BankInv, Banked
<1> QED
  BY <1>1, <1>5, <1>6, <1>7 DEF IInv

\* Wherever the supply fails, what is banked stays.
LEMMA PowerFailInv ==
  ASSUME IInv, PowerFail
  PROVE  IInv'
<1>1. TypeOK'
  BY TypeStep DEF Next
<1>2. /\ pc' = "off"
      /\ UNCHANGED <<boots, lost, cumulative_active_ticks, banked_time, torn>>
  BY DEF PowerFail, account, segments
<1>3. ~Starting' /\ ~Started'
  BY <1>2 DEF Starting, Started, Reading
<1>4. OverflowInv' /\ ReadInv' /\ OrderInv'
  BY <1>2, <1>3 DEF OverflowInv, ReadInv, OrderInv
<1>5. BankInv'
  BY <1>2, <1>3 DEF IInv, BankInv, Banked, Cong, Behind
<1> QED
  BY <1>1, <1>4, <1>5 DEF IInv

\* The invariant only speaks of the variables.
LEMMA StutterInv == IInv /\ UNCHANGED vars => IInv'
BY DEF vars, hardware, reader, account, segments, IInv, TypeOK, OverflowInv,
       ReadInv, OrderInv, BankInv, Banked, InSegment, AtReading, Off, Starting,
       Started, Reading, SinceReading, SinceSegment, Cong, Raw, Behind

\* The inductive invariant holds in every state.
THEOREM InvHolds == Spec => []IInv
<1>1. Init => IInv
  BY InitEstablishes
<1>2. IInv /\ [Next]_vars => IInv'
  <2> SUFFICES ASSUME IInv, [Next]_vars PROVE IInv'
    OBVIOUS
  <2>1. CASE Tick
    BY <2>1, TickInv
  <2>2. CASE A2_ISR
    BY <2>2, A2_ISRInv
  <2>3. CASE ReadCnt
    BY <2>3, ReadCntInv
  <2>4. CASE ReadHigh2
    BY <2>4, ReadHigh2Inv
  <2>5. CASE StartSegment
    BY <2>5, StartSegmentInv
  <2>6. CASE AddSegment
    BY <2>6, AddSegmentInv
  <2>7. CASE NextSegment
    BY <2>7, NextSegmentInv
  <2>8. CASE Quiet
    BY <2>8, QuietInv
  <2>9. CASE Boot
    BY <2>9, BootInv
  <2>10. CASE PowerFail
    BY <2>10, PowerFailInv
  <2>11. CASE UNCHANGED vars
    BY <2>11, StutterInv
  <2>12. CASE FailInAddition
    BY <2>12, FailInAdditionInv
  <2> QED
    BY <2>1, <2>2, <2>3, <2>4, <2>5, <2>6, <2>7, <2>8, <2>9, <2>10, <2>11,
       <2>12
    DEF Next, Program, Quiet
<1> QED
  BY <1>1, <1>2, PTL DEF Spec

-----------------------------------------------------------------------------
\* The counter and elapsed_tick stay in their ranges through every overflow,
\* and no more is due to be banked than time has passed.
THEOREM TypeCorrect == Spec => []TypeOK
<1>1. IInv => TypeOK
  BY DEF IInv
<1> QED
  BY <1>1, InvHolds, PTL

\* get_current_tick() returns the time at which it read the counter, for a
\* counter of any width and overflows anywhere between its readings; only in a
\* critical section may it be an overflow behind.
THEOREM ReadsCorrect == Spec => []ReadsTheTime
<1>1. ASSUME IInv, pc = "read"
      PROVE  \/ tick = cnt_tick
             \/ masked /\ (tick + Wrap) % Modulus = cnt_tick
  <2>1. PICK m \in {0, 1} : Off(tick, m)
    BY <1>1 DEF IInv, ReadInv
  <2>2. /\ tick \in 0..(Modulus - 1) /\ cnt_tick \in 0..(Modulus - 1)
        /\ tick \in Int /\ Wrap \in Int
    BY <1>1, Numbers DEF IInv, TypeOK
  <2>3. tick % Modulus = tick /\ cnt_tick % Modulus = cnt_tick
    BY <2>2, SmallRemainder
  <2>4. CASE m = 0
    <3>1. tick + m * Wrap = tick
      BY <2>2, <2>4
    <3> QED
      BY <2>1, <2>3, <3>1 DEF Off, Cong
  <2>5. CASE m = 1
    <3>1. tick + m * Wrap = tick + Wrap
      BY <2>2, <2>5
    <3> QED
      BY <2>1, <2>3, <2>5, <3>1 DEF Off, Cong
  <2> QED
    BY <2>4, <2>5
<1>2. IInv => ReadsTheTime
  BY <1>1 DEF ReadsTheTime
<1> QED
  BY <1>2, InvHolds, PTL

\* A failure inside the addition takes or gives whole words.
LEMMA TornStep ==
  ASSUME IInv, TornInv, [Next]_vars
  PROVE  TornInv'
<1>1. CASE FailInAddition
  <2> DEFINE u == cumulative_active_ticks'
             P == Modulus \div Wrap
  <2>1. PICK y \in Nat :
          /\ u % Wrap = y % Wrap
          /\ torn' = (torn + (y - u)) % Modulus
    BY <1>1, FailSorts
  <2>2. /\ Wrap \in Nat \ {0} /\ Modulus \in Nat /\ P \in Int
        /\ Modulus = Wrap * P
    BY WrapAssumption, ModulusAssumption
  <2>3. u \in Nat /\ torn \in Nat
    BY <1>1, FailSorts, Numbers DEF IInv
  <2> DEFINE a == torn \div Wrap
             b == y \div Wrap
             c == u \div Wrap
             x == y % Wrap
             z == torn + (y - u)
  <2>4. /\ torn = Wrap * a /\ a \in Int
        /\ y = Wrap * b + x /\ b \in Int
        /\ u = Wrap * c + x /\ c \in Int
        /\ x \in Int
    <3>1. \A n \in Nat : /\ n = Wrap * (n \div Wrap) + (n % Wrap)
                         /\ n \div Wrap \in Int /\ n % Wrap \in Int
      BY <2>2
    <3>2. torn % Wrap = 0
      BY DEF TornInv
    <3>3. Wrap * a \in Int
      BY <2>2, <2>3, <3>1
    <3>4. torn = Wrap * a /\ a \in Int
      BY <2>3, <3>1, <3>2, <3>3
    <3>5. y = Wrap * b + x /\ b \in Int /\ x \in Int
      BY <3>1
    <3> HIDE DEF u
    <3>6. u = Wrap * c + (u % Wrap) /\ c \in Int
      BY <2>3, <3>1
    <3> HIDE DEF a, b, c, x
    <3>7. u % Wrap = x
      BY <2>1 DEF x
    <3> QED
      BY <3>4, <3>5, <3>6, <3>7
  <2>5. z \in Int
    BY <2>3
  <2>6. PICK q \in Int : z = q * Modulus + (z % Modulus)
    BY <2>5, Division
  <2> DEFINE h == (a + b) - (c + q * P)
             t == z % Modulus
  <2>7. torn' = t /\ t \in Int
    BY <2>1, <2>5, Division
  <2>8. z = Wrap * a + (Wrap * b - Wrap * c)
    <3> HIDE DEF a, b, c, x
    <3>1. Wrap * a \in Int /\ Wrap * b \in Int /\ Wrap * c \in Int
      BY <2>2, <2>4
    <3>2. z = Wrap * a + ((Wrap * b + x) - (Wrap * c + x))
      BY <2>4
    <3> HIDE DEF z
    <3> QED
      BY <2>4, <3>1, <3>2
  <2>9. t = Wrap * h /\ h \in Int
    <3> HIDE DEF a, b, c, P, t, z
    <3>1. q * P \in Int /\ q * Modulus = Wrap * (q * P)
      BY <2>2, <2>6
    <3> DEFINE g == q * P
    <3>2. g \in Int /\ q * Modulus = Wrap * g
      BY <3>1
    <3> HIDE DEF g
    <3>3. z = Wrap * g + t
      BY <2>6, <3>2 DEF t
    <3>4. Wrap * ((a + b) - (c + g)) = (Wrap * a + (Wrap * b - Wrap * c))
                                         - Wrap * g
      BY <2>2, <2>4, <3>2
    <3>5. Wrap * g \in Int /\ z \in Int /\ t \in Int
      BY <2>2, <2>5, <2>7, <3>2
    <3>6. t = Wrap * ((a + b) - (c + g))
      BY <2>8, <3>3, <3>4, <3>5
    <3>7. (a + b) - (c + g) \in Int
      BY <2>4, <3>2
    <3> QED
      BY <3>6, <3>7 DEF g
  <2> HIDE DEF h, t
  <2>10. 0 \in 0..(Wrap - 1) /\ t = h * Wrap + 0
    BY <2>2, <2>9
  <2>11. t % Wrap = 0
    BY <2>2, <2>7, <2>9, <2>10, RestIs
  <2> QED
    BY <2>7, <2>11 DEF TornInv
<1>2. CASE UNCHANGED torn
  BY <1>2 DEF TornInv
<1>3. CASE ~FailInAddition
  <2>1. UNCHANGED torn
    BY <1>3
    DEF Next, Tick, A2_ISR, Program, ReadHigh1, ReadCnt, ReadHigh2,
        StartSegment, StartTask, EnterCheckpoint, BankAtCheckpoint, BankAtEnd,
        AddSegment, NextSegment, ReadAtExit, LeaveCheckpoint, Measure,
        Measured, Call, Boot, PowerFail, vars, segments
  <2> QED
    BY <1>2, <2>1
<1> QED
  BY <1>1, <1>3

\* What is banked is behind by whole overflows only, no more than one for each
\* life and those that no handler saw, over any number of restarts; what
\* failures inside an addition make of it is a number of whole words, and
\* nothing that is banked later adds to that.
THEOREM BankCorrect == Spec => []BankedToTheTick
<1>1. ASSUME IInv, TornInv PROVE BankedToTheTick
  <2>1. PICK k \in 0..(boots + lost) : Cong(Behind, k * Wrap)
    BY <1>1 DEF IInv, BankInv, Banked
  <2> QED
    BY <1>1, <2>1 DEF BankedToTheTick, TornInv, Cong, Behind
<1>2. IInv /\ TornInv => BankedToTheTick
  BY <1>1
<1>3. Init => TornInv
  BY WrapAssumption DEF Init, TornInv
<1>4. IInv /\ TornInv /\ [Next]_vars => TornInv'
  BY TornStep
<1> QED
  BY <1>2, <1>3, <1>4, InvHolds, PTL DEF Spec

=============================================================================
