-------------------------------- MODULE Timer --------------------------------
(***************************************************************************)
(* The clock of src/timer/my_timer.c: the 16-bit counter of timer A2, the  *)
(* overflow handler that extends it in FRAM, the reader of the two, and    *)
(* the accounting of active time that the checkpoints bank.  The counter   *)
(* runs by itself, at any speed relative to the program; it and its        *)
(* overflow flag are lost with the supply.                                 *)
(*                                                                         *)
(* A definition announced as a Variant is the following definition with a  *)
(* mistake; nothing uses it.  It is there to show that a property would    *)
(* notice the mistake.                                                     *)
(***************************************************************************)
EXTENDS Integers

CONSTANTS
  Wrap,       \* 0x10000: values of the 16-bit counter, and of a word
  Modulus,    \* 2^32: values of elapsed_tick
  MaxTime,    \* bound on the ticks of one behaviour
  MaxBoots    \* bound on its resets

ASSUME WrapAssumption == Wrap \in Nat \ {0, 1}
ASSUME ModulusAssumption ==
  Modulus \in Nat /\ Modulus > Wrap /\ Modulus % Wrap = 0
ASSUME BoundsAssumption == MaxTime \in Nat /\ MaxBoots \in Nat \ {0}

VARIABLES
  pc,                       \* where the program is
  \* timer A2
  TA2R,
  TAIFG,
  masked,                   \* interrupts are off
  \* get_current_tick()
  caller,                   \* whom it returns to
  high1,
  cnt,
  tick,                     \* what it returned last
  \* FRAM
  elapsed_tick,
  segment_start_tick,
  cumulative_active_ticks,
  \* history
  time,                     \* ticks since the first reset
  boots,                    \* resets
  lost,                     \* overflows that no handler saw
  cnt_tick,                 \* TrueTick at the last reading of the counter
  cnt_time,                 \* time then
  segment_began,            \* cnt_time of segment_start_tick
  banked_time,              \* what cumulative_active_ticks should be
  torn                      \* what failures inside an addition made of it

hardware == <<TA2R, TAIFG>>
reader == <<caller, high1, cnt, tick>>
account == <<segment_start_tick, cumulative_active_ticks>>
segments == <<segment_began, banked_time, torn>>
vars == <<pc, hardware, masked, reader, elapsed_tick, account, time, boots,
          lost, cnt_tick, cnt_time, segments>>

Callers == {"start", "bank", "entry", "exit", "statistics"}

Init ==
  /\ pc = "off"
  /\ TA2R = 0
  /\ TAIFG = FALSE
  /\ masked = TRUE
  /\ caller = "statistics"
  /\ high1 = 0
  /\ cnt = 0
  /\ tick = 0
  /\ elapsed_tick = 0
  /\ segment_start_tick = 0
  /\ cumulative_active_ticks = 0
  /\ time = 0
  /\ boots = 0
  /\ lost = 0
  /\ cnt_tick = 0
  /\ cnt_time = 0
  /\ segment_began = 0
  /\ banked_time = 0
  /\ torn = 0

-----------------------------------------------------------------------------
\* The time the hardware and elapsed_tick stand for together.
TrueTick == (elapsed_tick + TA2R + (IF TAIFG THEN Wrap ELSE 0)) % Modulus

Interrupted == TAIFG /\ ~masked

\* What is over before the counter comes round: the wait of the handler for
\* a running program, a reading of elapsed_tick twice across an overflow,
\* and the one reading of low_res_timer_start().
Brief ==
  \/ Interrupted
  \/ pc \in {"cnt", "high2"} /\ elapsed_tick # high1
  \/ pc \in {"high1", "cnt", "high2", "read"} /\ caller = "start"

\* One tick of SMCLK.  An overflow that finds the flag still set, in a long
\* critical section, is lost.
Tick ==
  /\ pc # "off"
  /\ time < MaxTime
  /\ Brief => TA2R < Wrap - 1
  /\ TA2R' = (TA2R + 1) % Wrap
  /\ TAIFG' = (TAIFG \/ TA2R' = 0)
  /\ time' = time + 1
  /\ lost' = IF TAIFG /\ TA2R' = 0 THEN lost + 1 ELSE lost
  /\ UNCHANGED <<pc, masked, reader, elapsed_tick, account, boots,
                 cnt_tick, cnt_time, segments>>

\* Variant: it adds 0xFFFF for an overflow, the largest value of the counter.
A2_ISROffByOne ==
  /\ pc # "off"
  /\ Interrupted
  /\ TAIFG' = FALSE
  /\ elapsed_tick' = (elapsed_tick + Wrap - 1) % Modulus
  /\ UNCHANGED <<pc, TA2R, masked, reader, account, time, boots, lost,
                 cnt_tick, cnt_time, segments>>

\* A2_ISR: reading TA2IV clears the flag.
A2_ISR ==
  /\ pc # "off"
  /\ Interrupted
  /\ TAIFG' = FALSE
  /\ elapsed_tick' = (elapsed_tick + Wrap) % Modulus
  /\ UNCHANGED <<pc, TA2R, masked, reader, account, time, boots, lost,
                 cnt_tick, cnt_time, segments>>

\* The program only runs while no handler has to.
Goes(from, to) ==
  /\ ~Interrupted
  /\ pc = from
  /\ pc' = to
  /\ UNCHANGED <<hardware, elapsed_tick, time, boots, lost>>

\* The call of get_current_tick().
Call(who) ==
  /\ caller' = who
  /\ UNCHANGED <<high1, cnt, tick, account, cnt_tick, cnt_time, segments>>

ReadHigh1 ==
  /\ Goes("high1", "cnt")
  /\ high1' = elapsed_tick
  /\ UNCHANGED <<masked, caller, cnt, tick, account, cnt_tick, cnt_time,
                 segments>>

ReadCnt ==
  /\ Goes("cnt", "high2")
  /\ cnt' = TA2R
  /\ cnt_tick' = TrueTick
  /\ cnt_time' = time
  /\ UNCHANGED <<masked, caller, high1, tick, account, segments>>

\* Variant: the upper half is not read again.
ReadHigh2Once ==
  /\ Goes("high2", "read")
  /\ tick' = (cnt + high1) % Modulus
  /\ UNCHANGED <<masked, caller, high1, cnt, account, cnt_tick, cnt_time,
                 segments>>

\* while (high1 != high2)
ReadHigh2 ==
  /\ \/ /\ high1 = elapsed_tick
        /\ Goes("high2", "read")
        /\ tick' = (cnt + high1) % Modulus
     \/ /\ high1 # elapsed_tick
        /\ Goes("high2", "high1")
        /\ tick' = tick
  /\ UNCHANGED <<masked, caller, high1, cnt, account, cnt_tick, cnt_time,
                 segments>>

-----------------------------------------------------------------------------
\* Reset and low_res_timer_start(): the counter is cleared and runs, with
\* interrupts off until the scheduler starts or a checkpoint is resumed.
Boot ==
  /\ pc = "off"
  /\ boots < MaxBoots
  /\ boots' = boots + 1
  /\ pc' = "high1"
  /\ TA2R' = 0
  /\ TAIFG' = FALSE
  /\ masked' = TRUE
  /\ caller' = "start"
  /\ UNCHANGED <<high1, cnt, tick, elapsed_tick, account, time, lost,
                 cnt_tick, cnt_time, segments>>

\* Variant: the segment of the life before goes on.
StartSegmentOnce ==
  /\ caller = "start"
  /\ Goes("read", "boot")
  /\ segment_start_tick' = IF boots = 1 THEN tick ELSE segment_start_tick
  /\ segment_began' = cnt_time
  /\ UNCHANGED <<masked, reader, cumulative_active_ticks, cnt_tick,
                 cnt_time, banked_time, torn>>

StartSegment ==
  /\ caller = "start"
  /\ Goes("read", "boot")
  /\ segment_start_tick' = tick
  /\ segment_began' = cnt_time
  /\ UNCHANGED <<masked, reader, cumulative_active_ticks, cnt_tick,
                 cnt_time, banked_time, torn>>

\* The scheduler turns interrupts on; or restoreReg is back in CHECKPOINT(),
\* which, in PHASE_RESTORE, leaves its critical section at once.
StartTask ==
  /\ Goes("boot", "run")
  /\ masked' = FALSE
  /\ UNCHANGED <<reader, account, cnt_tick, cnt_time, segments>>

\* CHECKPOINT(): portENTER_CRITICAL(), and its own reading of the clock.
EnterCheckpoint ==
  /\ Goes("run", "high1")
  /\ masked' = TRUE
  /\ Call("entry")

\* checkpoint() starts with bank_active_segment().
BankAtCheckpoint ==
  /\ caller = "entry"
  /\ Goes("read", "high1")
  /\ Call("bank")
  /\ UNCHANGED masked

\* graphsearch_test() ends with bank_active_segment().
BankAtEnd ==
  /\ Goes("run", "high1")
  /\ Call("bank")
  /\ UNCHANGED masked

\* cumulative_active_ticks + (uint64_t)(now - segment_start_tick), which never
\* wraps, and the time it stands for.
Sum == cumulative_active_ticks + ((tick - segment_start_tick) % Modulus)
SumTime == banked_time + (cnt_time - segment_began)

\* The four words of 64 bits.
WordsOf(n) == <<n % Wrap, (n \div Wrap) % Wrap,
                (n \div (Wrap * Wrap)) % Wrap, n \div (Wrap * Wrap * Wrap)>>
Number(w) == w[1] + (Wrap * (w[2] + (Wrap * (w[3] + (Wrap * w[4])))))

\* cumulative_active_ticks += ..., completed.
AddSegment ==
  /\ caller = "bank"
  /\ Goes("read", "banked")
  /\ cumulative_active_ticks' = Sum
  /\ banked_time' = SumTime
  /\ UNCHANGED <<masked, reader, segment_start_tick, cnt_tick, cnt_time,
                 segment_began, torn>>

\* A failure inside the addition.  The CPU stores 64 bits word by word, in the
\* order that the compiler chose: any of the words may be new and the others
\* old.  The segment counts as banked if the lowest word is new.
FailInAddition ==
  /\ pc = "read" /\ caller = "bank"
  /\ pc' = "off"
  /\ \E stored \in SUBSET (1..4) :
       /\ cumulative_active_ticks' =
            Number([i \in 1..4 |-> IF i \in stored
                                   THEN WordsOf(Sum)[i]
                                   ELSE WordsOf(cumulative_active_ticks)[i]])
       /\ IF 1 \in stored
          THEN /\ banked_time' = SumTime
               /\ torn' = (torn + (Sum - cumulative_active_ticks')) % Modulus
          ELSE /\ banked_time' = banked_time
               /\ torn' = (torn + (cumulative_active_ticks
                                    - cumulative_active_ticks')) % Modulus
  /\ UNCHANGED <<hardware, masked, reader, elapsed_tick, segment_start_tick,
                 time, boots, lost, cnt_tick, cnt_time, segment_began>>

\* segment_start_tick = now
NextSegment ==
  /\ Goes("banked", IF masked THEN "saved" ELSE "run")
  /\ segment_start_tick' = tick
  /\ segment_began' = cnt_time
  /\ UNCHANGED <<masked, reader, cumulative_active_ticks, cnt_tick,
                 cnt_time, banked_time, torn>>

\* The rest of CHECKPOINT(): stat_timer_2_end, then portEXIT_CRITICAL().
ReadAtExit ==
  /\ Goes("saved", "high1")
  /\ Call("exit")
  /\ UNCHANGED masked

LeaveCheckpoint ==
  /\ caller = "exit"
  /\ Goes("read", "run")
  /\ masked' = FALSE
  /\ UNCHANGED <<reader, account, cnt_tick, cnt_time, segments>>

\* A reading for the statistics: of query(), with interrupts on, or of
\* restore(), before they are.
Measure ==
  /\ Goes(IF masked THEN "boot" ELSE "run", "high1")
  /\ Call("statistics")
  /\ UNCHANGED masked

Measured ==
  /\ caller = "statistics"
  /\ Goes("read", IF masked THEN "boot" ELSE "run")
  /\ UNCHANGED <<masked, reader, account, cnt_tick, cnt_time, segments>>

PowerFail ==
  /\ pc # "off"
  /\ pc' = "off"
  /\ UNCHANGED <<hardware, masked, reader, elapsed_tick, account, time, boots,
                 lost, cnt_tick, cnt_time, segments>>

Program ==
  \/ ReadHigh1 \/ ReadCnt \/ ReadHigh2
  \/ StartSegment \/ StartTask
  \/ EnterCheckpoint \/ BankAtCheckpoint \/ BankAtEnd
  \/ AddSegment \/ NextSegment
  \/ ReadAtExit \/ LeaveCheckpoint
  \/ Measure \/ Measured

Next == Tick \/ A2_ISR \/ Program \/ Boot \/ PowerFail \/ FailInAddition

Spec == Init /\ [][Next]_vars

-----------------------------------------------------------------------------
\* The type of every variable.
TypeOK ==
  /\ pc \in {"off", "high1", "cnt", "high2", "read", "boot", "run", "banked",
             "saved"}
  /\ TA2R \in 0..(Wrap - 1)
  /\ TAIFG \in BOOLEAN
  /\ masked \in BOOLEAN
  /\ caller \in Callers
  /\ high1 \in 0..(Modulus - 1)
  /\ cnt \in 0..(Wrap - 1)
  /\ tick \in 0..(Modulus - 1)
  /\ elapsed_tick \in {Wrap * n : n \in 0..((Modulus \div Wrap) - 1)}
  /\ segment_start_tick \in 0..(Modulus - 1)
  /\ cumulative_active_ticks \in Nat
  /\ time \in 0..MaxTime
  /\ boots \in 0..MaxBoots
  /\ lost \in Nat
  /\ cnt_tick \in 0..(Modulus - 1)
  /\ cnt_time \in 0..time
  /\ segment_began \in 0..time
  /\ banked_time \in 0..time
  /\ torn \in 0..(Modulus - 1)

\* get_current_tick() returns the time at which it read the counter, whenever
\* the counter overflows between its three readings.  Only in a critical
\* section may it be an overflow behind, the one whose handler waits.
ReadsTheTime ==
  pc = "read" => \/ tick = cnt_tick
                 \/ masked /\ (tick + Wrap) % Modulus = cnt_tick

\* The active time is banked to the tick, over restarts that clear the
\* counter, failures between the two stores of a bank and overflows of
\* elapsed_tick: modulo 2^32, it is behind by whole overflows only, no more
\* than one for each life of the program and those that no handler saw.  That
\* is when no failure cut an addition short; what one that did has cost is
\* made good by no later bank, nor made worse, and is a multiple of 0x10000,
\* of either sign: the lowest word stays right for ever.
BankedToTheTick ==
  /\ torn % Wrap = 0
  /\ (banked_time - torn - cumulative_active_ticks) % Modulus
       \in {(k * Wrap) % Modulus : k \in 0..(boots + lost)}

\* my_timer.c:64-67: the first segment is started so that a bank measures
\* only time that has really elapsed.
BanksOnlyElapsedTime == cumulative_active_ticks <= time
=============================================================================
