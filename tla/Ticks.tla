------------------------------- MODULE Ticks -------------------------------
(***************************************************************************)
(* The arithmetic of the kernel's tick counter (kernel/fskrnl.c).  The     *)
(* counter `timertick', the deadline `wake_tick' and every difference of   *)
(* the two are unsigned numbers of one width, so they are numbers modulo   *)
(* TickMod here: 2^32 in the code, a small power of two in the runs.       *)
(***************************************************************************)
EXTENDS Integers

CONSTANTS TickMod,          \* one more than the largest tick, 2^32 in the code
          timer_frequency   \* ticks per second, 1000 in the code

ASSUME TicksAssumption ==
    /\ TickMod \in Nat \ {0} /\ TickMod % 2 = 0
    /\ timer_frequency \in Nat \ {0}

TickValues == 0 .. TickMod - 1

LastTick == TickMod - 1     \* 0xFFFFFFFF in the code

TickAdd(now, delta) == (now + delta) % TickMod

reached_unsigned(now, deadline) == now >= deadline

\* `(long int)(now - deadline) >= 0': the difference, read as signed, is not
\* negative when it lies in the lower half of the unsigned range.
tick_reached(now, deadline) == (now - deadline) % TickMod < TickMod \div 2

\* The ticks task_sleep (unit = 1) and task_msleep (unit = 1000) add to the
\* counter: a product that might not fit saturates to the largest tick.
SleepTicks(n, unit) ==
    IF n > LastTick \div timer_frequency
      THEN LastTick
      ELSE (timer_frequency * n) \div unit
=============================================================================
