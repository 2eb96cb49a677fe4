------------------------------- MODULE ScanTime -------------------------------
(***************************************************************************)
(* The scan time of an image on its way through the programs, all of it in *)
(* 64-bit signed arithmetic. A client machine sends DateTime.ToBinary():   *)
(* ticks of 100 ns, with a flag for UTC in bit 62. The server takes the    *)
(* number for milliseconds and turns it into a time_point, which counts    *)
(* 100 ns: the product wraps, and the flag falls out of it. The wrapped    *)
(* value is the key of the priority queue. It goes to the operator as      *)
(* milliseconds, and DateTime.FromBinary() takes those for ticks.          *)
(*                                                                         *)
(* With the constants of the code an era, the time between two wraps, is   *)
(* 5.85 years long; the keys of its first half are negative.               *)
(***************************************************************************)
EXTENDS Integers

CONSTANTS
    Quarter,       \* 2^62
    TicksPerMs,    \* 10,000
    TicksPerDay,   \* 864,000,000,000
    MaxTicks       \* of DateTime.MaxValue

ASSUME ScanTimeAssumption ==
    /\ Quarter \in Nat \ {0} /\ TicksPerMs \in Nat \ {0} /\ TicksPerDay \in Nat \ {0}
    /\ \E f \in 1..TicksPerMs : TicksPerMs = 4 * f
    /\ MaxTicks \in Nat /\ 2 * Quarter <= TicksPerMs * MaxTicks
    /\ MaxTicks + TicksPerDay < Quarter
    /\ 2 * Quarter < TicksPerMs * (Quarter - MaxTicks)

Modulus == 4 * Quarter

\* Mutant: an unsigned number.
WrapUnsigned(x) == x % Modulus

\* What is left of x in a signed integer.
Wrap(x) == IF x % Modulus < 2 * Quarter THEN x % Modulus ELSE (x % Modulus) - Modulus

\* scannedTime.ToBinary() of t ticks, UTC
ToBinary(t) == Wrap(t + Quarter)

\* time_point(milliseconds(n)), and back: the division drops the fraction.
TimePoint(n)      == Wrap(n * TicksPerMs)
Milliseconds(key) == IF key >= 0 THEN key \div TicksPerMs ELSE -((-key) \div TicksPerMs)

\* The key of the image in imageQueue_, and what its operator is sent.
Key(t)       == TimePoint(ToBinary(t))
Forwarded(t) == Milliseconds(Key(t))

\* Mutant: no negative number is a date.
FromBinaryPositive(b) == b >= 0 /\ b % Quarter <= MaxTicks

\* DateTime.FromBinary(b) does not throw: the lower 62 bits are ticks of a
\* date, or, in a negative number, of one up to a day before the first.
FromBinary(b) ==
    b % Quarter <= MaxTicks \/ (b < 0 /\ b % Quarter > Quarter - TicksPerDay)

\* The scan times between two wraps of the key.
Era(t) == (t * TicksPerMs + 2 * Quarter) \div Modulus
===============================================================================
