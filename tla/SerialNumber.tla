---------------------------- MODULE SerialNumber ----------------------------
(***************************************************************************)
(* serial.py: the modular sequence numbers that both transport tracers use *)
(* to order packets.  A number has `bits' bits; Half stands for            *)
(* 2^(bits-1), so that small instances keep the wrap-around and the point  *)
(* half way round the ring, where `less' changes sides.                    *)
(***************************************************************************)
EXTENDS Integers

CONSTANT Half    \* 2 ^ (bits - 1): 32768 for uTP, 2^31 for TCP

ASSUME HalfAssumption == Half \in Nat /\ Half > 1

Modulo == 2 * Half

Serial == 0 .. Modulo - 1

\* __add__: defined for increments up to Half - 1; the tracers only add 1.
SerialAdd(value, n) == (value + n) % Modulo

\* Slip: the numbers are compared as plain integers.
SerialLessLinear(left, right) == left < right

\* __lt__ on the values of two serial numbers of the same width.
SerialLess(left, right) ==
  \/ left < right /\ right - left < Half
  \/ left > right /\ left - right > Half

\* __gt__ is the negation of __lt__: numbers exactly Half apart are greater
\* than one another.
SerialGreater(left, right) == ~SerialLess(left, right)
=============================================================================
