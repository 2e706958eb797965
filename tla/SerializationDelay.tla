------------------------- MODULE SerializationDelay -------------------------
(***************************************************************************)
(* How long a link serializes a chunk: serialization_delay() and           *)
(* multiply_fraction() of src/transport/timing.cpp.  The product of a byte *)
(* count and the nanoseconds of a byte at one bit per second does not fit  *)
(* a word, so it is divided while it is formed, bit by bit.  Words have    *)
(* Width bits here and wrap around as unsigned integers do.                *)
(***************************************************************************)
EXTENDS Integers

CONSTANTS
  Width,        \* bits of a word; 64 in the code
  Multipliers,  \* values of bit_nanoseconds_per_byte to try
  None

(* The powers of two a word can hold, and the number of its values. *)
Power[n \in 0..Width] == IF n = 0 THEN 1 ELSE 2 * Power[n - 1]

maximum == Power[Width] - 1
Words == 0..maximum

ASSUME WidthAssumption ==
  /\ Width \in Nat \ {0}
  /\ Multipliers \subseteq Words \ {0}
  /\ None \notin Int

Word(n) == n % Power[Width]

VARIABLES
  bytes, bandwidth,     \* the arguments
  multiplier,           \* bit_nanoseconds_per_byte
  quotient, remainder,  \* of the loop
  bit,                  \* the next bit, or None before the loop
  running,              \* it has not returned
  result                \* the delay, or None

vars == <<bytes, bandwidth, multiplier, quotient, remainder, bit, running, result>>

Init ==
  /\ bytes \in Words /\ bandwidth \in Words /\ multiplier \in Multipliers
  /\ quotient = 0 /\ remainder = 0
  /\ bit = None
  /\ running = TRUE
  /\ result = None

Bit(n, i) == (n \div Power[i]) % 2

WholeSeconds == bytes \div bandwidth
FractionalBytes == bytes % bandwidth

(* The checks before the loop. *)
Begin ==
  /\ running /\ bit = None
  /\ IF bytes = 0 \/ bandwidth = 0
     THEN running' = FALSE /\ UNCHANGED bit
     ELSE IF WholeSeconds > maximum \div multiplier
          THEN running' = FALSE /\ UNCHANGED bit
          ELSE bit' = Width - 1 /\ UNCHANGED running
  /\ UNCHANGED <<bytes, bandwidth, multiplier, quotient, remainder, result>>

(* (quotient, remainder) doubled, or with the numerator added. *)
Plus(q, r, n) ==
  IF r >= Word(bandwidth - n)
  THEN <<Word(q + 1), Word(r - Word(bandwidth - n))>>
  ELSE <<q, Word(r + n)>>

(* One round of the loop. *)
MultiplyBit ==
  LET doubled == Plus(Word(quotient * 2), remainder, remainder)
      next == IF Bit(multiplier, bit) = 0 THEN doubled
              ELSE Plus(doubled[1], doubled[2], FractionalBytes)
  IN /\ running /\ bit # None /\ bit >= 0
     /\ quotient' = next[1] /\ remainder' = next[2]
     /\ bit' = bit - 1
     /\ UNCHANGED <<bytes, bandwidth, multiplier, running, result>>

(* Mutated form: rounding up is not checked. *)
ReturnUnchecked ==
  LET whole == Word(WholeSeconds * multiplier)
      sum == Word(whole + quotient)
  IN /\ running /\ bit = -1
     /\ running' = FALSE
     /\ result' = IF quotient > Word(maximum - whole) THEN None
                  ELSE IF remainder = 0 THEN sum ELSE Word(sum + 1)
     /\ UNCHANGED <<bytes, bandwidth, multiplier, quotient, remainder, bit>>

(* The sum of both parts, rounded up. *)
Return ==
  LET whole == Word(WholeSeconds * multiplier)
      sum == Word(whole + quotient)
  IN /\ running /\ bit = -1
     /\ running' = FALSE
     /\ result' = IF quotient > Word(maximum - whole) THEN None
                  ELSE IF remainder = 0 THEN sum
                  ELSE IF sum = maximum THEN None ELSE Word(sum + 1)
     /\ UNCHANGED <<bytes, bandwidth, multiplier, quotient, remainder, bit>>

Next == Begin \/ MultiplyBit \/ Return

Spec == Init /\ [][Next]_vars

----------------------------------------------------------------------------
(* The delay is the exact quotient rounded up, whatever the operands, and    *)
(* it is refused exactly when it has no value or does not fit a word.        *)
DelayExact ==
  ~running =>
    IF bytes = 0 \/ bandwidth = 0 THEN result = None
    ELSE LET exact == (bytes * multiplier + bandwidth - 1) \div bandwidth
         IN result = IF exact > maximum THEN None ELSE exact

=============================================================================
