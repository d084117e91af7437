---------------------------- MODULE CommonTools ----------------------------
(***************************************************************************)
(* The random numbers of internal/service/common_tools.go, in integers of   *)
(* a fixed width.  A random draw is the set of its possible results.        *)
(***************************************************************************)
EXTENDS Integers

CONSTANTS
  Half,           \* 2^63: an int64 lies between -Half and Half - 1
  RangeLimit,     \* math.MaxInt32, the widest range that is drawn from
  DefaultMin, DefaultMax

ASSUME ToolsAssumption ==
  /\ Half \in Nat /\ RangeLimit \in 0 .. Half - 2
  /\ {DefaultMin, DefaultMax} \subseteq -Half .. Half - 1 /\ DefaultMin < DefaultMax

Int64 == -Half .. Half - 1

\* The value a sum or a difference leaves in an int64.
Wrap(n) == ((n + Half) % (2 * Half)) - Half

Number(n) == [is |-> "number", n |-> n]
TooWide   == [is |-> "refused", n |-> 0]
Panics    == [is |-> "panic", n |-> 0]

\* Bug: the larger bound is never drawn.
SecureRandIntOpen(min, max) ==
  LET bound == Wrap(max - min)
  IN  IF min = max THEN {Number(min)}
      ELSE IF bound <= 0 THEN {Panics}
      ELSE {Number(Wrap(min + k)) : k \in 0 .. bound - 1}

\* rand.Int panics unless its bound is positive.
SecureRandInt(min, max) ==
  LET bound == Wrap(Wrap(max - min) + 1)
  IN  IF min = max THEN {Number(min)}
      ELSE IF bound <= 0 THEN {Panics}
      ELSE {Number(Wrap(min + k)) : k \in 0 .. bound - 1}

\* Two zeros are what absent arguments look like.
RandomNumber(givenMin, givenMax) ==
  LET unset == givenMin = 0 /\ givenMax = 0
      a == IF unset THEN DefaultMin ELSE givenMin
      b == IF unset THEN DefaultMax ELSE givenMax
      min == IF a > b THEN b ELSE a
      max == IF a > b THEN a ELSE b
  IN  IF Wrap(max - min) > RangeLimit THEN {TooWide} ELSE SecureRandInt(min, max)

-----------------------------------------------------------------------------
(* References.                                                              *)

\* The arguments in order, the default ones for two zeros.
Ordered(a, b) ==
  IF a = 0 /\ b = 0 THEN <<DefaultMin, DefaultMax>>
  ELSE IF a > b THEN <<b, a>> ELSE <<a, b>>

=============================================================================
