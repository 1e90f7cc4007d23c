-------------------------------- MODULE Rational --------------------------------
(***************************************************************************)
(* The exact time arithmetic of comparisons/common/frame-state.mjs: a time *)
(* is a pair of ticks and a positive timescale in lowest terms.  The code  *)
(* computes in BigInt and throws when a reduced part is beyond the safe    *)
(* integers; the values of the instances are small, and that error is left *)
(* out.                                                                    *)
(***************************************************************************)
EXTENDS Integers

Positive == Nat \ {0}

\* What asRational and asRate accept.
Time == [ticks : Int, timescale : Positive]
Rate == [num : Positive, den : Positive]

Magnitude(n) == IF n < 0 THEN -n ELSE n

gcd[p \in Nat \X Nat] == IF p[2] = 0 THEN p[1] ELSE gcd[<<p[2], p[1] % p[2]>>]

\* reduced(ticks, timescale): the sign goes to the ticks; a zero stays over 1.
reduced(ticks, timescale) ==
    LET sign    == IF timescale < 0 THEN -1 ELSE 1
        common  == gcd[<<Magnitude(ticks), Magnitude(timescale)>>]
        divisor == IF common = 0 THEN 1 ELSE common
    IN  [ticks |-> (ticks * sign) \div divisor,
         timescale |-> (timescale * sign) \div divisor]

asRational(value) == reduced(value.ticks, value.timescale)

asRate(rate) ==
    LET value == reduced(rate.num, rate.den)
    IN  [num |-> value.ticks, den |-> value.timescale]

\* Negative, zero or positive as left is before, at or after right.
compare(left, right) == left.ticks * right.timescale - right.ticks * left.timescale

add(left, right) ==
    reduced(left.ticks * right.timescale + right.ticks * left.timescale,
            left.timescale * right.timescale)

subtract(left, right) ==
    reduced(left.ticks * right.timescale - right.ticks * left.timescale,
            left.timescale * right.timescale)

multiply(value, factor) ==
    LET ratio == asRate(factor)
    IN  reduced(value.ticks * ratio.num, value.timescale * ratio.den)

\* ratioNumber, as an exact quotient of two times instead of a Number.
ratioNumber(numerator, denominator) ==
    reduced(numerator.ticks * denominator.timescale,
            numerator.timescale * denominator.ticks)

minRational(left, right) == IF compare(left, right) <= 0 THEN left ELSE right
maxRational(left, right) == IF compare(left, right) >= 0 THEN left ELSE right

Zero == [ticks |-> 0, timescale |-> 1]
One  == [ticks |-> 1, timescale |-> 1]
Half == [num |-> 1, den |-> 2]

clamp(value) == minRational(One, maxRational(Zero, value))

---------------------------------------------------------------------------------
(* Ranges are half open: a start and a duration.                            *)

TimeRange == [start : Time, duration : Time]

rangeEnd(range) == add(range.start, range.duration)

active(time, range) ==
    compare(time, range.start) >= 0 /\ compare(time, rangeEnd(range)) < 0

outputTime(frame, rate) == reduced(frame * rate.den, rate.num)

ceilFrame(time, rate) ==
    LET numerator   == time.ticks * rate.num
        denominator == time.timescale * rate.den
    IN  IF numerator >= 0 THEN (numerator + denominator - 1) \div denominator
        ELSE -((-numerator) \div denominator)

frameCountForDuration(duration, rate) ==
    (duration.ticks * rate.num + duration.timescale * rate.den - 1)
        \div (duration.timescale * rate.den)
=================================================================================
