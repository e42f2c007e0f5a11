---------------------------- MODULE WrappedFloat ----------------------------
(***************************************************************************)
(* src/tap/algorithms/wrapped_float.{hpp,cpp}: a number on a circle, with  *)
(* the number of times it went round.  The values are integers here; the   *)
(* code's are floats, whose rounding is left out.                          *)
(*                                                                         *)
(* Two numbers that meet in an operation have the same bounds: the code    *)
(* asserts it.                                                             *)
(***************************************************************************)
EXTENDS Integers

Minimum(x, y) == IF x < y THEN x ELSE y
Maximum(x, y) == IF x > y THEN x ELSE y
Abs(x) == IF x < 0 THEN -x ELSE x

Interval(f) == f.upper - f.lower

(* Mutant: rounds towards zero. *)
wrapValueTruncated(f) ==
    LET turns == IF f.wrapped >= f.lower THEN (f.wrapped - f.lower) \div Interval(f)
                 ELSE -((f.lower - f.wrapped) \div Interval(f))
    IN  [f EXCEPT !.revolutions = @ + turns, !.wrapped = @ - Interval(f) * turns]

wrapValue(f) ==
    LET turns == (f.wrapped - f.lower) \div Interval(f)
    IN  [f EXCEPT !.revolutions = @ + turns, !.wrapped = @ - Interval(f) * turns]

Wrapped(value, lower, upper) ==
    wrapValue([wrapped |-> value, revolutions |-> 0, lower |-> lower, upper |-> upper])

withSameBounds(f, value) == Wrapped(value, f.lower, f.upper)

getUnwrappedValue(f) == f.wrapped + Interval(f) * f.revolutions

setWrappedValue(f, value) == wrapValue([f EXCEPT !.wrapped = value])

setUnwrappedValue(f, value) == wrapValue([f EXCEPT !.wrapped = value, !.revolutions = 0])

Plus(f, g) ==
    LET sum == wrapValue([f EXCEPT !.wrapped = @ + g.wrapped])
    IN  [sum EXCEPT !.revolutions = @ + g.revolutions]

(* Mutant: forgets how often the other number went round. *)
MinusWrapped(f, g) == wrapValue([f EXCEPT !.wrapped = @ - g.wrapped])

Minus(f, g) ==
    LET difference == wrapValue([f EXCEPT !.wrapped = @ - g.wrapped])
    IN  [difference EXCEPT !.revolutions = @ - g.revolutions]

PlusFloat(f, value) == Plus(f, withSameBounds(f, value))
MinusFloat(f, value) == Minus(f, withSameBounds(f, value))

(* Mutant: always goes up. *)
minDifferenceUp(f, g) == (g.wrapped - f.wrapped) % Interval(f)

minDifference(f, g) ==
    LET between == g.wrapped - f.wrapped
        around  == IF between < 0 THEN between + Interval(f) ELSE between - Interval(f)
    IN  IF Abs(between) < Abs(around) THEN between ELSE around

(* alpha = part / whole *)
minInterpolate(f, g, part, whole) == PlusFloat(f, (minDifference(f, g) * part) \div whole)

shiftBounds(f, shift) == wrapValue([f EXCEPT !.lower = @ + shift, !.upper = @ + shift])

(* Mutant: takes a range that goes round for an empty one. *)
withinRangeNoWrap(f, min, max) == f.wrapped > min.wrapped /\ f.wrapped < max.wrapped

withinRange(f, min, max) ==
    \/ /\ min.wrapped < max.wrapped
       /\ f.wrapped > min.wrapped /\ f.wrapped < max.wrapped
    \/ /\ min.wrapped > max.wrapped
       /\ f.wrapped > min.wrapped \/ f.wrapped < max.wrapped

limitValue(f, min, max) ==
    IF min.wrapped = max.wrapped \/ withinRange(f, min, max) THEN f.wrapped
    ELSE IF Abs(minDifference(f, min)) < Abs(minDifference(f, max)) THEN min.wrapped
    ELSE max.wrapped

(* Mutant: counts only one of the two overlaps of a range that goes round. *)
rangeOverlapOnce(lowerA, upperA, lowerB, upperB) ==
    LET origin == lowerA.lower
        offset == lowerA.wrapped - origin
        endA   == MinusFloat(upperA, offset).wrapped
        startB == MinusFloat(lowerB, offset).wrapped
        endB   == MinusFloat(upperB, offset).wrapped
    IN  IF endB < startB THEN Minimum(endB, endA)
        ELSE Maximum(0, Minimum(endA, endB) - Maximum(origin, startB))

rangeOverlap(lowerA, upperA, lowerB, upperB) ==
    LET origin == lowerA.lower
        offset == lowerA.wrapped - origin
        endA   == MinusFloat(upperA, offset).wrapped
        startB == MinusFloat(lowerB, offset).wrapped
        endB   == MinusFloat(upperB, offset).wrapped
    IN  IF endB < startB
        THEN Minimum(endB, endA) + Maximum(origin, endA - startB)
        ELSE Maximum(0, Minimum(endA, endB) - Maximum(origin, startB))
=============================================================================
