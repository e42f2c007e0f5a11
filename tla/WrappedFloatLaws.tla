-------------------------- MODULE WrappedFloatLaws --------------------------
(***************************************************************************)
(* A number on a circle that a program adds to, subtracts from, sets and   *)
(* shifts for as long as it likes, next to the number it stands for; and   *)
(* what the functions on several such numbers return, against definitions  *)
(* that count the points of the circle.                                    *)
(***************************************************************************)
EXTENDS WrappedFloat, FiniteSets

CONSTANTS
    Lowers,   \* lower bounds
    Interval0,\* the circumference
    Amounts,  \* what is added, subtracted, set
    Reach     \* bounds the number

VARIABLES
    float,  \* the WrappedFloat
    exact   \* the number it stands for

floatVars == <<float, exact>>

Init ==
    /\ \E lower \in Lowers : float = Wrapped(0, lower, lower + Interval0)
    /\ exact = 0

InReach(x) == x \in -Reach .. Reach

Add ==
    \E amount \in Amounts :
        /\ float' = PlusFloat(float, amount)
        /\ exact' = exact + amount

Subtract ==
    \E amount \in Amounts :
        /\ float' = MinusFloat(float, amount)
        /\ exact' = exact - amount

Set ==
    \E amount \in Amounts :
        \/ /\ float' = setUnwrappedValue(float, amount)
           /\ exact' = amount
        \/ /\ float' = setWrappedValue(float, amount)
           /\ exact' = amount + Interval0 * float.revolutions

Shift ==
    \E amount \in Amounts :
        /\ float.lower + amount \in Lowers
        /\ float' = shiftBounds(float, amount)
        /\ UNCHANGED exact

Interpolate ==
    \E target \in Amounts, part \in 0 .. 2 :
        LET elsewhere == withSameBounds(float, target)
        IN  /\ float' = minInterpolate(float, elsewhere, part, 2)
            /\ exact' = exact + (minDifference(float, elsewhere) * part) \div 2

Next == (Add \/ Subtract \/ Set \/ Shift \/ Interpolate) /\ InReach(exact')

Circle == float.lower .. float.upper - 1
At(point) == withSameBounds(float, point)

(* How far up the circle it is from one point to another, and the shorter way. *)
Up(from, to) == (to - from) % Interval0
Nearness(from, to) == IF Up(from, to) < Up(to, from) THEN Up(from, to) ELSE Up(to, from)

Arc(from, to) == {point \in Circle : Up(from, point) <= Up(from, to)}
Cells(from, to) == {point \in Circle : Up(from, point) < Up(from, to)}

(* However it got there, the number stays on the circle and stands for the
   exact sum of what was added and subtracted, turns included
   (wrapped_float.cpp:43-91, 124-130). *)
UnwrapsExactly ==
    /\ float.wrapped \in Circle
    /\ getUnwrappedValue(float) = exact

(* The difference of two numbers is the short way round
   (wrapped_float.cpp:93-103), and leads from the one to the other. *)
GoesTheShortWay ==
    \A point \in Circle :
        LET way == minDifference(float, At(point))
        IN  /\ PlusFloat(float, way).wrapped = point
            /\ way \in {Nearness(float.wrapped, point), -Nearness(float.wrapped, point)}

(* Limiting leaves a number inside the range, moves another one to the nearer
   end (wrapped_float.cpp:143-188), and a range may go round. *)
LimitsToNearest ==
    \A min, max \in Circle :
        LET limited == limitValue(float, At(min), At(max))
        IN  IF min = max \/ float.wrapped \in Arc(min, max) THEN limited = float.wrapped
            ELSE /\ limited \in {min, max}
                 /\ \A bound \in {min, max} :
                        Nearness(float.wrapped, limited) <= Nearness(float.wrapped, bound)

(* The overlap of two ranges is the length they share, also when one of them
   goes round (wrapped_float.cpp:190-215).  The code is right for numbers whose
   lower bound is 0, as angles have it. *)
OverlapIsShared ==
    float.lower = 0 =>
        \A endA, startB, endB \in Circle :
            rangeOverlap(float, At(endA), At(startB), At(endB))
                = Cardinality(Cells(float.wrapped, endA) \intersect Cells(startB, endB))

CircleLaws == UnwrapsExactly /\ GoesTheShortWay /\ LimitsToNearest
=============================================================================
