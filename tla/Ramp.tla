-------------------------------- MODULE Ramp --------------------------------
(***************************************************************************)
(* tap::algorithms::Ramp: the operators of its methods, on a record of its *)
(* fields.  Its floating-point numbers are integers here, so RAMP_EPSILON  *)
(* is 0 and only equal values are close.                                   *)
(***************************************************************************)
EXTENDS Integers

Distance(a, b) == IF a < b THEN b - a ELSE a - b

(* algorithms::compareFloatClose. *)
compareClose(a, b, epsilon) == Distance(a, b) <= epsilon

RampAt(v) == [target |-> v, value |-> v, targetReached |-> TRUE]

setTarget(ramp, t) ==
    IF compareClose(t, ramp.target, 0) THEN ramp
    ELSE [ramp EXCEPT !.target = t, !.targetReached = FALSE]

setValue(ramp, v) == [ramp EXCEPT !.value = v]

(* update(increment): towards the target, whatever the increment's sign. *)
update(ramp, increment) ==
    LET step == Distance(increment, 0)
        value == IF Distance(ramp.target, ramp.value) <= step THEN ramp.target
                 ELSE IF ramp.target < ramp.value THEN ramp.value - step
                 ELSE ramp.value + step
    IN [ramp EXCEPT !.value = value,
                    !.targetReached = compareClose(value, ramp.target, 0)]
=============================================================================
