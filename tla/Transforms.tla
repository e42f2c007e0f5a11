----------------------------- MODULE Transforms -----------------------------
(***************************************************************************)
(* Transforms between frames, which a program constructs, updates piece by *)
(* piece, inverts, composes and projects forward in time, one at a time.   *)
(* Lengths are integers and angles quarter turns, so that the matrices are *)
(* exact; an angular velocity counts in quarter turns only where           *)
(* projectForward() turns it into a rotation.                              *)
(***************************************************************************)
EXTENDS Integers, Sequences

CONSTANTS
    Vectors,            \* translations, velocities, accelerations
    Turns,              \* rotations about the three axes, in quarter turns
    AngularVelocities,  \* angular velocities about the three axes
    MaxUpdates          \* bounds the operations on the transform

VARIABLES
    transform,  \* the transform
    updates     \* how many operations it went through

transformVars == <<transform, updates>>

Zero == <<0, 0, 0>>
ZeroMatrix == <<Zero, Zero, Zero>>
Identity == <<<<1, 0, 0>>, <<0, 1, 0>>, <<0, 0, 1>>>>

-----------------------------------------------------------------------------
(* Matrices and vectors. *)
Plus(v, w) == <<v[1] + w[1], v[2] + w[2], v[3] + w[3]>>
Scaled(k, v) == <<k * v[1], k * v[2], k * v[3]>>
Negative(v) == Scaled(-1, v)
Minus(v, w) == Plus(v, Negative(w))
MatrixPlus(a, b) == <<Plus(a[1], b[1]), Plus(a[2], b[2]), Plus(a[3], b[3])>>
MatrixScaled(k, a) == <<Scaled(k, a[1]), Scaled(k, a[2]), Scaled(k, a[3])>>
MatrixNegative(a) == MatrixScaled(-1, a)
MatrixMinus(a, b) == MatrixPlus(a, MatrixNegative(b))
dot(v, w) == v[1] * w[1] + v[2] * w[2] + v[3] * w[3]
On(a, v) == <<dot(a[1], v), dot(a[2], v), dot(a[3], v)>>
transpose(a) ==
    <<<<a[1][1], a[2][1], a[3][1]>>, <<a[1][2], a[2][2], a[3][2]>>, <<a[1][3], a[2][3], a[3][3]>>>>
Times(a, b) ==
    LET columns == transpose(b)
    IN  <<On(columns, a[1]), On(columns, a[2]), On(columns, a[3])>>

sin(quarters) == <<0, 1, 0, -1>>[(quarters % 4) + 1]
cos(quarters) == <<1, 0, -1, 0>>[(quarters % 4) + 1]

(* The quarters atan2 and asin return. *)
atan2(y, x) ==
    IF y > 0 THEN 1 ELSE IF y < 0 THEN -1 ELSE IF x < 0 THEN 2 ELSE 0
asin(y) == y

fromEulerAngles(roll, pitch, yaw) ==
    << <<cos(yaw) * cos(pitch),
         cos(yaw) * sin(pitch) * sin(roll) - sin(yaw) * cos(roll),
         cos(yaw) * sin(pitch) * cos(roll) + sin(yaw) * sin(roll)>>,
       <<sin(yaw) * cos(pitch),
         sin(yaw) * sin(pitch) * sin(roll) + cos(yaw) * cos(roll),
         sin(yaw) * sin(pitch) * cos(roll) - cos(yaw) * sin(roll)>>,
       <<-sin(pitch), cos(pitch) * sin(roll), cos(pitch) * cos(roll)>> >>

getRoll(rotation) == atan2(rotation[3][2], rotation[3][3])
getPitch(rotation) == asin(-rotation[3][1])
getYaw(rotation) == atan2(rotation[2][1], rotation[1][1])

skewMatFromAngVel(w) == <<<<0, -w[3], w[2]>>, <<w[3], 0, -w[1]>>, <<-w[2], w[1], 0>>>>
getAngularVel(angVel) == <<-angVel[2][3], angVel[1][3], -angVel[1][2]>>

-----------------------------------------------------------------------------
(* A position, its velocity and its acceleration; an orientation and its
   angular velocity; a transform with the flag that it has derivatives. *)
DynamicPosition(p, v, a) == [position |-> p, velocity |-> v, acceleration |-> a]

DynamicOrientation(r, w) == [orientation |-> r, angularVelocity |-> w]

Record(dynamic, p, r, v, a, w) ==
    [dynamic |-> dynamic, translation |-> p, rotation |-> r, tRotation |-> transpose(r),
     transVel |-> v, transAcc |-> a, angVel |-> w]

checkDynamic(t) ==
    [t EXCEPT !.dynamic =
        t.transVel # Zero \/ t.transAcc # Zero \/ getAngularVel(t.angVel) # Zero]

StaticTransform(p, r) == Record(FALSE, p, r, Zero, Zero, ZeroMatrix)

DynamicTransform(p, r, v, a, w) == checkDynamic(Record(FALSE, p, r, v, a, w))

identity == StaticTransform(Zero, fromEulerAngles(0, 0, 0))

getDynamicTranslation(t) == DynamicPosition(t.translation, t.transVel, t.transAcc)

getDynamicOrientation(t) == DynamicOrientation(t.rotation, t.angVel)

-----------------------------------------------------------------------------
composeOrientation(o, second) ==
    DynamicOrientation(
        Times(o.orientation, second.orientation),
        MatrixPlus(o.angularVelocity,
                   Times(Times(o.orientation, second.angularVelocity), transpose(o.orientation))))

inverseOrientation(o) ==
    DynamicOrientation(
        transpose(o.orientation),
        MatrixNegative(Times(Times(transpose(o.orientation), o.angularVelocity), o.orientation)))

applyPosition(t, p) == On(t.tRotation, Minus(p, t.translation))

applyDynamicPosition(t, p) ==
    LET away == Minus(p.position, t.translation)
    IN  DynamicPosition(
            On(t.tRotation, away),
            On(t.tRotation,
               Plus(Minus(p.velocity, t.transVel), On(t.angVel, Negative(away)))),
            On(t.tRotation,
               Plus(Minus(p.acceleration, t.transAcc),
                    On(t.angVel, Plus(Scaled(2, Minus(t.transVel, p.velocity)),
                                      On(t.angVel, away))))))

applyOrientation(t, o) == Times(t.tRotation, o)

applyDynamicOrientation(t, o) ==
    DynamicOrientation(
        Times(t.tRotation, o.orientation),
        Times(Times(t.tRotation, MatrixMinus(o.angularVelocity, t.angVel)), t.rotation))

(* Mutant: the acceleration of the inverse forgets that the velocity turns. *)
getInverseOnce(t) ==
    DynamicTransform(
        Negative(On(t.tRotation, t.translation)), t.tRotation,
        On(t.tRotation, Minus(On(t.angVel, t.translation), t.transVel)),
        On(t.tRotation,
           Minus(On(t.angVel, Minus(t.transVel, On(t.angVel, t.translation))), t.transAcc)),
        MatrixNegative(Times(Times(t.tRotation, t.angVel), t.rotation)))

getInverse(t) ==
    LET invTranslation == Negative(On(t.tRotation, t.translation))
    IN  IF t.dynamic
        THEN DynamicTransform(
                 invTranslation, t.tRotation,
                 On(t.tRotation, Minus(On(t.angVel, t.translation), t.transVel)),
                 On(t.tRotation,
                    Minus(On(t.angVel, Minus(Scaled(2, t.transVel),
                                             On(t.angVel, t.translation))),
                          t.transAcc)),
                 MatrixNegative(Times(Times(t.tRotation, t.angVel), t.rotation)))
        ELSE StaticTransform(invTranslation, t.tRotation)

composeStatic(t, second) ==
    StaticTransform(Plus(t.translation, On(t.rotation, second.translation)),
                    Times(t.rotation, second.rotation))

(* What a transform without derivatives contributes to a composition is
   nothing, whatever it has stored. *)
Derivatives(t) ==
    IF t.dynamic THEN [v |-> t.transVel, a |-> t.transAcc, w |-> t.angVel]
    ELSE [v |-> Zero, a |-> Zero, w |-> ZeroMatrix]

(* Mutant: no Coriolis acceleration. *)
AccelerationWithoutCoriolis(t, second) ==
    Plus(Plus(Derivatives(t).a,
              On(Times(Times(Derivatives(t).w, Derivatives(t).w), t.rotation),
                 second.translation)),
         On(t.rotation, Derivatives(second).a))

ComposedAcceleration(t, second) ==
    Plus(Plus(Derivatives(t).a,
              On(Times(Times(Derivatives(t).w, Derivatives(t).w), t.rotation),
                 second.translation)),
         Plus(Scaled(2, On(Times(Derivatives(t).w, t.rotation), Derivatives(second).v)),
              On(t.rotation, Derivatives(second).a)))

compose(t, second) ==
    IF t.dynamic \/ second.dynamic
    THEN DynamicTransform(
             Plus(t.translation, On(t.rotation, second.translation)),
             Times(t.rotation, second.rotation),
             Plus(Plus(Derivatives(t).v,
                       On(Times(Derivatives(t).w, t.rotation), second.translation)),
                  On(t.rotation, Derivatives(second).v)),
             ComposedAcceleration(t, second),
             MatrixPlus(Derivatives(t).w,
                        Times(Times(t.rotation, Derivatives(second).w), t.tRotation)))
    ELSE composeStatic(t, second)

(* The angular velocity has one axis, along which its length is exact, and
   dt is even, so that dt * dt / 2 is. *)
Length(w) == LET v == getAngularVel(w)
                 Positive(x) == IF x < 0 THEN -x ELSE x
             IN  Positive(v[1]) + Positive(v[2]) + Positive(v[3])

projectForward(t, dt) ==
    IF t.dynamic
    THEN LET angVelMag == Length(t.angVel)
             Unit(row) == <<row[1] \div angVelMag, row[2] \div angVelMag, row[3] \div angVelMag>>
             normalized == <<Unit(t.angVel[1]), Unit(t.angVel[2]), Unit(t.angVel[3])>>
             velDt == MatrixPlus(
                          Identity,
                          MatrixPlus(MatrixScaled(sin(dt * angVelMag), normalized),
                                     MatrixScaled(1 - cos(dt * angVelMag),
                                                  Times(normalized, normalized))))
         IN  DynamicTransform(
                 Plus(Plus(t.translation, Scaled(dt, t.transVel)),
                      Scaled((dt * dt) \div 2, t.transAcc)),
                 IF angVelMag = 0 THEN t.rotation ELSE Times(velDt, t.rotation),
                 Plus(t.transVel, Scaled(dt, t.transAcc)), t.transAcc, t.angVel)
    ELSE DynamicTransform(t.translation, t.rotation, t.transVel, t.transAcc, t.angVel)

-----------------------------------------------------------------------------
Init ==
    /\ \/ transform = identity
       \/ \E p, v, a \in Vectors, q \in Turns, w \in AngularVelocities :
              transform = DynamicTransform(p, fromEulerAngles(q[1], q[2], q[3]), v, a,
                                           skewMatFromAngVel(w))
    /\ updates = 0

(* The overloads that take the derivatives too do not look at the flag. *)
updateTranslation ==
    \E p \in Vectors :
        \/ transform' = [transform EXCEPT !.translation = p]
        \/ \E v, a \in Vectors :
               transform' = [transform EXCEPT !.translation = p, !.transVel = v, !.transAcc = a]

(* Mutant: the transposed matrix is that of the last rotation. *)
updateRotationOnly ==
    \E q \in Turns :
        transform' = [transform EXCEPT !.rotation = fromEulerAngles(q[1], q[2], q[3])]

updateRotation ==
    \E q \in Turns, w \in {skewMatFromAngVel(v) : v \in AngularVelocities}
                              \union {transform.angVel} :
        LET r == fromEulerAngles(q[1], q[2], q[3])
        IN  transform' = [transform EXCEPT !.rotation = r, !.tRotation = transpose(r),
                                           !.angVel = w]

updateVelocity ==
    \E v \in Vectors : transform' = checkDynamic([transform EXCEPT !.transVel = v])

(* The overloads that take a vector write the velocity. *)
updateAcceleration ==
    \E a \in Vectors :
        \/ transform' = checkDynamic([transform EXCEPT !.transVel = a])
        \/ transform' = checkDynamic([transform EXCEPT !.transAcc = a])

updateAngularVelocity ==
    \E w \in AngularVelocities :
        transform' = checkDynamic([transform EXCEPT !.angVel = skewMatFromAngVel(w)])

Next ==
    /\ updates < MaxUpdates
    /\ updates' = updates + 1
    /\ \/ updateTranslation
       \/ updateRotation
       \/ updateVelocity
       \/ updateAcceleration
       \/ updateAngularVelocity
       \/ transform' = getInverse(transform)

-----------------------------------------------------------------------------
(* A flag that is stale makes every operation below leave derivatives out;
   the overloads of updateTranslation and updateRotation that take a moving
   position or orientation can make it so. *)
Honest == transform = checkDynamic(transform)

(* Some frames and points to measure against. *)
Others ==
    {DynamicTransform(<<0, 1, 2>>, fromEulerAngles(1, 0, 0), <<1, 0, -1>>, <<0, 2, 0>>,
                      skewMatFromAngVel(<<0, 0, 1>>)),
     StaticTransform(<<1, 0, -2>>, fromEulerAngles(0, 1, 3))}
Points == {DynamicPosition(<<1, 2, 3>>, <<0, -1, 2>>, <<2, 0, 1>>)}

SameAxis(v, w) == Times(v, w) = Times(w, v)

(* Undoing a transform leads back, with the velocities and accelerations; and
   its orientation alone is undone alike. *)
InverseUndoes ==
    Honest =>
        LET inverse == getInverse(transform)
        IN  /\ compose(transform, inverse) = identity
            /\ compose(inverse, transform) = identity
            /\ getDynamicOrientation(inverse)
                   = inverseOrientation(getDynamicOrientation(transform))
            /\ \A p \in Points :
                   applyDynamicPosition(inverse, applyDynamicPosition(transform, p)) = p

(* One transform after the other is their composition.  The accelerations
   agree only if the two frames turn about one axis: that of a frame that is
   carried about another axis is not kept. *)
ComposedAppliesBoth ==
    \A other \in Others, p \in Points :
        LET both == compose(transform, other)
            point == applyDynamicPosition(both, p)
            stepwise == applyDynamicPosition(other, applyDynamicPosition(transform, p))
            orientation == DynamicOrientation(fromEulerAngles(0, 2, 1), ZeroMatrix)
        IN  /\ applyPosition(both, p.position) = stepwise.position
            /\ applyOrientation(both, Identity)
                   = applyOrientation(other, applyOrientation(transform, Identity))
            /\ Honest =>
                   /\ getDynamicOrientation(both)
                          = composeOrientation(getDynamicOrientation(transform),
                                               getDynamicOrientation(other))
                   /\ point.velocity = stepwise.velocity
                   /\ SameAxis(transform.angVel,
                               Times(Times(transform.rotation, other.angVel),
                                     transform.tRotation))
                          => point = stepwise
                   /\ applyDynamicOrientation(both, orientation)
                          = applyDynamicOrientation(
                                other, applyDynamicOrientation(transform, orientation))

(* Projecting twice is projecting once for both times, and back is back. *)
ProjectionAddsUp ==
    Honest =>
        /\ projectForward(projectForward(transform, 2), 2) = projectForward(transform, 4)
        /\ projectForward(projectForward(transform, 2), -2) = transform

(* The angles of a rotation say which it is, except where it is vertical. *)
AnglesTell ==
    getPitch(transform.rotation) = 0 =>
        fromEulerAngles(getRoll(transform.rotation), 0, getYaw(transform.rotation))
            = transform.rotation

FramesAgree ==
    /\ Times(transform.rotation, transform.tRotation) = Identity
    /\ InverseUndoes
    /\ ComposedAppliesBoth
    /\ ProjectionAddsUp
    /\ AnglesTell
=============================================================================
