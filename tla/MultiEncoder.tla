---------------------------- MODULE MultiEncoder ----------------------------
(***************************************************************************)
(* src/tap/communication/sensors/encoder/multi_encoder.hpp: several        *)
(* encoders of one shaft that are used as one.  The first is the primary.  *)
(* The others are aligned with it when they appear, and it with them when  *)
(* it comes back, so that the shaft's position survives the loss of any.   *)
(*                                                                         *)
(* The encoders keep what EncoderInterface promises: each reports the      *)
(* position of the shaft and an offset of its own, which alignment makes   *)
(* equal to that of the other.  One that was offline may have lost its     *)
(* offset.  The class looks at them whenever it is asked for something,    *)
(* and it is asked between the loss and the return of an encoder: those    *)
(* take a timeout of 100 ms.  A null encoder is one that never comes.      *)
(*                                                                         *)
(* Of three encoders the loop does not always align what it should: mixed  *)
(* remembers that one of the two things happened that it does not see.     *)
(***************************************************************************)
EXTENDS Integers

CONSTANTS
    COUNT,        \* how many encoders there are
    NullEncoders, \* those that are null
    Misalignments \* offsets of an encoder that was offline

VARIABLES
    seenEncoders,
    online,    \* the encoders that are online
    missed,    \* those that were seen to be offline since they went
    offset,    \* of each encoder
    mixed,     \* encoders with different offsets may count as seen
    positions  \* those whose mean the last call returned, less the shaft's

multiVars == <<seenEncoders, online, missed, offset, mixed, positions>>

Encoders == 0 .. COUNT - 1

Init ==
    /\ seenEncoders = {}
    /\ online = {}
    /\ missed = Encoders
    /\ offset = [e \in Encoders |-> 0]
    /\ mixed = FALSE
    /\ positions = {}

(* Mutant: the primary is not aligned when it comes back. *)
SyncOneForgetting(i, s) ==
    IF i \in online /\ i \notin s.seen
    THEN [seen |-> s.seen \union {i}, offset |-> [s.offset EXCEPT ![i] = s.offset[0]]]
    ELSE IF i \notin online THEN [s EXCEPT !.seen = @ \ {i}]
    ELSE s

(* A step of the loop: encoder i, with what the steps before it left. *)
SyncOne(i, s) ==
    LET valid == i \in s.seen /\ i \in online
    IN  IF i \in online /\ i \notin s.seen
        THEN [seen |-> s.seen \union {i}, offset |-> [s.offset EXCEPT ![i] = s.offset[0]]]
        ELSE IF valid /\ 0 \notin s.seen
        THEN [seen |-> s.seen \union {0}, offset |-> [s.offset EXCEPT ![0] = s.offset[i]]]
        ELSE IF i \notin online THEN [s EXCEPT !.seen = @ \ {i}]
        ELSE s

Synced ==
    LET before == [seen |-> seenEncoders, offset |-> offset]
        after[i \in Encoders] == IF i = 0 THEN before ELSE SyncOne(i, after[i - 1])
    IN  IF 0 \in online
        THEN [after[COUNT - 1] EXCEPT !.seen = @ \union {0}]
        ELSE [before EXCEPT !.seen = @ \ {0}]

Valid(s) == s.seen \intersect online

(* Seen and there ever since, as far as the class has looked. *)
Trusted == seenEncoders \ missed

(* The primary is back, and with it an encoder that the loop comes to before it
   finds one the primary can be aligned with. *)
Crossing ==
    /\ 0 \in online /\ 0 \notin seenEncoders
    /\ \E i \in online \ seenEncoders, j \in seenEncoders \intersect online : 0 < i /\ i < j

(* An encoder is back that was never taken off the list, since the primary was
   away as well: nothing will align it. *)
Straying(e) == e \in seenEncoders /\ Trusted # {}

(* isOnline(), getPosition(), getVelocity() *)
getPosition ==
    LET s == Synced
    IN  /\ seenEncoders' = s.seen
        /\ offset' = s.offset
        /\ mixed' = (mixed \/ Crossing)
        /\ positions' = {s.offset[e] : e \in Valid(s)}
        /\ missed' = missed \union (Encoders \ online)
        /\ UNCHANGED online

(* resetEncoderValue() and alignWith() end with the same position everywhere. *)
resetEncoderValue ==
    /\ seenEncoders' = Synced.seen
    /\ \E value \in Misalignments \union {0} : offset' = [e \in Encoders |-> value]
    /\ mixed' = FALSE
    /\ positions' = {}
    /\ missed' = missed \union (Encoders \ online)
    /\ UNCHANGED online

Disconnects ==
    \E e \in online :
        /\ online' = online \ {e}
        /\ UNCHANGED <<seenEncoders, missed, offset, mixed, positions>>

Connects ==
    \E e \in missed \ (online \union NullEncoders), value \in Misalignments :
        /\ online' = online \union {e}
        /\ missed' = missed \ {e}
        /\ offset' = [offset EXCEPT ![e] = value]
        /\ mixed' = (mixed \/ Straying(e))
        /\ UNCHANGED <<seenEncoders, positions>>

Next == getPosition \/ resetEncoderValue \/ Disconnects \/ Connects

Spec == Init /\ [][Next]_multiVars

(* The encoders that a position is the mean of agree (multi_encoder.hpp:151-183),
   whichever comes and goes, and in whatever order, unless they were mixed since
   the last reset. *)
EncodersAgree == mixed \/ \A p, q \in positions : p = q

(* As long as an encoder that was part of the last position is still there, the
   next position continues it: none comes back with a jump, unless they are
   mixed. *)
PositionContinues ==
    [][ seenEncoders \intersect online # {} =>
            positions' \subseteq positions \/ positions = {} \/ mixed' ]_multiVars

(* What the class says it does (multi_encoder.hpp:38-44): the position is the
   mean of encoders that are aligned with each other. *)
AveragesAligned == \A p, q \in positions : p = q
=============================================================================
