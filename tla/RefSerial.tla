----------------------------- MODULE RefSerial -----------------------------
(***************************************************************************)
(* tap::communication::serial::RefSerial: how the damage per second is     *)
(* kept from the hit points that the referee system sends.  DjiSerial      *)
(* makes the messages; what else they carry is only stored.                *)
(***************************************************************************)
EXTENDS Integers, SequencesExt

CONSTANTS
    MaxHp,
    DPS_TRACKER_DEQUE_SIZE,
    Second,   \* 1000 ms in the program
    Horizon,  \* bound: the time at which the clock stops
    MaxHits   \* bound: the hits of a match

VARIABLES
    time,
    previousHp,
    receivedDps,
    receivedDpsTracker, \* the damage events, the oldest one first
    hits,               \* history: what the referee reported, each with its time
    overflowed,         \* history: the tracker was full when a hit came
    upToDate            \* history: a message came since the clock went on

vars == <<time, previousHp, receivedDps, receivedDpsTracker, hits, overflowed, upToDate>>

Init ==
    /\ time = 0
    /\ previousHp = 0
    /\ receivedDps = 0
    /\ receivedDpsTracker = <<>>
    /\ hits = <<>>
    /\ overflowed = FALSE
    /\ upToDate = TRUE

Tick ==
    /\ time < Horizon
    /\ time' = time + 1
    /\ upToDate' = FALSE
    /\ UNCHANGED <<previousHp, receivedDps, receivedDpsTracker, hits, overflowed>>

Damage(events) ==
    LET sum[k \in 0 .. Len(events)] == IF k = 0 THEN 0 ELSE sum[k - 1] + events[k].damage
    IN sum[Len(events)]

Expired(event) == time > event.timestamp + Second

(* Mutant: one event at a time. *)
updateOneDamage ==
    LET old == receivedDpsTracker # <<>> /\ Expired(Head(receivedDpsTracker)) IN
    [dps |-> receivedDps - (IF old THEN Head(receivedDpsTracker).damage ELSE 0),
     tracker |-> IF old THEN Tail(receivedDpsTracker) ELSE receivedDpsTracker]

(* The events that stay: those from the first one that is not too old. *)
updateReceivedDamage ==
    LET Old(k) == \A j \in 1 .. k : Expired(receivedDpsTracker[j])
        gone == Max({k \in 0 .. Len(receivedDpsTracker) : Old(k)}) IN
    [dps |-> receivedDps - Damage(SubSeq(receivedDpsTracker, 1, gone)),
     tracker |-> SubSeq(receivedDpsTracker, gone + 1, Len(receivedDpsTracker))]

(* messageReceiveCallback() of a message that has no hit points. *)
OtherMessage ==
    /\ receivedDps' = updateReceivedDamage.dps
    /\ receivedDpsTracker' = updateReceivedDamage.tracker
    /\ upToDate' = TRUE
    /\ UNCHANGED <<time, previousHp, hits, overflowed>>

(* A full tracker loses its newest event, whose damage is never taken back. *)
Appended(tracker, event) ==
    Append(IF Len(tracker) = DPS_TRACKER_DEQUE_SIZE THEN Front(tracker) ELSE tracker, event)

(* messageReceiveCallback() of REF_MESSAGE_TYPE_ROBOT_STATUS. *)
RobotStatus(currentHp) ==
    LET damageTaken == previousHp - currentHp
        event == [damage |-> damageTaken, timestamp |-> time]
        updated == updateReceivedDamage
        hit == damageTaken > 0 IN
    /\ hit => Len(hits) < MaxHits
    /\ previousHp' = currentHp
    /\ receivedDps' = updated.dps + (IF hit THEN damageTaken ELSE 0)
    /\ receivedDpsTracker' = IF hit THEN Appended(updated.tracker, event) ELSE updated.tracker
    /\ hits' = IF hit THEN Append(hits, event) ELSE hits
    /\ overflowed' = (overflowed \/ (hit /\ Len(updated.tracker) = DPS_TRACKER_DEQUE_SIZE))
    /\ upToDate' = TRUE
    /\ UNCHANGED time

messageReceiveCallback == OtherMessage \/ \E hp \in 0 .. MaxHp : RobotStatus(hp)

Next == Tick \/ messageReceiveCallback

Spec == Init /\ [][Next]_vars

-----------------------------------------------------------------------------
Recent(hit) == time <= hit.timestamp + Second

RecentDamage ==
    Damage([k \in 1 .. Len(hits) |->
                [hits[k] EXCEPT !.damage = IF Recent(hits[k]) THEN @ ELSE 0]])

(***************************************************************************)
(* ref_serial_data.hpp:478 calls receivedDps the damage per second: after  *)
(* every message, of whatever type, it is the damage of the last second,   *)
(* however long no message came before, as long as no more hits fall into  *)
(* one second than the tracker keeps.                                      *)
(***************************************************************************)
DpsIsRecentDamage == upToDate /\ ~overflowed => receivedDps = RecentDamage
=============================================================================
