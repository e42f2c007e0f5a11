----------------------------- MODULE MCDevices -----------------------------
(***************************************************************************)
(* The objects that sit between the messages and the rest of a program:    *)
(* the listeners of the CAN receive handler, motors, encoders, sensors,    *)
(* controllers and frames, and the small classes they are built on.  They  *)
(* share no state, so one behaviour uses one of them, chosen in the        *)
(* initial state; the others stay as they are constructed.                 *)
(*                                                                         *)
(* The proofs about an object stand with it: listeners, encoders, errors,  *)
(* numbers on a circle, timers, several encoders of one shaft, motors of   *)
(* both kinds, IMUs and control loops.  What is composed of all objects,   *)
(* its properties and the theorems about them are at the end.              *)
(***************************************************************************)
EXTENDS CanRxHandler, FiniteSetTheorems, SequenceTheorems, WellFoundedInduction, TLAPS

CONSTANTS
    ClockPeriod, Periods, Timeouts, Horizon,
    Profiles, MAX_PROFILED_ELEMENTS, CounterAtBoot, MaxCalls, ProfilingEnd,
    Errors, ERROR_LIST_MAX_SIZE,
    Lowers, Interval0, Amounts, Reach,
    EncoderResolution, HomePositions, Offsets, RevWord, ShaftReach,
    COUNT, NullEncoders, Misalignments,
    Motors, MotorIdentifier, MotorCanBus, MotorInverted, CurrentControl, Doubled, OutputWord,
    Outputs, Torques, MotorTemperatures,
    RevMotors, RevIdentifier, RevCanBus, Slots, ControlModes, MaxRequests,
    MOTOR_DISCONNECT_TIME,
    Samples, offsetSampleCount, MaxCalibrations,
    Mountings, Readings, Temperatures, MaxReads,
    Vectors, Turns, AngularVelocities, MaxUpdates,
    Bytes, Damages, MaxLength, MaxDamaged,
    PidConfigs, PidErrors, FilterCoefficients, FilterInputs, Circles, Rates,
    FuzzyScale, FuzzyParams, Powers, PowerBuffers, PowerLimit, LimitThreshold, CritThreshold,
    Drives, DriveReach, Override, FullPwm, Servos, PwmTargets, LoopTime, MaxSteps

ASSUME TimerAssumption ==
    /\ ClockPeriod \in Nat \ {0} /\ Horizon \in Nat /\ Horizon < ClockPeriod
    /\ Periods \union Timeouts \subseteq Nat \ {0}
    /\ \A duration \in Periods \union Timeouts : Horizon + duration < ClockPeriod
    /\ MAX_PROFILED_ELEMENTS \in Nat /\ CounterAtBoot \in Nat
ASSUME ErrorAssumption == ERROR_LIST_MAX_SIZE \in Nat \ {0}
ASSUME FloatAssumption ==
    Interval0 \in Nat \ {0} /\ Lowers \subseteq Int /\ Amounts \subseteq Int
ASSUME EncoderAssumption ==
    /\ EncoderResolution \in Nat \ 0 .. 2 /\ RevWord \in Nat \ {0}
    /\ HomePositions \subseteq Int /\ Offsets \subseteq Int
    /\ COUNT \in 1 .. 3 /\ NullEncoders \subseteq 1 .. COUNT - 1
ASSUME MotorAssumption ==
    /\ OutputWord \in Nat \ {0} /\ OutputWord % 2 = 0
    /\ MotorIdentifier \in [Motors -> 513 .. 520]
    /\ \E m, n \in Motors : m # n /\ Doubled = {m, n}
    /\ Outputs \subseteq Int /\ MotorTemperatures \subseteq Int
    /\ Torques \subseteq -(OutputWord \div 2) .. OutputWord \div 2 - 1
ASSUME RevAssumption ==
    /\ RevIdentifier \in [RevMotors -> 1 .. 8] /\ RevCanBus \in [RevMotors -> {1, 2}]
    /\ \A m, n \in RevMotors :
        RevCanBus[m] = RevCanBus[n] /\ RevIdentifier[m] = RevIdentifier[n] => m = n
    /\ Slots \subseteq 0 .. 3 /\ MaxRequests \in Nat /\ MOTOR_DISCONNECT_TIME \in Nat \ {0}
ASSUME ImuAssumption == Samples \subseteq Int /\ offsetSampleCount \in Nat \ {0}
ASSUME RegisterAssumption ==
    /\ \A v \in Readings, i \in 1 .. 3 : v[i] \in Int /\ -32768 <= v[i] /\ v[i] <= 32767
    /\ \A t \in Temperatures : t \in Int /\ -1024 <= t /\ t <= 1023
ASSUME LoopAssumption ==
    /\ PidConfigs \subseteq [kp : Int, ki : Int, kd : Int, maxICumulative : Nat, maxOutput : Nat,
                             errDeadzone : Int, errorDerivativeFloor : Int,
                             smoothDeadzone : BOOLEAN, antiSaturation : BOOLEAN]
    /\ PidErrors \subseteq Int
    /\ PowerLimit \in Int /\ LimitThreshold \in Int
    /\ Powers \subseteq Int /\ PowerBuffers \subseteq Int
    /\ Drives \subseteq Int \X Int /\ Override \in Int \X Int
    /\ FullPwm \in Nat /\ PwmTargets \subseteq Int
    /\ Servos \subseteq [maximumPwm : Int, minimumPwm : Int, pwmRampSpeed : Nat]

VARIABLES
    used,  \* the object that is used
    time, period, periodicTimeout, start, fired,
    timeout, timer, unmet, profiledElements, calls, durations, overwritten,
    pushes,
    errorList, raised,
    float, exact,
    encoder, pastPosition, encoderHomePosition, inverted, updated, shaft, seenShaft, pastShaft,
    expected, aligned, rev, leftWord,
    seenEncoders, online, missed, offset, mixed, positions,
    phase, canMotorStore, desiredOutput, commanded, frames, torque, temperature, onlineMotors,
    reported,
    managed, paramQueue, asked, spark, failed, requests,
    motorDisconnectTimeout, encoderDisconnectTimeout, silence, heartbeat,
    chip, broken, sensor, imuState, calibrationSample, raw, imuOffset, data, taken,
    ofPartialSum, calibrations,
    model, settings, written, applied, mounting, measured, imuData, calibratedAt, reads,
    transform, updates,
    sentMessage, receivedMessage,
    runs, config, pid, filter, steady, fed, predictor, rate, fuzzy,
    limiter, referee, ratio, account, tracker, chassis, lost, origin, servo, course, now

-----------------------------------------------------------------------------
Store == [Buses -> [{"dji", "rev"} -> [0 .. CAN_BINS - 1 -> Seq(Listeners)]]]

(* The inductive invariant: a chain is empty or holds one listener that exists,
   and that belongs there.  The second part is what makes it safe to remove the
   head of a chain in the name of an identifier. *)
AtHome(l, bus, kind, bin) ==
    CanBus[l] = bus /\ Stored(l) /\ Kind(l) = kind /\ Bin(l) = bin

Holds(bus, kind, bin) ==
    \/ store[bus][kind][bin] = <<>>
    \/ \E l \in alive : store[bus][kind][bin] = <<l>> /\ AtHome(l, bus, kind, bin)

Housed ==
    /\ store \in Store
    /\ alive \in SUBSET Listeners
    /\ \A bus \in Buses, kind \in {"dji", "rev"}, bin \in 0 .. CAN_BINS - 1 : Holds(bus, kind, bin)

(* Of the identifiers that are accepted, two of one kind with the same bin are
   equal (can_rx_handler.hpp:66-75). *)
LEMMA OneIdentifierPerBin ==
    ASSUME NEW l \in Listeners, NEW k \in Listeners,
           Stored(l), Stored(k), Kind(l) = Kind(k), Bin(l) = Bin(k)
    PROVE  CanIdentifier[l] = CanIdentifier[k]
<1>1. CASE isRevCanId(CanIdentifier[l])
  <2>1. isRevCanId(CanIdentifier[k])
    BY <1>1 DEF Kind
  <2>2. QED
    BY <1>1, <2>1 DEF isRevCanId, Bin, binIndexForCanId, CAN_BINS
<1>2. CASE ~isRevCanId(CanIdentifier[l])
  <2>1. isDjiCanId(CanIdentifier[l]) /\ isDjiCanId(CanIdentifier[k])
    BY <1>2 DEF Kind, Stored
  <2>2. QED
    BY <2>1 DEF isDjiCanId, Bin, binIndexForCanId, CAN_BINS
<1>3. QED
  BY <1>1, <1>2

(* Where a listener belongs is a chain that there is. *)
LEMMA HomeExists ==
    ASSUME NEW l \in Listeners
    PROVE  /\ CanBus[l] \in Buses
           /\ Kind(l) \in {"dji", "rev"}
           /\ Bin(l) \in 0 .. CAN_BINS - 1
  BY ListenerAssumption DEF Kind, Bin, binIndexForCanId, CAN_BINS

(* A chain that holds a listener of the bin holds its identifier. *)
LEMMA ChainOf ==
    ASSUME Housed, NEW l \in Listeners, Stored(l)
    PROVE  IF SameIdentifier(l) = {} THEN Chain(l) = <<>>
           ELSE \E k \in alive : Chain(l) = <<k>>
<1>1. Holds(CanBus[l], Kind(l), Bin(l))
  BY HomeExists DEF Housed
<1>2. CASE Chain(l) = <<>>
  BY <1>2 DEF SameIdentifier, Chain
<1>3. CASE Chain(l) # <<>>
  <2>1. PICK k \in alive : Chain(l) = <<k>> /\ AtHome(k, CanBus[l], Kind(l), Bin(l))
    BY <1>1, <1>3 DEF Holds, Chain
  <2>2. CanIdentifier[k] = CanIdentifier[l]
    BY <2>1, OneIdentifierPerBin DEF AtHome, Housed
  <2>3. 1 \in SameIdentifier(l)
    BY <2>1, <2>2 DEF SameIdentifier
  <2>4. QED
    BY <2>1, <2>3
<1>4. QED
  BY <1>2, <1>3

(* What attaching and destructing do to a store. *)
Replaced(b, k, n, c) ==
    /\ store' \in Store
    /\ store'[b][k][n] = c
    /\ \A bus \in Buses, kind \in {"dji", "rev"}, bin \in 0 .. CAN_BINS - 1 :
           ~(bus = b /\ kind = k /\ bin = n) => store'[bus][kind][bin] = store[bus][kind][bin]

(* An update of one chain of a store, in the terms of Replaced. *)
LEMMA StoreUpdate ==
    ASSUME store \in Store, NEW b \in Buses, NEW k \in {"dji", "rev"},
           NEW n \in 0 .. CAN_BINS - 1, NEW c \in Seq(Listeners),
           store' = [store EXCEPT ![b][k][n] = c]
    PROVE  Replaced(b, k, n, c)
<1> DEFINE bins == [store[b][k] EXCEPT ![n] = c]
           kinds == [store[b] EXCEPT ![k] = bins]
           t == [store EXCEPT ![b] = kinds]
<1>1. store[b] \in [{"dji", "rev"} -> [0 .. CAN_BINS - 1 -> Seq(Listeners)]]
  BY DEF Store
<1>2. store[b][k] \in [0 .. CAN_BINS - 1 -> Seq(Listeners)]
  BY <1>1
<1>3. /\ bins \in [0 .. CAN_BINS - 1 -> Seq(Listeners)]
      /\ bins[n] = c
      /\ \A bin \in 0 .. CAN_BINS - 1 : bin # n => bins[bin] = store[b][k][bin]
  BY <1>2, Zenon
<1> HIDE DEF bins
<1>4. /\ kinds \in [{"dji", "rev"} -> [0 .. CAN_BINS - 1 -> Seq(Listeners)]]
      /\ kinds[k] = bins
      /\ \A kind \in {"dji", "rev"} : kind # k => kinds[kind] = store[b][kind]
  BY <1>1, <1>3
<1> HIDE DEF kinds
<1>5. /\ t \in Store
      /\ t[b] = kinds
      /\ \A bus \in Buses : bus # b => t[bus] = store[bus]
  BY <1>4 DEF Store
<1>6. t = store'
  BY DEF t, kinds, bins
<1> HIDE DEF t
<1>7. t[b][k][n] = c
  BY <1>3, <1>4, <1>5, Zenon
<1>8. ASSUME NEW bus \in Buses, NEW kind \in {"dji", "rev"}, NEW bin \in 0 .. CAN_BINS - 1,
             ~(bus = b /\ kind = k /\ bin = n)
      PROVE  t[bus][kind][bin] = store[bus][kind][bin]
  <2>1. CASE bus # b
    BY <1>5, <2>1
  <2>2. CASE bus = b /\ kind # k
    BY <1>4, <1>5, <2>2
  <2>3. CASE bus = b /\ kind = k /\ bin # n
    BY <1>3, <1>4, <1>5, <2>3, Zenon
  <2>4. QED
    BY <1>8, <2>1, <2>2, <2>3
<1>9. QED
  BY <1>5, <1>6, <1>7, <1>8, ZenonT(60) DEF Replaced

LEMMA AppendReplaces ==
    ASSUME store \in Store, NEW b \in Buses, NEW k \in {"dji", "rev"},
           NEW n \in 0 .. CAN_BINS - 1, NEW l \in Listeners, store[b][k][n] = <<>>,
           store' = [store EXCEPT ![b][k][n] = Append(@, l)]
    PROVE  Replaced(b, k, n, <<l>>)
<1>1. Append(store[b][k][n], l) = <<l>> /\ <<l>> \in Seq(Listeners)
  OBVIOUS
<1>2. store' = [store EXCEPT ![b][k][n] = <<l>>]
  BY <1>1
<1>3. QED
  BY <1>1, <1>2, StoreUpdate, Zenon

LEMMA TailReplaces ==
    ASSUME store \in Store, NEW b \in Buses, NEW k \in {"dji", "rev"},
           NEW n \in 0 .. CAN_BINS - 1, NEW j, store[b][k][n] = <<j>>,
           store' = [store EXCEPT ![b][k][n] = Tail(@)]
    PROVE  Replaced(b, k, n, <<>>)
<1>1. Tail(store[b][k][n]) = <<>> /\ <<>> \in Seq(Listeners)
  OBVIOUS
<1>2. store' = [store EXCEPT ![b][k][n] = <<>>]
  BY <1>1
<1>3. QED
  BY <1>1, <1>2, StoreUpdate, Zenon

LEMMA HousedInit == Init => Housed
  BY DEF Init, Housed, Store, Holds, Buses, CAN_BINS

LEMMA HousedConstruct ==
    ASSUME Housed, NEW l \in Listeners, Construct(l) PROVE Housed'
  BY DEF Housed, Construct, Holds, AtHome

(* A step that puts one listener that exists, or none, into one chain, and
   takes nobody away who stands in another. *)
LEMMA ReplacedHoused ==
    ASSUME Housed, alive' \in SUBSET Listeners,
           NEW b \in Buses, NEW k \in {"dji", "rev"}, NEW n \in 0 .. CAN_BINS - 1,
           NEW c, Replaced(b, k, n, c),
           c = <<>> \/ \E l \in alive' : c = <<l>> /\ AtHome(l, b, k, n),
           \A l \in alive \ alive' : ~Stored(l) \/ AtHome(l, b, k, n)
    PROVE  Housed'
<1>1. ASSUME NEW bus \in Buses, NEW kind \in {"dji", "rev"}, NEW bin \in 0 .. CAN_BINS - 1
      PROVE  Holds(bus, kind, bin)'
  <2>1. CASE bus = b /\ kind = k /\ bin = n
    BY <2>1 DEF Replaced, Holds, AtHome
  <2>2. CASE ~(bus = b /\ kind = k /\ bin = n)
    <3>1. store'[bus][kind][bin] = store[bus][kind][bin]
      BY <2>2 DEF Replaced
    <3>2. CASE store[bus][kind][bin] = <<>>
      BY <3>1, <3>2 DEF Holds
    <3>3. CASE store[bus][kind][bin] # <<>>
      <4>1. PICK j \in alive : store[bus][kind][bin] = <<j>> /\ AtHome(j, bus, kind, bin)
        BY <3>3 DEF Housed, Holds
      <4>2. j \in alive'
        BY <2>2, <4>1 DEF AtHome
      <4>3. QED
        BY <3>1, <4>1, <4>2 DEF Holds, AtHome
    <3>4. QED
      BY <3>2, <3>3
  <2>3. QED
    BY <2>1, <2>2
<1>2. QED
  BY <1>1 DEF Housed, Replaced

LEMMA HousedAttach ==
    ASSUME Housed, NEW l \in Listeners, attachReceiveHandler(l) PROVE Housed'
<1>1. CASE Stored(l) /\ SameIdentifier(l) = {}
  <2>1. Chain(l) = <<>>
    BY <1>1, ChainOf
  <2>2. Replaced(CanBus[l], Kind(l), Bin(l), <<l>>)
    BY <1>1, <2>1, AppendReplaces, HomeExists, Zenon DEF attachReceiveHandler, Chain, Housed
  <2>3. alive' = alive /\ l \in alive /\ AtHome(l, CanBus[l], Kind(l), Bin(l))
    BY <1>1, SMTT(30) DEF attachReceiveHandler, AtHome
  <2>4. QED
    BY <2>2, <2>3, HomeExists, ReplacedHoused DEF Housed
<1>2. CASE ~(Stored(l) /\ SameIdentifier(l) = {})
  BY <1>2 DEF attachReceiveHandler, Housed, Holds, AtHome
<1>3. QED
  BY <1>1, <1>2

(* The listener that is destructed is in no chain but its own, and is the head
   of that one, if it is in it at all. *)
LEMMA HousedDestruct ==
    ASSUME Housed, NEW l \in Listeners, Destruct(l) PROVE Housed'
<1>1. /\ alive' = alive \ {l} /\ alive' \in SUBSET Listeners
      /\ Stored(l) => AtHome(l, CanBus[l], Kind(l), Bin(l))
  BY DEF Destruct, Housed, AtHome
<1>2. CASE Stored(l) /\ SameIdentifier(l) # {}
  <2>1. PICK k \in alive : Chain(l) = <<k>>
    BY <1>2, ChainOf
  <2>2. Replaced(CanBus[l], Kind(l), Bin(l), <<>>)
    BY <1>2, <2>1, TailReplaces, HomeExists, Zenon DEF Destruct, Chain, Housed
  <2>3. QED
    BY <1>1, <2>2, HomeExists, ReplacedHoused
<1>3. CASE Stored(l) /\ SameIdentifier(l) = {}
  <2>1. store' = store
    BY <1>3 DEF Destruct
  <2>2. Chain(l) = <<>>
    BY <1>3, ChainOf
  <2>3. Replaced(CanBus[l], Kind(l), Bin(l), <<>>)
    BY <2>1, <2>2, HomeExists DEF Replaced, Chain, Housed
  <2>4. QED
    BY <1>1, <2>3, HomeExists, ReplacedHoused
<1>4. CASE ~Stored(l)
  <2>1. store' = store
    BY <1>4 DEF Destruct
  <2>2. QED
    BY <1>1, <1>4, <2>1 DEF Housed, Holds, AtHome
<1>5. QED
  BY <1>2, <1>3, <1>4

LEMMA HousedNext == Housed /\ [Next]_vars => Housed'
<1> SUFFICES ASSUME Housed, [Next]_vars PROVE Housed'
  OBVIOUS
<1>1. ASSUME NEW l \in Listeners, Construct(l) PROVE Housed'
  BY <1>1, HousedConstruct
<1>2. ASSUME NEW l \in Listeners, attachReceiveHandler(l) PROVE Housed'
  BY <1>2, HousedAttach
<1>3. ASSUME NEW l \in Listeners, Destruct(l) PROVE Housed'
  BY <1>3, HousedDestruct
<1>4. ASSUME NEW m \in Messages, Receive(m) PROVE Housed'
  BY <1>4 DEF Receive, Housed, Holds, AtHome
<1>5. CASE pollCanData
  BY <1>5 DEF pollCanData, Housed, Holds, AtHome
<1>6. CASE UNCHANGED vars
  BY <1>6 DEF vars, Housed, Holds, AtHome
<1>7. QED
  BY <1>1, <1>2, <1>3, <1>4, <1>5, <1>6 DEF Next

LEMMA HousedSafe == Housed => NoDanglingListener
<1>1. ASSUME Housed, NEW bus \in Buses, NEW kind \in {"dji", "rev"}
      PROVE  \A bin \in DOMAIN store[bus][kind] : Range(store[bus][kind][bin]) \subseteq alive
  <2>1. DOMAIN store[bus][kind] = 0 .. CAN_BINS - 1
    BY <1>1 DEF Housed, Store
  <2>2. ASSUME NEW bin \in 0 .. CAN_BINS - 1
        PROVE  Range(store[bus][kind][bin]) \subseteq alive
    <3>1. CASE store[bus][kind][bin] = <<>>
      BY <3>1 DEF Range
    <3>2. CASE store[bus][kind][bin] # <<>>
      <4>1. PICK l \in alive : store[bus][kind][bin] = <<l>>
        BY <1>1, <3>2 DEF Housed, Holds
      <4>2. QED
        BY <4>1 DEF Range
    <3>3. QED
      BY <3>1, <3>2
  <2>3. QED
    BY <2>1, <2>2
<1>2. QED
  BY <1>1 DEF NoDanglingListener

(* For any listeners, on both buses: no store ever points to a listener that
   was destructed, although a refused listener removes another one's entry. *)
THEOREM NoDangling == Spec => []NoDanglingListener
<1>1. Spec => []Housed
  BY HousedInit, HousedNext, PTL DEF Spec
<1>2. QED
  BY <1>1, HousedSafe, PTL

-----------------------------------------------------------------------------
(* A queue holds messages of its bus. *)
QueueTyped ==
    /\ DOMAIN queue = Buses
    /\ \A bus \in Buses : queue[bus] \in Seq({m \in Messages : m.bus = bus})

(* What is queued was on its bus. *)
LEMMA QueueTypedInvariant == Spec => []QueueTyped
<1>1. Init => QueueTyped
  BY DEF Init, QueueTyped
<1>2. QueueTyped /\ [Next]_vars => QueueTyped'
  <2> SUFFICES ASSUME QueueTyped, [Next]_vars PROVE QueueTyped'
    OBVIOUS
  <2>1. ASSUME NEW m \in Messages, Receive(m) PROVE QueueTyped'
    <3>1. m.bus \in Buses
      BY MessageAssumption
    <3>2. QED
      BY <2>1, <3>1 DEF Receive, QueueTyped
  <2>2. CASE pollCanData
    BY <2>2 DEF pollCanData, QueueTyped
  <2>3. CASE UNCHANGED queue
    BY <2>3, SMTT(30) DEF QueueTyped
  <2>4. QED
    BY <2>1, <2>2, <2>3, Zenon DEF Next, vars, Construct, attachReceiveHandler, Destruct
<1>3. QED
  BY <1>1, <1>2, PTL DEF Spec

(* Messages on the bus with an extended identifier come from REV motors. *)
ExtendedAreRev == \A m \in Messages : m.extended => isRevCanId(m.identifier)

(* A poll hands the oldest message of a bus to the listener it is for. *)
LEMMA PollDispatches ==
    ASSUME ExtendedAreRev, Housed, QueueTyped, pollCanData,
           NEW l \in Listeners, NEW bus \in Buses, queue[bus] # <<>>
    PROVE  <<l, Head(queue[bus])>> \in processed'
               <=> /\ Attached(l)
                   /\ For(l, Head(queue[bus]))
                   /\ CanIdentifier[l] # 8
<1> DEFINE m == Head(queue[bus])
           bin == binIndexForCanId(m.identifier)
           kind == IF m.extended THEN "rev" ELSE "dji"
           wanted == IF m.extended THEN bin ELSE m.identifier
           chain == store[bus][kind][bin]
<1>1. m \in Messages /\ m.bus = bus
  <2>1. ASSUME NEW S, NEW q \in Seq(S), q # <<>> PROVE Head(q) \in S
    BY <2>1, HeadTailProperties
  <2>2. queue[bus] \in Seq({x \in Messages : x.bus = bus})
    BY DEF QueueTyped
  <2>3. m \in {x \in Messages : x.bus = bus}
    BY <2>1, <2>2
  <2>4. QED
    BY <2>3
<1>2. m.identifier \in Nat /\ m.extended \in BOOLEAN /\ bin \in 0 .. CAN_BINS - 1
  BY <1>1, MessageAssumption, SMTT(40) DEF binIndexForCanId, CAN_BINS
<1> HIDE DEF m
<1>3. <<l, m>> \in processed' <=> <<l, m>> \in processReceivedCanData(m)
  <2>1. ASSUME NEW b \in Buses, <<l, m>> \in processReceivedCanData(Head(queue[b]))
        PROVE  Head(queue[b]) = m
    BY <2>1, Zenon DEF processReceivedCanData
  <2>2. QED
    BY <2>1 DEF pollCanData, m
<1>4. <<l, m>> \in processReceivedCanData(m)
          <=> CanIdentifier[l] = wanted /\ \E k \in DOMAIN chain : chain[k] = l
  BY <1>1 DEF processReceivedCanData
<1>5. Holds(bus, kind, bin)
  BY <1>2, SMTT(30) DEF Housed
<1>6. (\E k \in DOMAIN chain : chain[k] = l) <=> chain = <<l>>
  BY <1>5 DEF Holds
<1>7. ASSUME chain = <<l>>, CanIdentifier[l] = wanted
      PROVE  Attached(l) /\ For(l, m) /\ CanIdentifier[l] # 8
  <2>1. AtHome(l, bus, kind, bin)
    BY <1>5, <1>7 DEF Holds
  <2>2. Chain(l) = <<l>>
    BY <1>7, <2>1 DEF Chain, AtHome
  <2>3. Attached(l)
    BY <2>2 DEF Attached, Range
  <2>4. CASE m.extended
    <3>1. isRevCanId(CanIdentifier[l]) /\ isRevCanId(m.identifier)
      BY <1>1, <2>1, <2>4 DEF AtHome, Kind, ExtendedAreRev
    <3>2. CanIdentifier[l] = m.identifier % 8
      BY <1>7, <2>4 DEF binIndexForCanId, CAN_BINS
    <3>3. m.identifier = CanIdentifier[l] /\ CanIdentifier[l] # 8
      BY <3>1, <3>2 DEF isRevCanId
    <3>4. QED
      BY <1>1, <2>1, <2>3, <2>4, <3>1, <3>3 DEF For, AtHome
  <2>5. CASE ~m.extended
    <3>1. ~isRevCanId(CanIdentifier[l])
      BY <2>1, <2>5 DEF AtHome, Kind
    <3>2. CanIdentifier[l] # 8
      BY <3>1 DEF isRevCanId
    <3>3. m.extended = isRevCanId(CanIdentifier[l])
      <4>1. m.extended = FALSE
        BY <1>2, <2>5
      <4>2. isRevCanId(CanIdentifier[l]) = FALSE
        BY <3>1
      <4>3. QED
        BY <4>1, <4>2, Zenon
    <3>4. QED
      BY <1>1, <1>2, <1>7, <2>1, <2>3, <2>5, <3>2, <3>3 DEF For, AtHome
  <2>6. QED
    BY <2>4, <2>5
<1>8. ASSUME Attached(l), For(l, m), CanIdentifier[l] # 8
      PROVE  chain = <<l>> /\ CanIdentifier[l] = wanted
  <2>1. kind = Kind(l) /\ bus = CanBus[l] /\ bin = Bin(l)
    BY <1>1, <1>8 DEF For, Kind, Bin
  <2>2. chain = Chain(l)
    BY <2>1 DEF Chain
  <2>3. chain = <<l>>
    BY <1>5, <1>8, <2>2 DEF Attached, Range, Holds
  <2>4. CASE m.extended
    <3>1. isRevCanId(CanIdentifier[l])
      BY <1>8, <2>4, Zenon DEF For
    <3>2. CanIdentifier[l] \in 1 .. 7
      BY <1>8, <3>1 DEF isRevCanId
    <3>3. QED
      BY <1>8, <2>3, <2>4, <3>2 DEF For, binIndexForCanId, CAN_BINS
  <2>5. CASE ~m.extended
    BY <1>8, <2>3, <2>5 DEF For
  <2>6. QED
    BY <2>4, <2>5
<1>9. QED
  BY <1>3, <1>4, <1>6, <1>7, <1>8 DEF m

(* For any listeners and messages: a poll hands a message to the listener it is
   for, and to nobody else. *)
THEOREM Dispatch == ASSUME ExtendedAreRev PROVE Spec => ProcessedByItsListener
<1>1. Housed /\ QueueTyped /\ [Next]_vars =>
          [pollCanData =>
              \A l \in Listeners, bus \in Buses :
                  queue[bus] # <<>> =>
                      (<<l, Head(queue[bus])>> \in processed'
                           <=> /\ Attached(l)
                               /\ For(l, Head(queue[bus]))
                               /\ CanIdentifier[l] # 8)]_vars
  BY PollDispatches
<1>2. Spec => []Housed
  BY HousedInit, HousedNext, PTL DEF Spec
<1>3. QED
  BY <1>1, <1>2, QueueTypedInvariant, PTL DEF Spec, ProcessedByItsListener

-----------------------------------------------------------------------------
Encoder == INSTANCE WrappedEncoder

encoderVars == <<encoder, pastPosition, encoderHomePosition, inverted, updated, shaft,
                 seenShaft, pastShaft, expected, aligned, rev, leftWord>>

(* Numbers on the encoder's circle, and what they stand for. *)
Circle == [wrapped : 0 .. EncoderResolution - 1, revolutions : Int,
           lower : {0}, upper : {EncoderResolution}]

Value(f) == f.wrapped + EncoderResolution * f.revolutions

(* The quotient and the remainder of a number. *)
LEMMA Division ==
    ASSUME NEW a \in Int, NEW n \in Nat \ {0}
    PROVE  /\ a \div n \in Int /\ a % n \in 0 .. n - 1
           /\ a = n * (a \div n) + (a % n)
OBVIOUS

(* A product of a sum, for the solver, which does not know n. *)
LEMMA Distributes ==
    ASSUME NEW n \in Int, NEW a \in Int, NEW b \in Int
    PROVE  n * (a + b) = n * a + n * b /\ n * (a - b) = n * a - n * b
OBVIOUS

(* Fewer than two turns either way is one turn or none. *)
LEMMA FewTurns ==
    ASSUME NEW n \in Nat \ {0}, NEW k \in Int, -(2 * n) < n * k, n * k < 2 * n
    PROVE  k \in {-1, 0, 1}
<1>1. ASSUME k >= 2 PROVE n * k >= 2 * n
  <2>1. n * (k - 2) >= 0
    BY <1>1
  <2>2. n * (k - 2) = n * k - n * 2
    BY Distributes
  <2>3. QED
    BY <2>1, <2>2
<1>2. ASSUME k <= -2 PROVE n * k <= -(2 * n)
  <2>1. n * (-2 - k) >= 0
    BY <1>2
  <2>2. n * (-2 - k) = n * (-2) - n * k
    BY Distributes
  <2>3. QED
    BY <2>1, <2>2
<1>3. k <= -2 \/ k >= 2 \/ k \in {-1, 0, 1}
  OBVIOUS
<1>4. QED
  BY <1>1, <1>2, <1>3

(* wrapValue() brings a number onto the circle and keeps what it stands for. *)
LEMMA WrapKeepsValue ==
    ASSUME NEW f \in [wrapped : Int, revolutions : Int,
                      lower : {0}, upper : {EncoderResolution}]
    PROVE  Encoder!wrapValue(f) \in Circle /\ Value(Encoder!wrapValue(f)) = Value(f)
<1> DEFINE turns == f.wrapped \div EncoderResolution
           g == Encoder!wrapValue(f)
<1>1. /\ EncoderResolution \in Nat \ {0} /\ f.wrapped \in Int /\ f.revolutions \in Int
      /\ f.lower = 0 /\ f.upper = EncoderResolution
      /\ f.wrapped - 0 = f.wrapped /\ EncoderResolution - 0 = EncoderResolution
  BY EncoderAssumption
<1>2. turns \in Int /\ f.wrapped - EncoderResolution * turns \in 0 .. EncoderResolution - 1
  <2>1. /\ turns \in Int /\ f.wrapped % EncoderResolution \in 0 .. EncoderResolution - 1
        /\ f.wrapped = EncoderResolution * turns + (f.wrapped % EncoderResolution)
    BY <1>1, Division, Zenon
  <2> HIDE DEF turns
  <2>2. EncoderResolution * turns \in Int
    BY <1>1, <2>1
  <2>3. QED
    BY <1>1, <2>1, <2>2
<1>3. g = [f EXCEPT !.revolutions = f.revolutions + turns,
                    !.wrapped = f.wrapped - EncoderResolution * turns]
  BY <1>1, Zenon DEF Encoder!wrapValue, Encoder!Interval
<1> HIDE DEF turns, g
<1>4. /\ g = [wrapped |-> f.wrapped - EncoderResolution * turns,
              revolutions |-> f.revolutions + turns,
              lower |-> 0, upper |-> EncoderResolution]
  BY <1>1, <1>3, Zenon
<1>5. g \in Circle
  BY <1>1, <1>2, <1>4 DEF Circle
<1>6. EncoderResolution * (f.revolutions + turns)
          = EncoderResolution * f.revolutions + EncoderResolution * turns
  BY <1>1, <1>2, Distributes
<1>7. EncoderResolution * f.revolutions \in Int /\ EncoderResolution * turns \in Int
  BY <1>1, <1>2
<1>8. Value(g) = f.wrapped - EncoderResolution * turns + EncoderResolution * (f.revolutions + turns)
  BY <1>4 DEF Value
<1>9. QED
  BY <1>1, <1>5, <1>6, <1>7, <1>8 DEF g, Value

(* The fields of a number on the circle. *)
LEMMA CircleNumbers ==
    ASSUME NEW f \in Circle
    PROVE  /\ f.wrapped \in Int /\ f.wrapped \in 0 .. EncoderResolution - 1
           /\ f.revolutions \in Int /\ f.lower = 0 /\ f.upper = EncoderResolution
           /\ EncoderResolution * f.revolutions \in Int /\ Value(f) \in Int
           /\ f.wrapped = Value(f) - EncoderResolution * f.revolutions
           /\ f = [wrapped |-> f.wrapped, revolutions |-> f.revolutions,
                   lower |-> 0, upper |-> EncoderResolution]
<1>1. /\ EncoderResolution \in Nat
      /\ f.wrapped \in 0 .. EncoderResolution - 1 /\ f.revolutions \in Int
      /\ f.lower = 0 /\ f.upper = EncoderResolution
      /\ f = [wrapped |-> f.wrapped, revolutions |-> f.revolutions,
              lower |-> 0, upper |-> EncoderResolution]
  BY EncoderAssumption DEF Circle
<1>2. EncoderResolution * f.revolutions \in Int
  BY <1>1
<1>3. QED
  BY <1>1, <1>2 DEF Value

(* The sum of two numbers stands for the sum of what they stand for. *)
LEMMA PlusAdds ==
    ASSUME NEW f \in Circle, NEW g \in Circle
    PROVE  Encoder!Plus(f, g) \in Circle /\ Value(Encoder!Plus(f, g)) = Value(f) + Value(g)
<1> DEFINE sum == Encoder!wrapValue([f EXCEPT !.wrapped = f.wrapped + g.wrapped])
           whole == [sum EXCEPT !.revolutions = sum.revolutions + g.revolutions]
<1>1. EncoderResolution \in Nat
  BY EncoderAssumption
<1>2. /\ [f EXCEPT !.wrapped = f.wrapped + g.wrapped]
             = [wrapped |-> f.wrapped + g.wrapped, revolutions |-> f.revolutions,
                lower |-> 0, upper |-> EncoderResolution]
      /\ f.wrapped + g.wrapped \in Int /\ f.revolutions \in Int
  BY CircleNumbers
<1>3. sum \in Circle /\ Value(sum) = f.wrapped + g.wrapped + EncoderResolution * f.revolutions
  BY <1>2, WrapKeepsValue DEF Value
<1> HIDE DEF sum
<1>4. whole = [wrapped |-> sum.wrapped, revolutions |-> sum.revolutions + g.revolutions,
               lower |-> 0, upper |-> EncoderResolution]
  BY <1>3, CircleNumbers
<1>5. EncoderResolution * (sum.revolutions + g.revolutions)
          = EncoderResolution * sum.revolutions + EncoderResolution * g.revolutions
  BY <1>1, <1>3, CircleNumbers, Distributes
<1> HIDE DEF whole
<1>6. whole \in Circle /\ Value(whole) = Value(sum) + EncoderResolution * g.revolutions
  BY <1>1, <1>3, <1>4, <1>5, CircleNumbers DEF Circle, Value
<1>7. Value(whole) = Value(f) + Value(g)
  BY <1>1, <1>3, <1>6, CircleNumbers DEF Value
<1>8. Encoder!Plus(f, g) = whole
  BY DEF Encoder!Plus, whole, sum
<1>9. QED
  BY <1>6, <1>7, <1>8

(* And their difference for the difference. *)
LEMMA MinusSubtracts ==
    ASSUME NEW f \in Circle, NEW g \in Circle
    PROVE  Encoder!Minus(f, g) \in Circle /\ Value(Encoder!Minus(f, g)) = Value(f) - Value(g)
<1> DEFINE difference == Encoder!wrapValue([f EXCEPT !.wrapped = f.wrapped - g.wrapped])
           whole == [difference EXCEPT !.revolutions = difference.revolutions - g.revolutions]
<1>1. EncoderResolution \in Nat
  BY EncoderAssumption
<1>2. /\ [f EXCEPT !.wrapped = f.wrapped - g.wrapped]
             = [wrapped |-> f.wrapped - g.wrapped, revolutions |-> f.revolutions,
                lower |-> 0, upper |-> EncoderResolution]
      /\ f.wrapped - g.wrapped \in Int /\ f.revolutions \in Int
  BY CircleNumbers
<1>3. /\ difference \in Circle
      /\ Value(difference) = (f.wrapped - g.wrapped) + EncoderResolution * f.revolutions
  BY <1>2, WrapKeepsValue DEF Value
<1> HIDE DEF difference
<1>4. whole = [wrapped |-> difference.wrapped,
               revolutions |-> difference.revolutions - g.revolutions,
               lower |-> 0, upper |-> EncoderResolution]
  BY <1>3, CircleNumbers
<1>5. EncoderResolution * (difference.revolutions - g.revolutions)
          = EncoderResolution * difference.revolutions - EncoderResolution * g.revolutions
  BY <1>1, <1>3, CircleNumbers, Distributes
<1> HIDE DEF whole
<1>6. whole \in Circle /\ Value(whole) = Value(difference) - EncoderResolution * g.revolutions
  BY <1>1, <1>3, <1>4, <1>5, CircleNumbers DEF Circle, Value
<1>7. Value(whole) = Value(f) - Value(g)
  BY <1>1, <1>3, <1>6, CircleNumbers DEF Value
<1>8. Encoder!Minus(f, g) = whole
  BY DEF Encoder!Minus, whole, difference
<1>9. QED
  BY <1>6, <1>7, <1>8

(* A reading that is put on the circle stands for itself. *)
LEMMA OnScaleKeeps ==
    ASSUME NEW ticks \in Int
    PROVE  Encoder!OnScale(ticks) \in Circle /\ Value(Encoder!OnScale(ticks)) = ticks
<1>1. EncoderResolution \in Nat /\ EncoderResolution * 0 = 0 /\ ticks + 0 = ticks
  BY EncoderAssumption
<1>2. QED
  BY <1>1, WrapKeepsValue DEF Encoder!OnScale, Encoder!Wrapped, Value

(* A plain number that is added is added to what the number stands for. *)
LEMMA PlusFloatAdds ==
    ASSUME NEW f \in Circle, NEW ticks \in Int
    PROVE  /\ Encoder!PlusFloat(f, ticks) \in Circle
           /\ Value(Encoder!PlusFloat(f, ticks)) = Value(f) + ticks
<1>1. Encoder!PlusFloat(f, ticks) = Encoder!Plus(f, Encoder!OnScale(ticks))
  BY CircleNumbers DEF Encoder!PlusFloat, Encoder!withSameBounds, Encoder!OnScale
<1>2. QED
  BY <1>1, OnScaleKeeps, PlusAdds

(* The number that is set to 0 stands for 0. *)
LEMMA SetUnwrapped ==
    ASSUME NEW f \in Circle
    PROVE  /\ Encoder!setUnwrappedValue(f, 0) \in Circle
           /\ Value(Encoder!setUnwrappedValue(f, 0)) = 0
<1> DEFINE zero == [wrapped |-> 0, revolutions |-> 0, lower |-> 0, upper |-> EncoderResolution]
<1>1. f = [wrapped |-> f.wrapped, revolutions |-> f.revolutions,
           lower |-> 0, upper |-> EncoderResolution]
  BY CircleNumbers
<1>2. [f EXCEPT !.wrapped = 0, !.revolutions = 0] = zero
  <2> DEFINE g == [f EXCEPT !.wrapped = 0]
  <2>1. g = [wrapped |-> 0, revolutions |-> f.revolutions, lower |-> 0,
             upper |-> EncoderResolution]
    BY CircleNumbers
  <2> HIDE DEF g
  <2>2. [g EXCEPT !.revolutions = 0] = zero
    BY <2>1
  <2>3. QED
    BY <2>2 DEF g
<1>3. EncoderResolution \in Nat /\ EncoderResolution * 0 = 0 /\ 0 + 0 = 0
  BY EncoderAssumption
<1>4. Encoder!wrapValue(zero) \in Circle /\ Value(Encoder!wrapValue(zero)) = Value(zero)
  BY WrapKeepsValue
<1>5. Value(zero) = 0
  BY <1>3 DEF Value
<1>6. Encoder!setUnwrappedValue(f, 0) = Encoder!wrapValue(zero)
  BY <1>2 DEF Encoder!setUnwrappedValue
<1>7. QED
  BY <1>4, <1>5, <1>6

(* Of two numbers on the circle, the shorter way from one to the other. *)
LEMMA ShorterWay ==
    ASSUME NEW f \in Circle, NEW g \in Circle, NEW d \in Int, NEW k \in Int,
           -EncoderResolution < 2 * d, 2 * d < EncoderResolution,
           g.wrapped = f.wrapped + d + EncoderResolution * k
    PROVE  Encoder!minDifference(f, g) = d
<1> DEFINE between == g.wrapped - f.wrapped
           around == IF between < 0 THEN between + EncoderResolution
                     ELSE between - EncoderResolution
<1>1. EncoderResolution \in Nat \ {0}
  BY EncoderAssumption
<1>2. /\ between \in Int /\ -EncoderResolution < between /\ between < EncoderResolution
      /\ between = d + EncoderResolution * k /\ EncoderResolution * k \in Int
  BY <1>1, CircleNumbers
<1>3. Encoder!minDifference(f, g) =
          IF (IF between < 0 THEN -between ELSE between) < (IF around < 0 THEN -around ELSE around)
          THEN between ELSE around
  BY <1>1, CircleNumbers DEF Encoder!minDifference, Encoder!Interval, Encoder!Abs
<1> HIDE DEF between
<1>4. k \in {-1, 0, 1}
  <2>1. -(2 * EncoderResolution) < EncoderResolution * k
        /\ EncoderResolution * k < 2 * EncoderResolution
    BY <1>1, <1>2
  <2>2. QED
    BY <1>1, <2>1, FewTurns
<1>5. EncoderResolution * k \in {-EncoderResolution, 0, EncoderResolution}
  BY <1>1, <1>4
<1>6. QED
  BY <1>1, <1>2, <1>3, <1>5

-----------------------------------------------------------------------------
(* Where the shaft is, as the encoder counts. *)
Counted(ticks) ==
    IF inverted THEN EncoderResolution - 1 - (ticks + IF rev THEN 1 ELSE 0)
    ELSE ticks + IF rev THEN 1 ELSE 0

EncoderTyped ==
    /\ encoder \in Circle /\ pastPosition \in Circle /\ encoderHomePosition \in Circle
    /\ inverted \in BOOLEAN /\ rev \in BOOLEAN
    /\ updated \in BOOLEAN /\ aligned \in BOOLEAN /\ leftWord \in BOOLEAN
    /\ shaft \in Int /\ seenShaft \in Int /\ pastShaft \in Int /\ expected \in Int
    /\ -EncoderResolution < 2 * (shaft - seenShaft) /\ 2 * (shaft - seenShaft) < EncoderResolution

(* The encoder is a whole number of turns away from where the shaft was seen. *)
WholeTurns ==
    \E k \in Int :
        Value(encoder) + Value(encoderHomePosition) = Counted(seenShaft) + EncoderResolution * k

EncoderFollows ==
    ~aligned /\ ~leftWord =>
        /\ Value(encoder) = expected
        /\ updated => WholeTurns
        /\ updated /\ pastShaft # seenShaft =>
               Value(encoder) - Value(pastPosition) = Counted(seenShaft) - Counted(pastShaft)

EncoderInv == EncoderTyped /\ EncoderFollows

(* An encoder is constructed at 0, with its shaft anywhere. *)
LEMMA EncoderInit == Encoder!Init => EncoderInv
<1> SUFFICES ASSUME Encoder!Init PROVE EncoderInv
  OBVIOUS
<1>1. PICK home \in HomePositions : encoderHomePosition = Encoder!OnScale(home)
  BY DEF Encoder!Init
<1>2. home \in Int /\ EncoderResolution \in Nat \ {0}
  BY EncoderAssumption
<1>3. encoder \in Circle /\ pastPosition \in Circle /\ encoderHomePosition \in Circle
  <2>1. encoder = Encoder!OnScale(0) /\ pastPosition = Encoder!OnScale(0)
    BY DEF Encoder!Init
  <2>2. QED
    BY <1>1, <1>2, <2>1, OnScaleKeeps
<1>4. EncoderTyped
  <2>1. shaft = 0 /\ seenShaft = 0 /\ pastShaft = 0 /\ expected = 0
    BY DEF Encoder!Init
  <2>2. /\ inverted \in BOOLEAN /\ rev \in BOOLEAN
        /\ updated \in BOOLEAN /\ aligned \in BOOLEAN /\ leftWord \in BOOLEAN
    BY Zenon DEF Encoder!Init
  <2>3. -EncoderResolution < 2 * (shaft - seenShaft)
        /\ 2 * (shaft - seenShaft) < EncoderResolution
    BY <1>2, <2>1
  <2>4. QED
    BY <1>3, <2>1, <2>2, <2>3 DEF EncoderTyped
<1>5. EncoderFollows
  BY OnScaleKeeps DEF Encoder!Init, EncoderFollows
<1>6. QED
  BY <1>4, <1>5 DEF EncoderInv

(* The counts of two places of the shaft are as far apart as the places. *)
LEMMA CountedIsInt ==
    ASSUME EncoderTyped, NEW ticks \in Int, NEW from \in Int
    PROVE  /\ Counted(ticks) \in Int /\ Counted(from) \in Int
           /\ Counted(ticks) - Counted(from) = IF inverted THEN from - ticks ELSE ticks - from
BY EncoderAssumption DEF EncoderTyped, Counted

Reading == IF rev THEN Encoder!RevReading ELSE Encoder!DjiReading

(* A reading is where the shaft is, but for whole turns. *)
LEMMA ReadingOfShaft ==
    ASSUME EncoderTyped
    PROVE  /\ Reading \in 0 .. EncoderResolution
           /\ rev => Reading \in 1 .. EncoderResolution
           /\ ~(rev /\ shaft \notin 0 .. RevWord - 1) =>
                  \E k \in Int : Reading = (shaft + IF rev THEN 1 ELSE 0) + EncoderResolution * k
<1>1. /\ EncoderResolution \in Nat \ {0} /\ RevWord \in Nat \ {0} /\ shaft \in Int
      /\ rev \in BOOLEAN
  BY EncoderAssumption DEF EncoderTyped
<1>2. /\ shaft % EncoderResolution \in 0 .. EncoderResolution - 1
      /\ shaft \div EncoderResolution \in Int
      /\ shaft = EncoderResolution * (shaft \div EncoderResolution) + (shaft % EncoderResolution)
  BY <1>1, Division
<1>3. EncoderResolution * (-(shaft \div EncoderResolution))
          = -(EncoderResolution * (shaft \div EncoderResolution))
      /\ EncoderResolution * (shaft \div EncoderResolution) \in Int
  BY <1>1, <1>2
<1>4. shaft % EncoderResolution = shaft + EncoderResolution * (-(shaft \div EncoderResolution))
  BY <1>1, <1>2, <1>3
<1>5. CASE ~rev
  <2>1. Reading = shaft % EncoderResolution
    BY <1>5 DEF Reading, Encoder!DjiReading
  <2>2. -(shaft \div EncoderResolution) \in Int
    BY <1>2
  <2>3. Reading = (shaft + 0) + EncoderResolution * (-(shaft \div EncoderResolution))
    BY <1>1, <1>4, <2>1
  <2>4. \E k \in Int : Reading = (shaft + 0) + EncoderResolution * k
    BY <2>2, <2>3
  <2>5. Reading \in 0 .. EncoderResolution
    BY <1>1, <1>2, <2>1
  <2>6. QED
    BY <1>5, <2>4, <2>5
<1>6. CASE rev
  <2>1. Reading = 1 + ((shaft % RevWord) % EncoderResolution)
    BY <1>6 DEF Reading, Encoder!RevReading
  <2>2. shaft % RevWord \in Int
    BY <1>1, Division
  <2>3. (shaft % RevWord) % EncoderResolution \in 0 .. EncoderResolution - 1
    BY <1>1, <2>2, Division
  <2>4. ASSUME shaft \in 0 .. RevWord - 1
        PROVE  \E k \in Int : Reading = (shaft + 1) + EncoderResolution * k
    <3>1. shaft % RevWord = shaft
      BY <1>1, <2>4
    <3>2. -(shaft \div EncoderResolution) \in Int
      BY <1>2
    <3>3. Reading = (shaft + 1) + EncoderResolution * (-(shaft \div EncoderResolution))
      BY <1>1, <1>2, <1>3, <1>4, <2>1, <3>1
    <3>4. QED
      BY <3>2, <3>3
  <2>5. QED
    BY <1>1, <1>6, <2>1, <2>3, <2>4
<1>7. QED
  BY <1>1, <1>5, <1>6

(* RelativeToHome() is off by whole turns only. *)
LEMMA Relative ==
    ASSUME EncoderTyped, NEW actual \in Int
    PROVE  /\ Encoder!RelativeToHome(actual) \in Int
           /\ \E k \in Int : Encoder!RelativeToHome(actual) =
                  ((IF inverted THEN EncoderResolution - 1 - actual ELSE actual)
                      - Value(encoderHomePosition)) + EncoderResolution * k
<1> DEFINE oriented == IF inverted THEN EncoderResolution - 1 - actual ELSE actual
           home == encoderHomePosition
           relative == oriented - home.wrapped
<1>1. /\ EncoderResolution \in Nat /\ oriented \in Int
      /\ home.wrapped \in Int /\ home.revolutions \in Int
      /\ EncoderResolution * home.revolutions \in Int
      /\ home.wrapped = Value(home) - EncoderResolution * home.revolutions
      /\ Value(home) \in Int
  BY EncoderAssumption, CircleNumbers DEF EncoderTyped
<1>2. Encoder!RelativeToHome(actual) =
          IF relative < 0 THEN EncoderResolution + relative ELSE relative
  BY DEF Encoder!RelativeToHome
<1>3. EncoderResolution * (home.revolutions + 1)
          = EncoderResolution * home.revolutions + EncoderResolution
  BY <1>1
<1> HIDE DEF oriented
<1>4. relative = (oriented - Value(home)) + EncoderResolution * home.revolutions
  BY <1>1
<1>5. home.revolutions + 1 \in Int
  BY <1>1
<1> HIDE DEF home
<1>6. CASE relative < 0
  <2>1. Encoder!RelativeToHome(actual)
            = (oriented - Value(home)) + EncoderResolution * (home.revolutions + 1)
    BY <1>1, <1>2, <1>3, <1>4, <1>6
  <2>2. Encoder!RelativeToHome(actual) \in Int
    BY <1>1, <1>2, <1>6
  <2> HIDE DEF relative
  <2>3. QED
    BY <1>5, <2>1, <2>2 DEF oriented, home
<1>7. CASE ~(relative < 0)
  <2>1. Encoder!RelativeToHome(actual)
            = (oriented - Value(home)) + EncoderResolution * home.revolutions
    BY <1>2, <1>4, <1>7
  <2>2. Encoder!RelativeToHome(actual) \in Int
    BY <1>1, <1>2, <1>7
  <2> HIDE DEF relative
  <2>3. QED
    BY <1>1, <2>1, <2>2, Zenon DEF oriented, home
<1>8. QED
  BY <1>6, <1>7

(* The shaft turns, and the encoder has not seen it yet. *)
LEMMA EncoderTurn ==
    ASSUME EncoderInv, Encoder!Turn
    PROVE  EncoderInv'
<1>1. PICK ticks \in {-1, 1} :
          /\ 2 * (shaft + ticks - seenShaft) \in -EncoderResolution + 1 .. EncoderResolution - 1
          /\ shaft' = shaft + ticks
          /\ UNCHANGED <<encoder, pastPosition, encoderHomePosition, inverted, updated,
                         seenShaft, pastShaft, expected, aligned, rev, leftWord>>
  BY DEF Encoder!Turn
<1>2. shaft \in Int /\ seenShaft \in Int /\ EncoderResolution \in Nat
  BY EncoderAssumption DEF EncoderInv, EncoderTyped
<1>3. /\ shaft' \in Int /\ -EncoderResolution < 2 * (shaft' - seenShaft)
      /\ 2 * (shaft' - seenShaft) < EncoderResolution
  BY <1>1, <1>2
<1>4. EncoderTyped'
  BY <1>1, <1>3 DEF EncoderInv, EncoderTyped
<1>5. EncoderFollows'
  BY <1>1 DEF EncoderInv, EncoderFollows, WholeTurns, Counted
<1>6. QED
  BY <1>4, <1>5 DEF EncoderInv

(* What a message that comes after another one makes of the encoder. *)
LEMMA FollowedAdds ==
    ASSUME EncoderInv, updated, ~aligned, ~leftWord, ~(rev /\ shaft \notin 0 .. RevWord - 1)
    PROVE  Encoder!minDifference(encoder, Encoder!OnScale(Encoder!RelativeToHome(Reading)))
               = Counted(shaft) - Counted(seenShaft)
<1> DEFINE wrapped == Encoder!RelativeToHome(Reading)
           scaled == Encoder!OnScale(wrapped)
           home == encoderHomePosition
           d == Counted(shaft) - Counted(seenShaft)
<1>1. EncoderTyped /\ EncoderResolution \in Nat \ {0} /\ shaft \in Int /\ seenShaft \in Int
  BY EncoderAssumption DEF EncoderInv, EncoderTyped
<1>2. PICK read \in Int : Reading = (shaft + IF rev THEN 1 ELSE 0) + EncoderResolution * read
  BY <1>1, ReadingOfShaft
<1>3. Reading \in Int
  BY <1>1, ReadingOfShaft
<1>4. wrapped \in Int /\ \E k \in Int : wrapped =
          ((IF inverted THEN EncoderResolution - 1 - Reading ELSE Reading) - Value(home))
              + EncoderResolution * k
  BY <1>1, <1>3, Relative, Zenon
<1>5. PICK k \in Int : wrapped =
          ((IF inverted THEN EncoderResolution - 1 - Reading ELSE Reading) - Value(home))
              + EncoderResolution * k
  BY <1>4
<1>6. PICK turns \in Int : Value(encoder) + Value(home)
                               = Counted(seenShaft) + EncoderResolution * turns
  BY DEF EncoderInv, EncoderFollows, WholeTurns
<1>7. scaled \in Circle /\ Value(scaled) = wrapped
  BY <1>4, OnScaleKeeps
<1>8. encoder \in Circle /\ home \in Circle
  BY DEF EncoderInv, EncoderTyped
<1>9. /\ Counted(shaft) \in Int /\ Counted(seenShaft) \in Int /\ d \in Int
      /\ d = IF inverted THEN seenShaft - shaft ELSE shaft - seenShaft
  BY <1>1, CountedIsInt
<1>10. -EncoderResolution < 2 * d /\ 2 * d < EncoderResolution
  BY <1>1, <1>9 DEF EncoderTyped
<1> HIDE DEF wrapped, scaled, home, d
<1>11. PICK m \in Int : (IF inverted THEN EncoderResolution - 1 - Reading ELSE Reading)
                            = Counted(shaft) + EncoderResolution * m
  <2>1. EncoderResolution * read \in Int /\ EncoderResolution * (-read) = -(EncoderResolution * read)
    BY <1>1
  <2>2. (IF inverted THEN EncoderResolution - 1 - Reading ELSE Reading)
            = Counted(shaft) + EncoderResolution * (IF inverted THEN -read ELSE read)
    BY <1>1, <1>2, <2>1 DEF Counted
  <2>3. (IF inverted THEN -read ELSE read) \in Int
    OBVIOUS
  <2>4. QED
    BY <2>2, <2>3
<1> DEFINE e == encoder.revolutions
           s == scaled.revolutions
           n == ((m + k) + e) - (turns + s)
<1>12. /\ e \in Int /\ s \in Int
       /\ encoder.wrapped = Value(encoder) - EncoderResolution * e
       /\ scaled.wrapped = wrapped - EncoderResolution * s
       /\ Value(encoder) \in Int /\ Value(home) \in Int
  BY <1>7, <1>8, CircleNumbers
<1> HIDE DEF e, s
<1>13. n \in Int
  BY <1>12
<1>14. EncoderResolution * n
           = ((EncoderResolution * m + EncoderResolution * k) + EncoderResolution * e)
                 - (EncoderResolution * turns + EncoderResolution * s)
  <2>1. EncoderResolution * (m + k) = EncoderResolution * m + EncoderResolution * k
    BY <1>1, Distributes
  <2>2. EncoderResolution * ((m + k) + e)
            = EncoderResolution * (m + k) + EncoderResolution * e
    BY <1>1, <1>12, Distributes
  <2>3. EncoderResolution * (turns + s) = EncoderResolution * turns + EncoderResolution * s
    BY <1>1, <1>12, Distributes
  <2>4. EncoderResolution * n
            = EncoderResolution * ((m + k) + e) - EncoderResolution * (turns + s)
    BY <1>1, <1>12, Distributes
  <2>5. QED
    BY <2>1, <2>2, <2>3, <2>4
<1>15. /\ EncoderResolution * m \in Int /\ EncoderResolution * k \in Int
       /\ EncoderResolution * turns \in Int /\ EncoderResolution * e \in Int
       /\ EncoderResolution * s \in Int
  BY <1>1, <1>12
<1>16. d = Counted(shaft) - Counted(seenShaft)
  BY DEF d
<1> HIDE DEF n
<1>17. scaled.wrapped = encoder.wrapped + d + EncoderResolution * n
  <2>1. wrapped = ((Counted(shaft) + EncoderResolution * m) - Value(home)) + EncoderResolution * k
    BY <1>5, <1>11
  <2>2. Value(encoder) \in Int /\ Value(home) \in Int /\ wrapped \in Int
    BY <1>4, <1>12
  <2> HIDE DEF wrapped
  <2>3. QED
    BY <1>6, <1>9, <1>12, <1>14, <1>15, <1>16, <2>1, <2>2
<1>18. Encoder!minDifference(encoder, scaled) = d
  BY <1>7, <1>8, <1>9, <1>10, <1>13, <1>17, ShorterWay
<1>19. QED
  BY <1>18 DEF scaled, wrapped, d

(* The shorter way between two numbers is a whole number of ticks. *)
LEMMA MinDifferenceIsInt ==
    ASSUME NEW f \in Circle, NEW g \in Circle
    PROVE  Encoder!minDifference(f, g) \in Int
BY EncoderAssumption, CircleNumbers
   DEF Encoder!minDifference, Encoder!Interval, Encoder!Abs

(* A message, the first one or one after another. *)
LEMMA EncoderMessage ==
    ASSUME EncoderInv, Encoder!processMessage
    PROVE  EncoderInv'
<1> DEFINE wrapped == Encoder!RelativeToHome(Reading)
           scaled == Encoder!OnScale(wrapped)
           d == Encoder!minDifference(encoder, scaled)
<1>1. /\ encoder' = IF updated THEN Encoder!PlusFloat(encoder, d) ELSE scaled
      /\ expected' = IF updated THEN expected + Encoder!Turned ELSE wrapped
      /\ updated' = TRUE
      /\ pastPosition' = encoder
      /\ seenShaft' = shaft
      /\ pastShaft' = IF updated THEN seenShaft ELSE shaft
      /\ leftWord' = (leftWord \/ (rev /\ shaft \notin 0 .. RevWord - 1))
      /\ UNCHANGED <<encoderHomePosition, inverted, shaft, aligned, rev>>
  BY DEF Encoder!processMessage, Encoder!updateEncoderValue, Encoder!Followed, Reading
<1>2. EncoderTyped /\ EncoderResolution \in Nat \ {0} /\ shaft \in Int /\ seenShaft \in Int
      /\ encoder \in Circle /\ encoderHomePosition \in Circle /\ expected \in Int
  BY EncoderAssumption DEF EncoderInv, EncoderTyped
<1>3. Reading \in Int
  BY <1>2, ReadingOfShaft
<1>4. wrapped \in Int
  BY <1>2, <1>3, Relative
<1>5. scaled \in Circle /\ Value(scaled) = wrapped
  BY <1>4, OnScaleKeeps
<1>6. d \in Int
  BY <1>2, <1>5, MinDifferenceIsInt
<1>7. /\ Encoder!PlusFloat(encoder, d) \in Circle
      /\ Value(Encoder!PlusFloat(encoder, d)) = Value(encoder) + d
  BY <1>2, <1>6, PlusFloatAdds
<1>8. ~aligned' /\ ~leftWord' =>
          ~aligned /\ ~leftWord /\ ~(rev /\ shaft \notin 0 .. RevWord - 1)
  BY <1>1, Zenon
<1>9. ~aligned' /\ ~leftWord' /\ updated => d = Counted(shaft) - Counted(seenShaft)
  BY <1>8, FollowedAdds
<1>10. /\ Counted(shaft) \in Int /\ Counted(seenShaft) \in Int
       /\ Encoder!Turned = Counted(shaft) - Counted(seenShaft)
  BY <1>2, CountedIsInt DEF Encoder!Turned
<1>11. Value(encoder) \in Int /\ Value(encoderHomePosition) \in Int
  BY <1>2, CircleNumbers
<1>12. EncoderTyped'
  <2>1. encoder' \in Circle /\ pastPosition' \in Circle /\ encoderHomePosition' \in Circle
    BY <1>1, <1>2, <1>5, <1>7
  <2>2. /\ inverted' \in BOOLEAN /\ rev' \in BOOLEAN
        /\ updated' \in BOOLEAN /\ aligned' \in BOOLEAN /\ leftWord' \in BOOLEAN
    BY <1>1, <1>2, Zenon DEF EncoderTyped
  <2>3. /\ shaft' \in Int /\ seenShaft' \in Int /\ pastShaft' \in Int /\ expected' \in Int
        /\ -EncoderResolution < 2 * (shaft' - seenShaft')
        /\ 2 * (shaft' - seenShaft') < EncoderResolution
    BY <1>1, <1>2, <1>4, <1>10
  <2>4. QED
    BY <2>1, <2>2, <2>3 DEF EncoderTyped
<1>13. ASSUME ~aligned', ~leftWord'
       PROVE  Value(encoder') = expected'
  <2>1. CASE updated
    <3>1. Value(encoder) = expected
      BY <1>8, <1>13 DEF EncoderInv, EncoderFollows
    <3>2. QED
      BY <1>1, <1>7, <1>9, <1>10, <1>13, <2>1, <3>1
  <2>2. CASE ~updated
    BY <1>1, <1>5, <2>2
  <2>3. QED
    BY <2>1, <2>2
<1>14. ASSUME ~aligned', ~leftWord'
       PROVE  \E k \in Int : Value(encoder') + Value(encoderHomePosition)
                                 = Counted(shaft) + EncoderResolution * k
  <2>1. CASE updated
    <3>1. PICK k \in Int : Value(encoder) + Value(encoderHomePosition)
                               = Counted(seenShaft) + EncoderResolution * k
      BY <1>8, <1>14, <2>1 DEF EncoderInv, EncoderFollows, WholeTurns
    <3>2. EncoderResolution * k \in Int
      BY <1>2
    <3>3. Value(encoder') = Value(encoder) + (Counted(shaft) - Counted(seenShaft))
      BY <1>1, <1>7, <1>9, <1>14, <2>1
    <3>4. Value(encoder') + Value(encoderHomePosition) = Counted(shaft) + EncoderResolution * k
      BY <1>10, <1>11, <3>1, <3>2, <3>3
    <3>5. QED
      BY <3>4
  <2>2. CASE ~updated
    <3>1. Value(encoder') = wrapped
      BY <1>1, <1>5, <2>2
    <3>2. PICK j \in Int : wrapped =
              ((IF inverted THEN EncoderResolution - 1 - Reading ELSE Reading)
                  - Value(encoderHomePosition)) + EncoderResolution * j
      BY <1>2, <1>3, Relative, Zenon
    <3>3. PICK i \in Int : Reading = (shaft + IF rev THEN 1 ELSE 0) + EncoderResolution * i
      BY <1>2, <1>8, <1>14, ReadingOfShaft
    <3> DEFINE n == (IF inverted THEN -i ELSE i) + j
    <3> HIDE DEF wrapped
    <3>4. /\ EncoderResolution * i \in Int /\ EncoderResolution * (-i) = -(EncoderResolution * i)
          /\ EncoderResolution * j \in Int
      BY <1>2
    <3>5. EncoderResolution * n
              = EncoderResolution * (IF inverted THEN -i ELSE i) + EncoderResolution * j
      BY <1>2, Distributes
    <3>6. n \in Int
      OBVIOUS
    <3>7. (IF inverted THEN EncoderResolution - 1 - Reading ELSE Reading)
              = Counted(shaft) + EncoderResolution * (IF inverted THEN -i ELSE i)
      BY <1>2, <3>3, <3>4 DEF Counted
    <3>8. EncoderResolution * (IF inverted THEN -i ELSE i) \in Int
      BY <3>4
    <3> HIDE DEF n
    <3>9. wrapped + Value(encoderHomePosition) = Counted(shaft) + EncoderResolution * n
      <4>1. wrapped = ((Counted(shaft) + EncoderResolution * (IF inverted THEN -i ELSE i))
                          - Value(encoderHomePosition)) + EncoderResolution * j
        BY <3>2, <3>7
      <4>2. QED
        BY <1>10, <1>11, <3>4, <3>5, <3>8, <4>1
    <3>10. QED
      BY <3>1, <3>6, <3>9
  <2>3. QED
    BY <2>1, <2>2
<1>15. ASSUME ~aligned', ~leftWord', pastShaft' # seenShaft'
       PROVE  Value(encoder') - Value(pastPosition') = Counted(shaft) - Counted(pastShaft')
  <2>1. updated /\ pastShaft' = seenShaft
    BY <1>1, <1>15
  <2>2. Value(encoder') = Value(encoder) + (Counted(shaft) - Counted(seenShaft))
    BY <1>1, <1>7, <1>9, <1>15, <2>1
  <2>3. QED
    BY <1>1, <1>10, <1>11, <2>1, <2>2
<1> HIDE DEF wrapped, scaled, d
<1>16. EncoderFollows'
  <2> SUFFICES ASSUME ~aligned', ~leftWord'
               PROVE  /\ Value(encoder') = expected'
                      /\ WholeTurns'
                      /\ pastShaft' # seenShaft' =>
                             Value(encoder') - Value(pastPosition')
                                 = Counted(seenShaft)' - Counted(pastShaft)'
    BY DEF EncoderFollows, Value
  <2>1. Counted(seenShaft)' = Counted(shaft)
    BY <1>1 DEF Counted
  <2>2. Counted(pastShaft)' = Counted(pastShaft')
    BY <1>1 DEF Counted
  <2>3. WholeTurns'
    <3>1. PICK k \in Int : Value(encoder') + Value(encoderHomePosition)
                               = Counted(shaft) + EncoderResolution * k
      BY <1>14
    <3>2. Value(encoder)' + Value(encoderHomePosition)'
              = Counted(seenShaft)' + EncoderResolution * k
      BY <1>1, <2>1, <3>1 DEF Value
    <3>3. QED
      BY <3>2 DEF WholeTurns
  <2>4. QED
    BY <1>13, <1>15, <2>1, <2>2, <2>3
<1>17. QED
  BY <1>12, <1>16 DEF EncoderInv

(* resetEncoderValue(): home is where the shaft was seen last. *)
LEMMA EncoderReset ==
    ASSUME EncoderInv, Encoder!resetEncoderValue
    PROVE  EncoderInv'
<1>1. /\ encoder' = Encoder!setUnwrappedValue(encoder, 0)
      /\ encoderHomePosition' = Encoder!Plus(encoder, encoderHomePosition)
      /\ pastPosition' = Encoder!Minus(pastPosition, encoder)
      /\ expected' = 0
      /\ UNCHANGED <<inverted, updated, shaft, seenShaft, pastShaft, aligned, rev, leftWord>>
  BY DEF Encoder!resetEncoderValue, Encoder!HomeReset
<1>2. encoder \in Circle /\ pastPosition \in Circle /\ encoderHomePosition \in Circle
  BY DEF EncoderInv, EncoderTyped
<1>3. /\ encoder' \in Circle /\ Value(encoder') = 0
      /\ encoderHomePosition' \in Circle
      /\ Value(encoderHomePosition') = Value(encoder) + Value(encoderHomePosition)
      /\ pastPosition' \in Circle /\ Value(pastPosition') = Value(pastPosition) - Value(encoder)
  BY <1>1, <1>2, SetUnwrapped, PlusAdds, MinusSubtracts
<1>4. /\ Value(encoder) \in Int /\ Value(encoderHomePosition) \in Int
      /\ Value(pastPosition) \in Int
  BY <1>2, CircleNumbers
<1>5. EncoderTyped'
  BY <1>1, <1>3 DEF EncoderInv, EncoderTyped
<1>6. /\ Value(encoder') + Value(encoderHomePosition')
             = Value(encoder) + Value(encoderHomePosition)
      /\ Value(encoder') - Value(pastPosition') = Value(encoder) - Value(pastPosition)
  BY <1>3, <1>4
<1>7. WholeTurns => WholeTurns'
  BY <1>1, <1>6 DEF WholeTurns, Counted, Value
<1>8. EncoderFollows'
  <2> SUFFICES ASSUME ~aligned', ~leftWord'
               PROVE  /\ Value(encoder') = expected'
                      /\ updated' => WholeTurns'
                      /\ updated' /\ pastShaft' # seenShaft' =>
                             Value(encoder') - Value(pastPosition')
                                 = Counted(seenShaft)' - Counted(pastShaft)'
    BY DEF EncoderFollows, Value
  <2>1. Value(encoder') = expected'
    BY <1>1, <1>3
  <2>2. ~aligned /\ ~leftWord /\ updated' = updated
    BY <1>1
  <2>3. updated' => WholeTurns'
    BY <1>7, <2>2 DEF EncoderInv, EncoderFollows
  <2>4. updated' /\ pastShaft' # seenShaft' =>
            Value(encoder) - Value(pastPosition) = Counted(seenShaft) - Counted(pastShaft)
    BY <1>1, <2>2 DEF EncoderInv, EncoderFollows
  <2>5. Counted(seenShaft)' = Counted(seenShaft) /\ Counted(pastShaft)' = Counted(pastShaft)
    BY <1>1 DEF Counted
  <2>6. QED
    BY <1>6, <2>1, <2>3, <2>4, <2>5
<1>9. QED
  BY <1>5, <1>8 DEF EncoderInv

(* alignWith(): the encoder stands aside from what the properties say. *)
LEMMA EncoderAlign ==
    ASSUME EncoderInv, Encoder!alignWith
    PROVE  EncoderInv'
<1>1. PICK ticks \in Offsets :
          /\ encoderHomePosition' = Encoder!PlusFloat(encoderHomePosition, ticks)
          /\ encoder' = Encoder!PlusFloat(encoder, ticks)
          /\ pastPosition' = Encoder!PlusFloat(pastPosition, ticks)
          /\ expected' = expected + ticks
          /\ aligned' = TRUE
          /\ UNCHANGED <<inverted, updated, shaft, seenShaft, pastShaft, rev, leftWord>>
  BY DEF Encoder!alignWith
<1>2. ticks \in Int
  BY EncoderAssumption
<1>3. encoder' \in Circle /\ pastPosition' \in Circle /\ encoderHomePosition' \in Circle
  BY <1>1, <1>2, PlusFloatAdds DEF EncoderInv, EncoderTyped
<1>4. expected' \in Int
  BY <1>1, <1>2 DEF EncoderInv, EncoderTyped
<1>5. EncoderTyped'
  BY <1>1, <1>3, <1>4, Zenon DEF EncoderInv, EncoderTyped
<1>6. EncoderFollows'
  BY <1>1 DEF EncoderFollows
<1>7. QED
  BY <1>5, <1>6 DEF EncoderInv

(* Every step of an encoder keeps the invariant. *)
LEMMA EncoderStep ==
    ASSUME EncoderInv, Encoder!Next \/ UNCHANGED encoderVars
    PROVE  EncoderInv'
<1>1. CASE UNCHANGED encoderVars
  BY <1>1 DEF encoderVars, EncoderInv, EncoderTyped, EncoderFollows, WholeTurns, Counted, Value
<1>2. QED
  BY <1>1, EncoderTurn, EncoderMessage, EncoderReset, EncoderAlign DEF Encoder!Next

(* Which says what the encoder reports. *)
LEMMA EncoderReports ==
    EncoderInv => Encoder!FollowsShaft /\ Encoder!VelocityIsOfShaft
<1> SUFFICES ASSUME EncoderInv PROVE Encoder!FollowsShaft /\ Encoder!VelocityIsOfShaft
  OBVIOUS
<1>1. \A f \in Circle : Encoder!getUnwrappedValue(f) = Value(f)
  BY EncoderAssumption, CircleNumbers
     DEF Encoder!getUnwrappedValue, Encoder!Interval, Value
<1>2. EncoderTyped /\ EncoderFollows /\ encoder \in Circle /\ pastPosition \in Circle
      /\ seenShaft \in Int /\ pastShaft \in Int
  BY DEF EncoderInv, EncoderTyped
<1>3. Encoder!FollowsShaft
  BY <1>1, <1>2 DEF Encoder!FollowsShaft, EncoderFollows
<1>4. Counted(seenShaft) - Counted(pastShaft)
          = IF inverted THEN pastShaft - seenShaft ELSE seenShaft - pastShaft
  BY <1>2, CountedIsInt
<1>5. Encoder!VelocityIsOfShaft
  BY <1>1, <1>2, <1>4 DEF Encoder!VelocityIsOfShaft, EncoderFollows
<1>6. QED
  BY <1>3, <1>5

-----------------------------------------------------------------------------
(* A set of natural numbers has a least one: what holds of 0 and is passed on
   to the next number holds of them all. *)
LEMMA Least ==
    ASSUME NEW T \in SUBSET Nat, T # {} PROVE \E x \in T : \A y \in T : x <= y
<1> DEFINE R == OpToRel(<, Nat)
<1>1. IsWellFoundedOn(R, Nat)
  BY NatLessThanWellFounded, Zenon
<1> HIDE DEF R
<1>2. PICK x \in T : \A y \in T : ~(<<y, x>> \in R)
  BY <1>1, WFMin, Zenon
<1>3. \A y \in T : ~(y < x)
  BY <1>2, Zenon DEF R, OpToRel
<1>4. QED
  BY <1>2, <1>3

-----------------------------------------------------------------------------
Controller == INSTANCE ErrorController

controllerVars == <<errorList, raised>>

(* The list of errors.  After i steps of its turn the list is what is left of
   it, and then what went round, without the error at the index. *)
AfterSteps(list, index, i) ==
    [k \in 1 .. (IF i <= index THEN Len(list) ELSE Len(list) - 1) |->
        IF k <= Len(list) - i THEN list[k + i]
        ELSE IF k - (Len(list) - i) <= index THEN list[k - (Len(list) - i)]
        ELSE list[k - (Len(list) - i) + 1]]

LEMMA OneStepMore ==
    ASSUME NEW list \in Seq(Errors), NEW index \in Nat, index < Len(list),
           NEW i \in 1 .. Len(list)
    PROVE  AfterSteps(list, index, i) =
               IF i = index + 1 THEN Tail(AfterSteps(list, index, i - 1))
               ELSE Append(Tail(AfterSteps(list, index, i - 1)),
                           Head(AfterSteps(list, index, i - 1)))
<1> DEFINE n == Len(list)
           before == AfterSteps(list, index, i - 1)
           after == AfterSteps(list, index, i)
           size == IF i - 1 <= index THEN n ELSE n - 1
<1>1. /\ n \in Nat /\ n > 0 /\ size \in Nat /\ size > 0 /\ i \in 1 .. n
      /\ \A k \in 1 .. n : list[k] \in Errors
  OBVIOUS
<1>2. /\ before \in Seq(Errors) /\ Len(before) = size
      /\ \A k \in 1 .. size : before[k] = IF k <= n - (i - 1) THEN list[k + (i - 1)]
                                          ELSE IF k - (n - (i - 1)) <= index
                                               THEN list[k - (n - (i - 1))]
                                          ELSE list[k - (n - (i - 1)) + 1]
  BY <1>1 DEF AfterSteps
<1>3. before[1] = list[i]
  <2>1. 1 \in 1 .. size /\ 1 <= n - (i - 1) /\ 1 + (i - 1) = i
    BY <1>1
  <2>2. before[1] = list[1 + (i - 1)]
    BY <1>2, <2>1
  <2>3. QED
    BY <2>1, <2>2
<1>4. /\ after \in Seq(Errors) /\ Len(after) = (IF i <= index THEN n ELSE n - 1)
      /\ \A k \in 1 .. Len(after) : after[k] = IF k <= n - i THEN list[k + i]
                                               ELSE IF k - (n - i) <= index THEN list[k - (n - i)]
                                               ELSE list[k - (n - i) + 1]
  BY <1>1 DEF AfterSteps
<1> size = IF i - 1 <= index THEN n ELSE n - 1
  OBVIOUS
<1> HIDE DEF before, after, n, size
<1>5. /\ Tail(before) \in Seq(Errors) /\ Len(Tail(before)) = size - 1
      /\ \A k \in 1 .. size - 1 : Tail(before)[k] = before[k + 1]
      /\ Head(before) = list[i] /\ list[i] \in Errors
  <2>1. before # <<>> /\ before \in Seq(Errors)
    BY <1>1, <1>2
  <2>2. Tail(before) \in Seq(Errors) /\ Len(Tail(before)) = size - 1
    BY <1>1, <1>2, <2>1
  <2>3. ASSUME NEW k \in 1 .. size - 1 PROVE Tail(before)[k] = before[k + 1]
    BY <1>1, <1>2, <2>1
  <2>4. Head(before) = list[i] /\ list[i] \in Errors
    BY <1>1, <1>3, <2>1
  <2>5. QED
    BY <2>2, <2>3, <2>4
<1>6. CASE i = index + 1
  <2>1. Len(after) = n - 1 /\ size = n
    BY <1>1, <1>4, <1>6
  <2>2. ASSUME NEW k \in 1 .. n - 1 PROVE after[k] = Tail(before)[k]
    <3>1. Tail(before)[k] = before[k + 1] /\ k \in Int /\ k + 1 \in 1 .. size
      BY <1>1, <1>5, <2>1, SMTT(30)
    <3>2. before[k + 1] = IF k + 1 <= n - (i - 1) THEN list[k + 1 + (i - 1)]
                          ELSE IF k + 1 - (n - (i - 1)) <= index
                               THEN list[k + 1 - (n - (i - 1))]
                          ELSE list[k + 1 - (n - (i - 1)) + 1]
      BY <1>1, <1>2, <3>1
    <3>3. after[k] = IF k <= n - i THEN list[k + i]
                     ELSE IF k - (n - i) <= index THEN list[k - (n - i)]
                     ELSE list[k - (n - i) + 1]
      BY <1>4, <2>1
    <3>4. /\ k + 1 + (i - 1) = k + i /\ k + 1 - (n - (i - 1)) = k - (n - i)
          /\ k + 1 <= n - (i - 1) <=> k <= n - i
      <4>1. i \in Int /\ n \in Int /\ k \in Int
        BY <1>1
      <4>2. QED
        BY <4>1
    <3>5. QED
      BY <3>1, <3>2, <3>3, <3>4, Zenon
  <2>3. after = Tail(before)
    BY <1>4, <1>5, <2>1, <2>2, SeqEqual
  <2>4. QED
    BY <1>6, <2>3 DEF before, after
<1>7. CASE i # index + 1
  <2> DEFINE turned == Append(Tail(before), Head(before))
  <2>1. /\ turned \in Seq(Errors) /\ Len(turned) = size
        /\ \A k \in 1 .. size : turned[k] = IF k = size THEN list[i] ELSE before[k + 1]
    BY <1>1, <1>5
  <2> HIDE DEF turned
  <2>2. Len(after) = size
    BY <1>1, <1>4, <1>7
  <2>3. ASSUME NEW k \in 1 .. size PROVE after[k] = turned[k]
    <3>1. k \in Int /\ k \in 1 .. Len(after) /\ (k # size => k + 1 \in 1 .. size)
      BY <1>1, <2>2
    <3>2. after[k] = IF k <= n - i THEN list[k + i]
                     ELSE IF k - (n - i) <= index THEN list[k - (n - i)]
                     ELSE list[k - (n - i) + 1]
      BY <1>4, <3>1
    <3>3. CASE k = size
      <4>1. CASE i <= index
        <5>1. size = n /\ ~(k <= n - i) /\ k - (n - i) = i
          BY <1>1, <3>3, <4>1
        <5>2. QED
          BY <2>1, <3>2, <3>3, <4>1, <5>1
      <4>2. CASE ~(i <= index)
        <5>1. size = n - 1 /\ i > index + 1 /\ (i # n => ~(k <= n - i)) /\ k - (n - i) = i - 1
          BY <1>1, <1>7, <3>3, <4>2
        <5>2. ~(k <= n - i) /\ ~(k - (n - i) <= index) /\ k - (n - i) + 1 = i
          BY <1>1, <3>3, <5>1
        <5>3. QED
          BY <2>1, <3>2, <3>3, <5>2
      <4>3. QED
        BY <4>1, <4>2
    <3>4. CASE k # size
      <4>1. turned[k] = before[k + 1] /\ k + 1 \in 1 .. size
        BY <2>1, <3>1, <3>4
      <4>2. before[k + 1] = IF k + 1 <= n - (i - 1) THEN list[k + 1 + (i - 1)]
                            ELSE IF k + 1 - (n - (i - 1)) <= index
                                 THEN list[k + 1 - (n - (i - 1))]
                            ELSE list[k + 1 - (n - (i - 1)) + 1]
        BY <1>1, <1>2, <3>1, <4>1
      <4>3. /\ k + 1 + (i - 1) = k + i /\ k + 1 - (n - (i - 1)) = k - (n - i)
            /\ k + 1 <= n - (i - 1) <=> k <= n - i
        BY <1>1, <3>1
      <4>4. QED
        BY <3>2, <4>1, <4>2, <4>3
    <3>5. QED
      BY <3>3, <3>4
  <2>4. after = turned
    BY <1>4, <2>1, <2>2, <2>3, SeqEqual
  <2>5. QED
    BY <1>7, <2>4 DEF before, after, turned
<1>8. QED
  BY <1>6, <1>7

(* A full turn leaves out the error at the index, and keeps the order. *)
LEMMA TurnLeavesOut ==
    ASSUME NEW list \in Seq(Errors), NEW index \in Nat, index < Len(list)
    PROVE  /\ Controller!Rotated(list, index) \in Seq(Errors)
           /\ Len(Controller!Rotated(list, index)) = Len(list) - 1
           /\ \A k \in 1 .. Len(list) - 1 :
                  Controller!Rotated(list, index)[k] = IF k <= index THEN list[k] ELSE list[k + 1]
<1> DEFINE n == Len(list)
           Is(g) == g = [i \in 0 .. n |-> IF i = 0 THEN list
                                          ELSE IF i = index + 1 THEN Tail(g[i - 1])
                                          ELSE Append(Tail(g[i - 1]), Head(g[i - 1]))]
           turned == CHOOSE g : Is(g)
           steps == [i \in 0 .. n |-> AfterSteps(list, index, i)]
<1>1. n \in Nat /\ n > 0 /\ \A k \in 1 .. n : list[k] \in Errors
  OBVIOUS
<1>2. AfterSteps(list, index, 0) = list
  <2> DEFINE begun == AfterSteps(list, index, 0)
  <2>1. begun \in Seq(Errors) /\ Len(begun) = n /\ \A k \in 1 .. n : begun[k] = list[k]
    BY <1>1 DEF AfterSteps
  <2> HIDE DEF begun
  <2>2. begun = list
    BY <2>1, SeqEqual
  <2>3. QED
    BY <2>2 DEF begun
<1>3. Is(steps)
  <2>1. \A i \in 0 .. n : steps[i] = IF i = 0 THEN list
                                     ELSE IF i = index + 1 THEN Tail(steps[i - 1])
                                     ELSE Append(Tail(steps[i - 1]), Head(steps[i - 1]))
    <3> TAKE i \in 0 .. n
    <3>1. CASE i = 0
      BY <1>1, <1>2, <3>1
    <3>2. CASE i # 0
      <4>1. i \in 1 .. n /\ i - 1 \in 0 .. n
        BY <1>1, <3>2
      <4>2. steps[i] = AfterSteps(list, index, i) /\ steps[i - 1] = AfterSteps(list, index, i - 1)
        BY <4>1
      <4>3. QED
        BY <3>2, <4>1, <4>2, OneStepMore
    <3>3. QED
      BY <3>1, <3>2, Zenon
  <2> DEFINE all == [i \in 0 .. n |-> IF i = 0 THEN list
                                      ELSE IF i = index + 1 THEN Tail(steps[i - 1])
                                      ELSE Append(Tail(steps[i - 1]), Head(steps[i - 1]))]
  <2>2. \A i \in 0 .. n : steps[i] = all[i]
    BY <2>1
  <2>3. steps = all
    <3>1. DOMAIN steps = 0 .. n /\ DOMAIN all = 0 .. n
      OBVIOUS
    <3> HIDE DEF all
    <3>2. steps = [i \in 0 .. n |-> steps[i]]
      OBVIOUS
    <3>3. [i \in 0 .. n |-> steps[i]] = [i \in 0 .. n |-> all[i]]
      BY <2>2
    <3>4. QED
      BY <3>2, <3>3, Zenon DEF all
  <2>4. QED
    BY <2>3, Zenon
<1>4. Is(turned)
  BY <1>3, Zenon
<1>5. Controller!Rotated(list, index) = turned[n]
  BY DEF Controller!Rotated
<1> HIDE DEF turned
<1>6. \A i \in 0 .. n : turned[i] = IF i = 0 THEN list
                                    ELSE IF i = index + 1 THEN Tail(turned[i - 1])
                                    ELSE Append(Tail(turned[i - 1]), Head(turned[i - 1]))
  BY <1>4, Zenon
<1> DEFINE T == {i \in 0 .. n : turned[i] # AfterSteps(list, index, i)}
<1>7. /\ T \in SUBSET Nat /\ \A i \in T : i \in 0 .. n /\ turned[i] # AfterSteps(list, index, i)
      /\ \A i \in 0 .. n : i \notin T => turned[i] = AfterSteps(list, index, i)
  BY <1>1
<1> HIDE DEF T
<1>8. T = {}
  <2> SUFFICES ASSUME T # {} PROVE FALSE
    OBVIOUS
  <2>1. PICK x \in T : \A y \in T : x <= y
    BY <1>7, Least
  <2>2. x \in 0 .. n /\ x # 0
    BY <1>1, <1>2, <1>6, <1>7
  <2>3. x \in 1 .. n /\ x - 1 \in 0 .. n /\ ~(x <= x - 1)
    BY <1>1, <2>2
  <2>4. turned[x - 1] = AfterSteps(list, index, x - 1)
    BY <1>7, <2>1, <2>3
  <2>5. turned[x] = AfterSteps(list, index, x)
    BY <1>6, <2>2, <2>3, <2>4, OneStepMore, Zenon
  <2>6. QED
    BY <1>7, <2>5
<1>9. Controller!Rotated(list, index) = AfterSteps(list, index, n)
  BY <1>1, <1>5, <1>7, <1>8
<1>10. QED
  BY <1>1, <1>9 DEF AfterSteps

(* The number of an error is its place in the list. *)
Numbered(list, numbers) ==
    /\ list \in Seq(Errors) /\ numbers \in [Errors -> Nat]
    /\ \A k \in 1 .. Len(list) : numbers[list[k]] = k
    /\ \A e \in Errors : numbers[e] # 0 => numbers[e] \in 1 .. Len(list) /\ list[numbers[e]] = e

ErrorInv == Numbered(errorList, raised) /\ Len(errorList) <= ERROR_LIST_MAX_SIZE

LeavesOut(list, place) ==
    /\ list \in Seq(Errors) /\ Len(list) = Len(errorList) - 1
    /\ \A k \in 1 .. Len(errorList) - 1 :
           list[k] = IF k < place THEN errorList[k] ELSE errorList[k + 1]

(* Without the error at a place the others move up. *)
LEMMA OthersMoveUp ==
    ASSUME ErrorInv, NEW place \in 1 .. Len(errorList), NEW list, LeavesOut(list, place)
    PROVE  Numbered(list, Controller!Without(errorList[place]))
<1> DEFINE n == Len(errorList)
           gone == errorList[place]
           numbers == Controller!Without(gone)
<1>1. /\ n \in Nat /\ place \in 1 .. n /\ gone \in Errors /\ raised[gone] = place
      /\ \A k \in 1 .. n : errorList[k] \in Errors /\ raised[errorList[k]] = k
      /\ \A e \in Errors : raised[e] \in Nat
  BY DEF ErrorInv, Numbered
<1>2. \A e \in Errors :
          numbers[e] = IF e = gone THEN 0 ELSE IF raised[e] > place THEN raised[e] - 1 ELSE raised[e]
  BY <1>1 DEF Controller!Without
<1>3. numbers \in [Errors -> Nat]
  <2>1. numbers = [e \in Errors |-> IF e = gone THEN 0
                                    ELSE IF raised[e] > place THEN raised[e] - 1 ELSE raised[e]]
    BY <1>1 DEF Controller!Without
  <2>2. QED
    BY <1>1, <2>1
<1>4. /\ list \in Seq(Errors) /\ Len(list) = n - 1
      /\ \A k \in 1 .. n - 1 : list[k] = IF k < place THEN errorList[k] ELSE errorList[k + 1]
  BY DEF LeavesOut
<1>5. \A e \in Errors : raised[e] # 0 => raised[e] \in 1 .. n /\ errorList[raised[e]] = e
  BY DEF ErrorInv, Numbered
<1> HIDE DEF n, gone, numbers
<1>6. ASSUME NEW k \in 1 .. n - 1 PROVE numbers[list[k]] = k
  <2>1. CASE k < place
    <3>1. list[k] = errorList[k] /\ raised[errorList[k]] = k /\ errorList[k] \in Errors
      BY <1>1, <1>4, <2>1
    <3>2. errorList[k] # gone
      BY <1>1, <2>1, <3>1
    <3>3. QED
      BY <1>1, <1>2, <2>1, <3>1, <3>2
  <2>2. CASE ~(k < place)
    <3> DEFINE e == errorList[k + 1]
    <3>1. list[k] = e /\ raised[e] = k + 1 /\ e \in Errors
      BY <1>1, <1>4, <2>2
    <3>2. k \in Int /\ k + 1 > place /\ k + 1 # place /\ k + 1 - 1 = k
      BY <1>1, <2>2
    <3> HIDE DEF e
    <3>3. e # gone /\ numbers[e] = raised[e] - 1
      BY <1>1, <1>2, <3>1, <3>2, Zenon
    <3>4. QED
      BY <3>1, <3>2, <3>3
  <2>3. QED
    BY <2>1, <2>2
<1>7. ASSUME NEW e \in Errors, numbers[e] # 0
      PROVE  numbers[e] \in 1 .. n - 1 /\ list[numbers[e]] = e
  <2>1. e # gone /\ raised[e] # 0
    BY <1>1, <1>2, <1>7
  <2>2. raised[e] \in 1 .. n /\ errorList[raised[e]] = e /\ raised[e] # place
    BY <1>1, <1>5, <2>1 DEF gone
  <2>3. CASE raised[e] > place
    <3>1. numbers[e] = raised[e] - 1 /\ numbers[e] \in 1 .. n - 1 /\ ~(numbers[e] < place)
      BY <1>1, <1>2, <2>1, <2>2, <2>3
    <3>2. list[numbers[e]] = errorList[numbers[e] + 1] /\ numbers[e] + 1 = raised[e]
      BY <1>1, <1>4, <2>2, <3>1
    <3>3. QED
      BY <2>2, <3>1, <3>2
  <2>4. CASE ~(raised[e] > place)
    <3>1. numbers[e] = raised[e] /\ numbers[e] \in 1 .. n - 1 /\ numbers[e] < place
      BY <1>1, <1>2, <2>1, <2>2, <2>4
    <3>2. QED
      BY <1>4, <2>2, <3>1
  <2>5. QED
    BY <2>3, <2>4
<1>8. Numbered(list, numbers)
  BY <1>3, <1>4, <1>6, <1>7 DEF Numbered
<1>9. QED
  BY <1>8 DEF numbers, gone

LEMMA ErrorAdded ==
    ASSUME ErrorInv, NEW error \in Errors, Controller!addToErrorList(error) PROVE ErrorInv'
<1> DEFINE full == Len(errorList) >= ERROR_LIST_MAX_SIZE
           list == IF full THEN Tail(errorList) ELSE errorList
           others == IF full THEN Controller!Without(Head(errorList)) ELSE raised
<1>1. error \notin Controller!Range(errorList) /\ errorList' = Append(list, error)
  BY DEF Controller!addToErrorList
<1>2. raised' = [others EXCEPT ![error] = Len(list) + 1]
  BY DEF Controller!addToErrorList
<1>3. /\ Len(errorList) \in Nat /\ ERROR_LIST_MAX_SIZE \in Nat \ {0}
      /\ Len(errorList) <= ERROR_LIST_MAX_SIZE
      /\ \A k \in 1 .. Len(errorList) : errorList[k] # error
  BY <1>1, ErrorAssumption DEF Controller!Range, ErrorInv, Numbered
<1> HIDE DEF full
<1>4. /\ Numbered(list, others) /\ Len(list) < ERROR_LIST_MAX_SIZE
      /\ \A k \in 1 .. Len(list) : list[k] # error
  <2>1. CASE full
    <3>1. /\ Tail(errorList) \in Seq(Errors) /\ Len(Tail(errorList)) = Len(errorList) - 1
          /\ \A k \in 1 .. Len(errorList) - 1 : Tail(errorList)[k] = errorList[k + 1]
          /\ 1 \in 1 .. Len(errorList) /\ Head(errorList) = errorList[1]
      BY <1>3, <2>1 DEF ErrorInv, Numbered, full
    <3>2. LeavesOut(Tail(errorList), 1)
      BY <3>1 DEF LeavesOut
    <3>3. list = Tail(errorList) /\ others = Controller!Without(errorList[1])
      BY <2>1, <3>1
    <3> HIDE DEF list, others
    <3>4. Numbered(list, others)
      BY <3>1, <3>2, <3>3, OthersMoveUp
    <3>5. \A k \in 1 .. Len(list) : list[k] # error
      BY <1>3, <3>1, <3>3
    <3>6. QED
      BY <1>3, <3>1, <3>3, <3>4, <3>5
  <2>2. CASE ~full
    BY <1>3, <2>2 DEF ErrorInv, full
  <2>3. QED
    BY <2>1, <2>2, Zenon
<1> HIDE DEF list, others
<1>5. /\ errorList' \in Seq(Errors) /\ Len(errorList') = Len(list) + 1 /\ Len(list) \in Nat
      /\ \A k \in 1 .. Len(list) + 1 : errorList'[k] = IF k = Len(list) + 1 THEN error ELSE list[k]
  BY <1>1, <1>4 DEF Numbered
<1>6. /\ raised' \in [Errors -> Nat]
      /\ \A e \in Errors : raised'[e] = IF e = error THEN Len(list) + 1 ELSE others[e]
  BY <1>2, <1>4, <1>5 DEF Numbered
<1>7. ASSUME NEW k \in 1 .. Len(list) + 1 PROVE raised'[errorList'[k]] = k
  <2>1. CASE k = Len(list) + 1
    BY <1>5, <1>6, <2>1
  <2>2. CASE k # Len(list) + 1
    <3>1. /\ k \in 1 .. Len(list) /\ errorList'[k] = list[k] /\ list[k] \in Errors
          /\ others[list[k]] = k
      BY <1>4, <1>5, <2>2 DEF Numbered
    <3>2. QED
      BY <1>4, <1>6, <3>1
  <2>3. QED
    BY <2>1, <2>2
<1>8. ASSUME NEW e \in Errors, raised'[e] # 0
      PROVE  raised'[e] \in 1 .. Len(list) + 1 /\ errorList'[raised'[e]] = e
  <2>1. CASE e = error
    BY <1>5, <1>6, <2>1
  <2>2. CASE e # error
    <3>1. raised'[e] = others[e] /\ others[e] \in 1 .. Len(list) /\ list[others[e]] = e
      BY <1>4, <1>6, <1>8, <2>2 DEF Numbered
    <3>2. others[e] \in 1 .. Len(list) + 1 /\ others[e] # Len(list) + 1
      BY <1>5, <3>1
    <3>3. QED
      BY <1>5, <3>1, <3>2
  <2>3. QED
    BY <2>1, <2>2
<1>9. Len(errorList') <= ERROR_LIST_MAX_SIZE
  BY <1>3, <1>4, <1>5
<1>10. QED
  BY <1>5, <1>6, <1>7, <1>8, <1>9 DEF ErrorInv, Numbered

LEMMA ErrorRemoved ==
    ASSUME ErrorInv, NEW index \in Nat, Controller!removeSystemErrorAtIndex(index) PROVE ErrorInv'
<1> DEFINE n == Len(errorList)
<1>1. /\ index < n /\ n \in Nat /\ errorList \in Seq(Errors) /\ n <= ERROR_LIST_MAX_SIZE
      /\ index + 1 \in 1 .. n
  BY DEF Controller!removeSystemErrorAtIndex, ErrorInv, Numbered
<1>2. raised' = Controller!Without(errorList[index + 1])
  BY DEF Controller!removeSystemErrorAtIndex
<1>3. errorList' = IF index = 0 THEN Tail(errorList)
                   ELSE IF index = n - 1 THEN Controller!Front(errorList)
                   ELSE Controller!Rotated(errorList, index)
  BY DEF Controller!removeSystemErrorAtIndex
<1>4. /\ errorList' \in Seq(Errors) /\ Len(errorList') = n - 1
      /\ \A k \in 1 .. n - 1 :
             errorList'[k] = IF k < index + 1 THEN errorList[k] ELSE errorList[k + 1]
  <2>1. CASE index = 0
    BY <1>1, <1>3, <2>1
  <2>2. CASE index # 0 /\ index = n - 1
    <3> DEFINE front == Controller!Front(errorList)
    <3>1. front = [k \in 1 .. n - 1 |-> errorList[k]]
      BY <1>1 DEF Controller!Front
    <3> HIDE DEF front
    <3>2. front \in Seq(Errors) /\ Len(front) = n - 1 /\ \A k \in 1 .. n - 1 : front[k] = errorList[k]
      BY <1>1, <3>1
    <3>3. errorList' = front
      BY <1>3, <2>2 DEF front
    <3>4. QED
      BY <1>1, <2>2, <3>2, <3>3
  <2>3. CASE index # 0 /\ index # n - 1
    <3> DEFINE rest == Controller!Rotated(errorList, index)
    <3>1. /\ rest \in Seq(Errors) /\ Len(rest) = n - 1
          /\ \A k \in 1 .. n - 1 : rest[k] = IF k <= index THEN errorList[k] ELSE errorList[k + 1]
      BY <1>1, TurnLeavesOut, Zenon
    <3>2. errorList' = rest
      BY <1>3, <2>3
    <3> HIDE DEF rest
    <3>3. \A k \in 1 .. n - 1 : k <= index <=> k < index + 1
      BY <1>1
    <3>4. QED
      BY <3>1, <3>2, <3>3
  <2>4. QED
    BY <2>1, <2>2, <2>3
<1>5. LeavesOut(errorList', index + 1)
  BY <1>4 DEF LeavesOut
<1>6. Numbered(errorList', raised')
  BY <1>1, <1>2, <1>5, OthersMoveUp
<1>7. Len(errorList') <= ERROR_LIST_MAX_SIZE
  BY <1>1, <1>4, ErrorAssumption
<1>8. QED
  BY <1>6, <1>7 DEF ErrorInv

LEMMA ErrorStart == Controller!Init => ErrorInv
BY ErrorAssumption DEF Controller!Init, ErrorInv, Numbered

LEMMA ErrorStep ==
    ASSUME ErrorInv, Controller!Next \/ UNCHANGED controllerVars PROVE ErrorInv'
<1>1. CASE UNCHANGED <<errorList, raised>>
  BY <1>1 DEF ErrorInv, Numbered
<1>2. CASE Controller!removeAllSystemErrors
  BY <1>2, ErrorAssumption DEF Controller!removeAllSystemErrors, ErrorInv, Numbered
<1>3. (\E e \in Errors : Controller!AddAgain(e)) \/ UNCHANGED controllerVars
          => UNCHANGED <<errorList, raised>>
  BY DEF Controller!AddAgain, Controller!vars, controllerVars
<1>4. QED
  BY <1>1, <1>2, <1>3, ErrorAdded, ErrorRemoved DEF Controller!Next

LEMMA ErrorsInOrder == ErrorInv => Controller!OldestFirst
<1> SUFFICES ASSUME ErrorInv PROVE Controller!OldestFirst
  OBVIOUS
<1>1. DOMAIN errorList = 1 .. Len(errorList)
  BY DEF ErrorInv, Numbered
<1>2. \A e \in Errors : raised[e] # 0 => e \in Controller!Range(errorList)
  BY <1>1 DEF ErrorInv, Numbered, Controller!Range
<1>3. QED
  BY <1>1, <1>2 DEF ErrorInv, Numbered, Controller!OldestFirst

-----------------------------------------------------------------------------
Floats == INSTANCE WrappedFloatLaws

floatVars == <<float, exact>>

(* The number on a circle.  It is wrapped between its bounds, and stands for
   what it stood for. *)
FloatRecords == [wrapped : Int, revolutions : Int, lower : Int, upper : Int]

Stands(f) == f.wrapped + Interval0 * f.revolutions

BetweenBounds(f, lower) ==
    /\ f \in FloatRecords /\ f.lower = lower /\ f.upper = lower + Interval0
    /\ lower <= f.wrapped /\ f.wrapped < lower + Interval0

LEMMA Wraps ==
    ASSUME NEW value \in Int, NEW turns \in Int, NEW lower \in Int, NEW f,
           f = [wrapped |-> value, revolutions |-> turns, lower |-> lower,
                upper |-> lower + Interval0]
    PROVE  /\ BetweenBounds(Floats!wrapValue(f), lower)
           /\ Stands(Floats!wrapValue(f)) = value + Interval0 * turns
<1> DEFINE n == Interval0
           round == (value - lower) \div n
           g == Floats!wrapValue(f)
<1>1. n \in Nat \ {0} /\ value - lower \in Int
  BY FloatAssumption
<1>2. /\ round \in Int /\ n * round \in Int
      /\ 0 <= value - lower - n * round /\ value - lower - n * round < n
  <2>1. /\ round \in Int /\ (value - lower) % n \in 0 .. n - 1
        /\ value - lower = n * round + ((value - lower) % n)
    BY <1>1, Division
  <2> HIDE DEF round
  <2>2. n * round \in Int
    BY <1>1, <2>1
  <2>3. QED
    BY <1>1, <2>1, <2>2
<1>3. f.upper - f.lower = n /\ f.wrapped = value /\ f.lower = lower
  BY <1>1
<1>4. g = [f EXCEPT !.revolutions = f.revolutions + round, !.wrapped = f.wrapped - n * round]
  BY <1>3, Zenon DEF Floats!wrapValue, Floats!Interval
<1> HIDE DEF round, g, n
<1>5. g = [wrapped |-> value - n * round, revolutions |-> turns + round, lower |-> lower,
           upper |-> lower + Interval0]
  BY <1>4, Zenon
<1>6. n * (turns + round) = n * turns + n * round /\ n * turns \in Int
  BY <1>1, <1>2, Distributes
<1>7. g \in FloatRecords
  BY <1>1, <1>2, <1>5 DEF FloatRecords, n
<1>8. QED
  BY <1>1, <1>2, <1>5, <1>6, <1>7 DEF BetweenBounds, Stands, g, n

(* Two numbers between the bounds that are whole turns apart are the same. *)
LEMMA SameOnCircle ==
    ASSUME NEW lower \in Int, NEW a \in Int, NEW b \in Int, NEW k \in Int,
           lower <= a, a < lower + Interval0, lower <= b, b < lower + Interval0,
           a = b + Interval0 * k
    PROVE  a = b /\ k = 0
<1>1. Interval0 \in Nat \ {0} /\ Interval0 * k \in Int
  BY FloatAssumption
<1>2. -Interval0 < Interval0 * k /\ Interval0 * k < Interval0
  BY <1>1
<1>3. k \in {-1, 0, 1}
  BY <1>1, <1>2, FewTurns
<1>4. QED
  BY <1>1, <1>2, <1>3

LEMMA OnTheCircle ==
    ASSUME NEW f, NEW lower \in Int, BetweenBounds(f, lower), NEW value \in Int
    PROVE  /\ BetweenBounds(Floats!withSameBounds(f, value), lower)
           /\ Stands(Floats!withSameBounds(f, value)) = value
<1> DEFINE g == [wrapped |-> value, revolutions |-> 0, lower |-> lower, upper |-> lower + Interval0]
<1>1. Floats!withSameBounds(f, value) = Floats!wrapValue(g)
  BY DEF Floats!withSameBounds, Floats!Wrapped, BetweenBounds
<1>2. Interval0 * 0 = 0
  BY FloatAssumption
<1>3. /\ BetweenBounds(Floats!wrapValue(g), lower)
      /\ Stands(Floats!wrapValue(g)) = value + Interval0 * 0
  BY Wraps
<1>4. QED
  BY <1>1, <1>2, <1>3

LEMMA FloatAdds ==
    ASSUME NEW f, NEW lower \in Int, BetweenBounds(f, lower), NEW value \in Int
    PROVE  /\ BetweenBounds(Floats!PlusFloat(f, value), lower)
           /\ Stands(Floats!PlusFloat(f, value)) = Stands(f) + value
           /\ BetweenBounds(Floats!MinusFloat(f, value), lower)
           /\ Stands(Floats!MinusFloat(f, value)) = Stands(f) - value
<1> DEFINE g == Floats!withSameBounds(f, value)
           up == [f EXCEPT !.wrapped = f.wrapped + g.wrapped]
           down == [f EXCEPT !.wrapped = f.wrapped - g.wrapped]
           sum == Floats!wrapValue(up)
           difference == Floats!wrapValue(down)
<1>1. BetweenBounds(g, lower) /\ Stands(g) = value
  BY OnTheCircle
<1>2. /\ Floats!PlusFloat(f, value) = [sum EXCEPT !.revolutions = sum.revolutions + g.revolutions]
      /\ Floats!MinusFloat(f, value)
             = [difference EXCEPT !.revolutions = difference.revolutions - g.revolutions]
  BY DEF Floats!PlusFloat, Floats!MinusFloat, Floats!Plus, Floats!Minus
<1> HIDE DEF g
<1>3. /\ f.wrapped \in Int /\ f.revolutions \in Int /\ g.wrapped \in Int /\ g.revolutions \in Int
      /\ f = [wrapped |-> f.wrapped, revolutions |-> f.revolutions, lower |-> lower,
              upper |-> lower + Interval0]
  BY <1>1 DEF BetweenBounds, FloatRecords
<1>4. /\ up = [wrapped |-> f.wrapped + g.wrapped, revolutions |-> f.revolutions, lower |-> lower,
               upper |-> lower + Interval0]
      /\ down = [wrapped |-> f.wrapped - g.wrapped, revolutions |-> f.revolutions, lower |-> lower,
                 upper |-> lower + Interval0]
  BY <1>3
<1>5. f.wrapped + g.wrapped \in Int /\ f.wrapped - g.wrapped \in Int
  BY <1>3
<1> HIDE DEF up, down
<1>6. /\ BetweenBounds(sum, lower) /\ BetweenBounds(difference, lower)
      /\ Stands(sum) = f.wrapped + g.wrapped + Interval0 * f.revolutions
      /\ Stands(difference) = f.wrapped - g.wrapped + Interval0 * f.revolutions
  BY <1>3, <1>4, <1>5, Wraps
<1> HIDE DEF sum, difference
<1>7. /\ sum.revolutions \in Int /\ difference.revolutions \in Int
      /\ sum.wrapped \in Int /\ difference.wrapped \in Int
  BY <1>6 DEF BetweenBounds, FloatRecords
<1>8. /\ Interval0 \in Nat
      /\ Interval0 * (sum.revolutions + g.revolutions)
             = Interval0 * sum.revolutions + Interval0 * g.revolutions
      /\ Interval0 * (difference.revolutions - g.revolutions)
             = Interval0 * difference.revolutions - Interval0 * g.revolutions
  BY <1>3, <1>7, FloatAssumption, Distributes
<1>9. /\ Interval0 * sum.revolutions \in Int /\ Interval0 * difference.revolutions \in Int
      /\ Interval0 * g.revolutions \in Int /\ Interval0 * f.revolutions \in Int
  BY <1>3, <1>7, <1>8
<1> DEFINE s == Floats!PlusFloat(f, value)
           d == Floats!MinusFloat(f, value)
<1>10. /\ s \in FloatRecords /\ s.wrapped = sum.wrapped /\ s.lower = sum.lower
       /\ s.upper = sum.upper /\ s.revolutions = sum.revolutions + g.revolutions
  <2>1. sum.revolutions + g.revolutions \in Int
    BY <1>3, <1>7
  <2>2. QED
    BY <1>2, <1>6, <2>1 DEF BetweenBounds, FloatRecords
<1>11. /\ d \in FloatRecords /\ d.wrapped = difference.wrapped /\ d.lower = difference.lower
       /\ d.upper = difference.upper /\ d.revolutions = difference.revolutions - g.revolutions
  <2>1. difference.revolutions - g.revolutions \in Int
    BY <1>3, <1>7
  <2>2. QED
    BY <1>2, <1>6, <2>1 DEF BetweenBounds, FloatRecords
<1> HIDE DEF s, d
<1>12. BetweenBounds(s, lower) /\ BetweenBounds(d, lower)
  BY <1>6, <1>10, <1>11 DEF BetweenBounds
<1>13. Stands(s) = Stands(f) + value
  <2>1. sum.wrapped + Interval0 * sum.revolutions = f.wrapped + g.wrapped + Interval0 * f.revolutions
    BY <1>6 DEF Stands
  <2>2. g.wrapped + Interval0 * g.revolutions = value
    BY <1>1 DEF Stands
  <2>3. Stands(s) = sum.wrapped + (Interval0 * sum.revolutions + Interval0 * g.revolutions)
    BY <1>8, <1>10 DEF Stands
  <2>4. Stands(f) = f.wrapped + Interval0 * f.revolutions
    BY DEF Stands
  <2>5. QED
    BY <1>3, <1>7, <1>9, <2>1, <2>2, <2>3, <2>4
<1>14. Stands(d) = Stands(f) - value
  <2>1. difference.wrapped + Interval0 * difference.revolutions
            = f.wrapped - g.wrapped + Interval0 * f.revolutions
    BY <1>6 DEF Stands
  <2>2. g.wrapped + Interval0 * g.revolutions = value
    BY <1>1 DEF Stands
  <2>3. Stands(d) = difference.wrapped + (Interval0 * difference.revolutions - Interval0 * g.revolutions)
    BY <1>8, <1>11 DEF Stands
  <2>4. Stands(f) = f.wrapped + Interval0 * f.revolutions
    BY DEF Stands
  <2>5. QED
    BY <1>3, <1>7, <1>9, <2>1, <2>2, <2>3, <2>4
<1>15. QED
  BY <1>12, <1>13, <1>14 DEF s, d

FloatInv ==
    /\ \E lower \in Lowers : BetweenBounds(float, lower)
    /\ exact \in Int /\ Stands(float) = exact

LEMMA FloatStart == Floats!Init => FloatInv
<1> SUFFICES ASSUME Floats!Init PROVE FloatInv
  OBVIOUS
<1>1. PICK lower \in Lowers : float = Floats!Wrapped(0, lower, lower + Interval0)
  BY DEF Floats!Init
<1>2. lower \in Int /\ exact = 0 /\ Interval0 * 0 = 0
  BY FloatAssumption DEF Floats!Init
<1>3. BetweenBounds(float, lower) /\ Stands(float) = 0 + Interval0 * 0
  BY <1>1, <1>2, Wraps DEF Floats!Wrapped
<1>4. QED
  BY <1>2, <1>3 DEF FloatInv

LEMMA FloatStep ==
    ASSUME FloatInv, Floats!Next \/ UNCHANGED floatVars PROVE FloatInv'
<1>1. PICK lower \in Lowers : BetweenBounds(float, lower)
  BY DEF FloatInv
<1>2. /\ lower \in Int /\ exact \in Int /\ Stands(float) = exact
      /\ Interval0 \in Nat \ {0} /\ Interval0 * 0 = 0
  BY FloatAssumption DEF FloatInv
<1>3. /\ float.wrapped \in Int /\ float.revolutions \in Int
      /\ float = [wrapped |-> float.wrapped, revolutions |-> float.revolutions,
                  lower |-> lower, upper |-> lower + Interval0]
  BY <1>1 DEF BetweenBounds, FloatRecords
<1>4. CASE Floats!Add
  <2>1. PICK amount \in Amounts : float' = Floats!PlusFloat(float, amount) /\ exact' = exact + amount
    BY <1>4 DEF Floats!Add
  <2>2. amount \in Int
    BY FloatAssumption
  <2>3. BetweenBounds(float', lower) /\ Stands(float') = exact + amount
    BY <1>1, <1>2, <2>1, <2>2, FloatAdds
  <2>4. QED
    BY <1>2, <2>1, <2>2, <2>3 DEF FloatInv, Stands
<1>5. CASE Floats!Subtract
  <2>1. PICK amount \in Amounts : float' = Floats!MinusFloat(float, amount) /\ exact' = exact - amount
    BY <1>5 DEF Floats!Subtract
  <2>2. amount \in Int
    BY FloatAssumption
  <2>3. BetweenBounds(float', lower) /\ Stands(float') = exact - amount
    BY <1>1, <1>2, <2>1, <2>2, FloatAdds
  <2>4. QED
    BY <1>2, <2>1, <2>2, <2>3 DEF FloatInv, Stands
<1>6. CASE Floats!Set
  <2>1. PICK amount \in Amounts :
            \/ float' = Floats!setUnwrappedValue(float, amount) /\ exact' = amount
            \/ /\ float' = Floats!setWrappedValue(float, amount)
               /\ exact' = amount + Interval0 * float.revolutions
    BY <1>6 DEF Floats!Set
  <2>2. amount \in Int /\ Interval0 * float.revolutions \in Int
    BY <1>2, <1>3, FloatAssumption
  <2>3. CASE float' = Floats!setUnwrappedValue(float, amount) /\ exact' = amount
    <3> DEFINE f == [float EXCEPT !.wrapped = amount, !.revolutions = 0]
    <3>1. f = [wrapped |-> amount, revolutions |-> 0, lower |-> lower, upper |-> lower + Interval0]
      <4> DEFINE g == [float EXCEPT !.wrapped = amount]
      <4>1. g = [wrapped |-> amount, revolutions |-> float.revolutions, lower |-> lower,
                 upper |-> lower + Interval0]
        BY <1>3
      <4>2. f = [g EXCEPT !.revolutions = 0]
        OBVIOUS
      <4> HIDE DEF f, g
      <4>3. QED
        BY <4>1, <4>2
    <3>2. float' = Floats!wrapValue(f)
      BY <2>3 DEF Floats!setUnwrappedValue
    <3> HIDE DEF f
    <3>3. BetweenBounds(float', lower) /\ Stands(float') = amount + Interval0 * 0
      BY <1>2, <2>2, <3>1, <3>2, Wraps
    <3>4. QED
      BY <1>2, <2>2, <2>3, <3>3 DEF FloatInv, Stands
  <2>4. CASE /\ float' = Floats!setWrappedValue(float, amount)
             /\ exact' = amount + Interval0 * float.revolutions
    <3> DEFINE f == [float EXCEPT !.wrapped = amount]
    <3>1. f = [wrapped |-> amount, revolutions |-> float.revolutions, lower |-> lower,
               upper |-> lower + Interval0]
      BY <1>3
    <3>2. float' = Floats!wrapValue(f)
      BY <2>4 DEF Floats!setWrappedValue
    <3> HIDE DEF f
    <3>3. BetweenBounds(float', lower) /\ Stands(float') = amount + Interval0 * float.revolutions
      BY <1>2, <1>3, <2>2, <3>1, <3>2, Wraps
    <3>4. QED
      BY <1>2, <2>2, <2>4, <3>3 DEF FloatInv, Stands
  <2>5. QED
    BY <2>1, <2>3, <2>4
<1>7. CASE Floats!Shift
  <2>1. PICK amount \in Amounts :
            /\ float.lower + amount \in Lowers /\ float' = Floats!shiftBounds(float, amount)
            /\ UNCHANGED exact
    BY <1>7 DEF Floats!Shift
  <2> DEFINE shifted == lower + amount
             f == [float EXCEPT !.lower = float.lower + amount, !.upper = float.upper + amount]
  <2>2. amount \in Int /\ shifted \in Int /\ shifted \in Lowers
    BY <1>2, <1>3, <2>1, FloatAssumption
  <2>3. f = [wrapped |-> float.wrapped, revolutions |-> float.revolutions, lower |-> shifted,
             upper |-> shifted + Interval0]
    <3>1. float.lower + amount = shifted /\ float.upper + amount = shifted + Interval0
      BY <1>1, <1>2, <2>2 DEF BetweenBounds
    <3>2. f = [float EXCEPT !.lower = shifted, !.upper = shifted + Interval0]
      BY <3>1, Zenon
    <3> HIDE DEF f, shifted
    <3>3. QED
      BY <1>1, <3>2, Zenon DEF BetweenBounds, FloatRecords
  <2>4. float' = Floats!wrapValue(f)
    BY <2>1 DEF Floats!shiftBounds
  <2> HIDE DEF f, shifted
  <2>5. /\ BetweenBounds(float', shifted)
        /\ Stands(float') = float.wrapped + Interval0 * float.revolutions
    BY <1>3, <2>2, <2>3, <2>4, Wraps
  <2>6. QED
    BY <1>2, <2>1, <2>2, <2>5 DEF FloatInv, Stands
<1>8. CASE Floats!Interpolate
  <2>1. PICK target \in Amounts, part \in 0 .. 2 :
            LET elsewhere == Floats!withSameBounds(float, target)
            IN  /\ float' = Floats!minInterpolate(float, elsewhere, part, 2)
                /\ exact' = exact + (Floats!minDifference(float, elsewhere) * part) \div 2
    BY <1>8 DEF Floats!Interpolate
  <2> DEFINE elsewhere == Floats!withSameBounds(float, target)
             between == Floats!minDifference(float, elsewhere)
             way == (between * part) \div 2
  <2>2. BetweenBounds(elsewhere, lower)
    BY <1>1, <1>2, FloatAssumption, OnTheCircle
  <2>3. float' = Floats!PlusFloat(float, way) /\ exact' = exact + way
    BY <2>1 DEF Floats!minInterpolate
  <2> HIDE DEF elsewhere
  <2>4. between \in Int
    BY <1>2, <1>3, <2>2
       DEF BetweenBounds, FloatRecords, Floats!minDifference, Floats!Interval
  <2> HIDE DEF between
  <2>5. way \in Int
    BY <2>4
  <2> HIDE DEF way
  <2>6. BetweenBounds(float', lower) /\ Stands(float') = exact + way
    BY <1>1, <1>2, <2>3, <2>5, FloatAdds
  <2>7. QED
    BY <1>2, <2>3, <2>5, <2>6 DEF FloatInv, Stands
<1>9. CASE UNCHANGED <<float, exact>>
  BY <1>9 DEF FloatInv, Stands, BetweenBounds
<1>10. QED
  BY <1>4, <1>5, <1>6, <1>7, <1>8, <1>9 DEF Floats!Next, floatVars

(* What is between two numbers of a circle. *)
LEMMA AtPoint ==
    ASSUME NEW lower \in Int, BetweenBounds(float, lower), NEW point \in Int,
           lower <= point, point < lower + Interval0
    PROVE  BetweenBounds(Floats!At(point), lower) /\ Floats!At(point).wrapped = point
<1> DEFINE g == Floats!At(point)
<1>1. BetweenBounds(g, lower) /\ Stands(g) = point
  BY OnTheCircle DEF Floats!At
<1> HIDE DEF g
<1>2. /\ g.wrapped \in Int /\ g.revolutions \in Int
      /\ lower <= g.wrapped /\ g.wrapped < lower + Interval0
      /\ point = g.wrapped + Interval0 * g.revolutions
  BY <1>1 DEF BetweenBounds, FloatRecords, Stands
<1>3. point = g.wrapped
  BY <1>2, SameOnCircle
<1>4. QED
  BY <1>1, <1>3 DEF g

LEMMA UpIs ==
    ASSUME NEW lower \in Int, NEW from \in Int, NEW to \in Int,
           lower <= from, from < lower + Interval0, lower <= to, to < lower + Interval0
    PROVE  Floats!Up(from, to) = IF to >= from THEN to - from ELSE to - from + Interval0
<1> DEFINE x == to - from
           k == x \div Interval0
           y == x % Interval0
<1>1. Interval0 \in Nat \ {0} /\ x \in Int
  BY FloatAssumption
<1>2. k \in Int /\ y \in 0 .. Interval0 - 1 /\ x = Interval0 * k + y
  BY <1>1, Division, Zenon
<1>3. Floats!Up(from, to) = y
  BY DEF Floats!Up
<1> HIDE DEF k, y
<1>4. Interval0 * (k + 1) = Interval0 * k + Interval0 /\ Interval0 * k \in Int
  BY <1>1, <1>2
<1>5. CASE to >= from
  <2>1. /\ 0 \in Int /\ x \in Int /\ y \in Int /\ k \in Int
        /\ 0 <= x /\ x < 0 + Interval0 /\ 0 <= y /\ y < 0 + Interval0
        /\ x = y + Interval0 * k
    BY <1>1, <1>2, <1>4, <1>5
  <2> HIDE DEF x
  <2>2. x = y
    BY <2>1, SameOnCircle
  <2>3. QED
    BY <1>3, <1>5, <2>2 DEF x
<1>6. CASE ~(to >= from)
  <2> DEFINE z == x + Interval0
             j == k + 1
  <2>1. /\ 0 \in Int /\ z \in Int /\ y \in Int /\ j \in Int
        /\ 0 <= z /\ z < 0 + Interval0 /\ 0 <= y /\ y < 0 + Interval0
        /\ z = y + Interval0 * j
    BY <1>1, <1>2, <1>4, <1>6
  <2> HIDE DEF z, j
  <2>2. z = y
    BY <2>1, SameOnCircle
  <2>3. QED
    BY <1>3, <1>6, <2>2 DEF z
<1>7. QED
  BY <1>5, <1>6

(* minDifference() is the short way, and as long as the nearer of the two. *)
LEMMA ShortWay ==
    ASSUME NEW lower \in Int, BetweenBounds(float, lower), NEW point \in Int,
           lower <= point, point < lower + Interval0,
           NEW way, way = Floats!minDifference(float, Floats!At(point)),
           NEW near, near = Floats!Nearness(float.wrapped, point)
    PROVE  /\ way \in Int /\ near \in Int /\ (way = near \/ way = -near)
           /\ Floats!Abs(way) = near
           /\ near = IF Floats!Abs(point - float.wrapped) < Interval0 - Floats!Abs(point - float.wrapped)
                     THEN Floats!Abs(point - float.wrapped)
                     ELSE Interval0 - Floats!Abs(point - float.wrapped)
           /\ way \in {point - float.wrapped, point - float.wrapped + Interval0,
                       point - float.wrapped - Interval0}
<1> DEFINE w == float.wrapped
<1>1. /\ Interval0 \in Nat \ {0} /\ w \in Int /\ lower <= w /\ w < lower + Interval0
      /\ float.upper - float.lower = Interval0
  BY FloatAssumption DEF BetweenBounds, FloatRecords
<1>2. Floats!At(point).wrapped = point
  BY AtPoint
<1>3. way = LET between == point - w
                around == IF between < 0 THEN between + Interval0 ELSE between - Interval0
            IN  IF Floats!Abs(between) < Floats!Abs(around) THEN between ELSE around
  BY <1>1, <1>2 DEF Floats!minDifference, Floats!Interval
<1> HIDE DEF w
<1>4. /\ Floats!Up(w, point) = IF point >= w THEN point - w ELSE point - w + Interval0
      /\ Floats!Up(point, w) = IF w >= point THEN w - point ELSE w - point + Interval0
  BY <1>1, UpIs
<1>5. near = IF Floats!Up(w, point) < Floats!Up(point, w) THEN Floats!Up(w, point)
             ELSE Floats!Up(point, w)
  BY DEF Floats!Nearness, w
<1>6. CASE point > w
  BY <1>1, <1>3, <1>4, <1>5, <1>6 DEF Floats!Abs, w
<1>7. CASE point = w
  BY <1>1, <1>3, <1>4, <1>5, <1>7 DEF Floats!Abs, w
<1>8. CASE point < w
  BY <1>1, <1>3, <1>4, <1>5, <1>8 DEF Floats!Abs, w
<1>9. QED
  BY <1>1, <1>6, <1>7, <1>8

LEMMA WayLeads ==
    ASSUME NEW lower \in Int, BetweenBounds(float, lower), NEW point \in Int,
           lower <= point, point < lower + Interval0
    PROVE  /\ Floats!PlusFloat(float, Floats!minDifference(float, Floats!At(point))).wrapped = point
           /\ Floats!minDifference(float, Floats!At(point))
                  \in {Floats!Nearness(float.wrapped, point), -Floats!Nearness(float.wrapped, point)}
<1> DEFINE w == float.wrapped
           turns == float.revolutions
           way == Floats!minDifference(float, Floats!At(point))
           near == Floats!Nearness(float.wrapped, point)
           sum == Floats!PlusFloat(float, way)
<1>1. /\ way \in Int /\ (way = near \/ way = -near)
      /\ way \in {point - w, point - w + Interval0, point - w - Interval0}
  BY ShortWay
<1> HIDE DEF way, near
<1>2. /\ Interval0 \in Nat \ {0} /\ w \in Int /\ turns \in Int /\ Interval0 * turns \in Int
      /\ Stands(float) = w + Interval0 * turns
  BY FloatAssumption DEF BetweenBounds, FloatRecords, Stands
<1>3. BetweenBounds(sum, lower) /\ Stands(sum) = Stands(float) + way
  BY <1>1, FloatAdds
<1> HIDE DEF sum, w, turns
<1>4. /\ sum.wrapped \in Int /\ sum.revolutions \in Int
      /\ lower <= sum.wrapped /\ sum.wrapped < lower + Interval0
      /\ sum.wrapped + Interval0 * sum.revolutions = w + Interval0 * turns + way
      /\ Interval0 * sum.revolutions \in Int
  BY <1>2, <1>3 DEF BetweenBounds, FloatRecords, Stands
<1>5. PICK j \in {-1, 0, 1} : way = point - w + Interval0 * j
  <2>1. Interval0 * 0 = 0 /\ Interval0 * 1 = Interval0 /\ Interval0 * (-1) = -Interval0
    BY <1>2
  <2>2. \/ way = point - w + Interval0 * 0 \/ way = point - w + Interval0 * 1
        \/ way = point - w + Interval0 * (-1)
    BY <1>1, <1>2, <2>1
  <2>3. QED
    BY <2>2
<1> DEFINE k == turns + j - sum.revolutions
<1>6. Interval0 * (turns + j) = Interval0 * turns + Interval0 * j
      /\ Interval0 * k = Interval0 * (turns + j) - Interval0 * sum.revolutions
  <2>1. turns + j \in Int /\ j \in Int /\ Interval0 \in Int
    BY <1>2, <1>5
  <2>2. QED
    BY <1>2, <1>4, <2>1, Distributes
<1>7. Interval0 * j \in Int /\ k \in Int
  BY <1>2, <1>4, <1>5
<1> HIDE DEF k
<1>8. sum.wrapped = point + Interval0 * k /\ Interval0 * k \in Int
  BY <1>1, <1>2, <1>4, <1>5, <1>6, <1>7
<1>9. sum.wrapped = point
  BY <1>4, <1>7, <1>8, SameOnCircle
<1>10. QED
  BY <1>1, <1>9 DEF sum, way, near

(* limitValue() keeps what is inside of the range, and takes the nearer end. *)
LEMMA LimitTakesNearer ==
    ASSUME NEW lower \in Int, BetweenBounds(float, lower),
           NEW min \in Int, lower <= min, min < lower + Interval0,
           NEW max \in Int, lower <= max, max < lower + Interval0
    PROVE  LET limited == Floats!limitValue(float, Floats!At(min), Floats!At(max))
           IN  IF min = max \/ Floats!Up(min, float.wrapped) <= Floats!Up(min, max)
               THEN limited = float.wrapped
               ELSE /\ limited \in {min, max}
                    /\ \A bound \in {min, max} :
                           Floats!Nearness(float.wrapped, limited)
                               <= Floats!Nearness(float.wrapped, bound)
<1> DEFINE w == float.wrapped
           toMin == Floats!minDifference(float, Floats!At(min))
           toMax == Floats!minDifference(float, Floats!At(max))
           nearMin == Floats!Nearness(w, min)
           nearMax == Floats!Nearness(w, max)
           within == Floats!withinRange(float, Floats!At(min), Floats!At(max))
           limited == Floats!limitValue(float, Floats!At(min), Floats!At(max))
<1>1. Interval0 \in Nat \ {0} /\ w \in Int /\ lower <= w /\ w < lower + Interval0
  BY FloatAssumption DEF BetweenBounds, FloatRecords
<1>2. Floats!At(min).wrapped = min /\ Floats!At(max).wrapped = max
  BY AtPoint
<1>3. /\ Floats!Up(min, w) = IF w >= min THEN w - min ELSE w - min + Interval0
      /\ Floats!Up(min, max) = IF max >= min THEN max - min ELSE max - min + Interval0
  BY <1>1, UpIs
<1>4. within <=> \/ min < max /\ w > min /\ w < max
                 \/ min > max /\ (w > min \/ w < max)
  BY <1>2 DEF Floats!withinRange
<1>5. limited = IF min = max \/ within THEN w
                ELSE IF Floats!Abs(toMin) < Floats!Abs(toMax) THEN min ELSE max
  BY <1>2 DEF Floats!limitValue
<1>6. /\ Floats!Abs(toMin) = nearMin /\ nearMin \in Int
      /\ nearMin = IF Floats!Abs(min - w) < Interval0 - Floats!Abs(min - w)
                   THEN Floats!Abs(min - w) ELSE Interval0 - Floats!Abs(min - w)
  BY ShortWay
<1>7. /\ Floats!Abs(toMax) = nearMax /\ nearMax \in Int
      /\ nearMax = IF Floats!Abs(max - w) < Interval0 - Floats!Abs(max - w)
                   THEN Floats!Abs(max - w) ELSE Interval0 - Floats!Abs(max - w)
  BY ShortWay
<1> HIDE DEF toMin, toMax, nearMin, nearMax, within, limited, w
<1>8. CASE min = max \/ within
  <2>1. min = max \/ Floats!Up(min, w) <= Floats!Up(min, max)
    BY <1>1, <1>3, <1>4, <1>8
  <2>2. QED
    BY <1>5, <1>8, <2>1 DEF limited, w
<1>9. CASE ~(min = max \/ within) /\ Floats!Up(min, w) <= Floats!Up(min, max)
  <2>1. w = min \/ w = max
    BY <1>1, <1>3, <1>4, <1>9
  <2>2. CASE w = min
    <3>1. nearMin = 0 /\ nearMax > 0
      BY <1>1, <1>6, <1>7, <1>9, <2>2 DEF Floats!Abs
    <3>2. limited = w
      BY <1>5, <1>6, <1>7, <1>9, <2>2, <3>1
    <3>3. QED
      BY <1>9, <3>2 DEF limited, w
  <2>3. CASE w = max
    <3>1. nearMax = 0 /\ nearMin > 0
      BY <1>1, <1>6, <1>7, <1>9, <2>3 DEF Floats!Abs
    <3>2. limited = w
      BY <1>5, <1>6, <1>7, <1>9, <2>3, <3>1
    <3>3. QED
      BY <1>9, <3>2 DEF limited, w
  <2>4. QED
    BY <2>1, <2>2, <2>3
<1>10. CASE ~(min = max \/ within) /\ ~(Floats!Up(min, w) <= Floats!Up(min, max))
  <2>1. CASE nearMin < nearMax
    <3>1. limited = min
      BY <1>5, <1>6, <1>7, <1>10, <2>1
    <3>2. nearMin <= nearMin /\ nearMin <= nearMax
      BY <1>6, <1>7, <2>1
    <3>3. QED
      BY <1>10, <3>1, <3>2 DEF limited, nearMin, nearMax, w
  <2>2. CASE ~(nearMin < nearMax)
    <3>1. limited = max
      BY <1>5, <1>6, <1>7, <1>10, <2>2
    <3>2. nearMax <= nearMin /\ nearMax <= nearMax
      BY <1>6, <1>7, <2>2
    <3>3. QED
      BY <1>10, <3>1, <3>2 DEF limited, nearMin, nearMax, w
  <2>3. QED
    BY <2>1, <2>2
<1>11. QED
  BY <1>8, <1>9, <1>10

LEMMA FloatObeys == FloatInv => Floats!CircleLaws
<1> SUFFICES ASSUME FloatInv PROVE Floats!CircleLaws
  OBVIOUS
<1>1. PICK lower \in Lowers : BetweenBounds(float, lower)
  BY DEF FloatInv
<1>2. /\ lower \in Int /\ Interval0 \in Nat \ {0} /\ float.wrapped \in Int
      /\ float.lower = lower /\ float.upper = lower + Interval0
      /\ lower <= float.wrapped /\ float.wrapped < lower + Interval0
      /\ float.upper - float.lower = Interval0
  BY <1>1, FloatAssumption DEF BetweenBounds, FloatRecords
<1>3. Floats!Circle \subseteq Int
      /\ \A point \in Floats!Circle : lower <= point /\ point < lower + Interval0
  BY <1>2 DEF Floats!Circle
<1>4. Floats!UnwrapsExactly
  <2>1. float.wrapped \in Floats!Circle
    BY <1>2 DEF Floats!Circle
  <2>2. Floats!getUnwrappedValue(float) = exact
    BY <1>2 DEF FloatInv, Stands, Floats!getUnwrappedValue, Floats!Interval
  <2>3. QED
    BY <2>1, <2>2 DEF Floats!UnwrapsExactly
<1>5. Floats!GoesTheShortWay
  BY <1>1, <1>2, <1>3, WayLeads DEF Floats!GoesTheShortWay
<1>6. Floats!LimitsToNearest
  <2> SUFFICES ASSUME NEW min \in Floats!Circle, NEW max \in Floats!Circle
               PROVE  LET limited == Floats!limitValue(float, Floats!At(min), Floats!At(max))
                      IN  IF min = max \/ float.wrapped \in Floats!Arc(min, max)
                          THEN limited = float.wrapped
                          ELSE /\ limited \in {min, max}
                               /\ \A bound \in {min, max} :
                                      Floats!Nearness(float.wrapped, limited)
                                          <= Floats!Nearness(float.wrapped, bound)
    BY DEF Floats!LimitsToNearest
  <2>1. float.wrapped \in Floats!Arc(min, max)
            <=> Floats!Up(min, float.wrapped) <= Floats!Up(min, max)
    BY <1>2 DEF Floats!Arc, Floats!Circle
  <2>2. /\ min \in Int /\ lower <= min /\ min < lower + Interval0
        /\ max \in Int /\ lower <= max /\ max < lower + Interval0
    BY <1>3
  <2>3. QED
    BY <1>1, <1>2, <2>1, <2>2, LimitTakesNearer
<1>7. QED
  BY <1>4, <1>5, <1>6 DEF Floats!CircleLaws

-----------------------------------------------------------------------------
Timer == INSTANCE Timers

timerVars == <<time, period, periodicTimeout, start, fired, timeout, timer, unmet,
               profiledElements, calls, durations, overwritten, pushes>>

(* The timers, as long as their counter has not wrapped. *)
LEMMA SmallRemainder ==
    ASSUME NEW n \in Nat \ {0}, NEW x \in 0 .. n - 1 PROVE x % n = x
<1> DEFINE k == x \div n
           y == x % n
<1>1. k \in Int /\ y \in 0 .. n - 1 /\ x = n * k + y
  BY Division
<1> HIDE DEF k, y
<1>2. n * k \in Int /\ -(2 * n) < n * k /\ n * k < 2 * n /\ -n < n * k /\ n * k < n
  BY <1>1
<1>3. k \in {-1, 0, 1}
  BY <1>1, <1>2, FewTurns
<1>4. k = 0
  BY <1>2, <1>3
<1>5. QED
  BY <1>1, <1>4 DEF y

LEMMA QuotientIs ==
    ASSUME NEW n \in Nat \ {0}, NEW x \in Int, NEW q \in Int, n * q <= x, x < n * q + n
    PROVE  x \div n = q
<1> DEFINE k == x \div n
           y == x % n
<1>1. k \in Int /\ y \in 0 .. n - 1 /\ x = n * k + y
  BY Division
<1> HIDE DEF k, y
<1>2. n * (k - q) = n * k - n * q /\ n * k \in Int /\ n * q \in Int /\ k - q \in Int
  BY <1>1, Distributes
<1>3. /\ -(2 * n) < n * (k - q) /\ n * (k - q) < 2 * n
      /\ -n < n * (k - q) /\ n * (k - q) < n
  BY <1>1, <1>2
<1> DEFINE d == k - q
<1>4. d \in Int /\ -(2 * n) < n * d /\ n * d < 2 * n
  BY <1>2, <1>3
<1> HIDE DEF d
<1>5. d \in {-1, 0, 1}
  BY <1>4, FewTurns
<1>6. d = 0
  BY <1>3, <1>5 DEF d
<1>7. QED
  BY <1>1, <1>6 DEF k, d

ClockRuns == time \in Nat /\ time <= Horizon

LEMMA NowIsTime == ClockRuns => Timer!now = time
<1> SUFFICES ASSUME ClockRuns PROVE Timer!now = time
  OBVIOUS
<1>1. ClockPeriod \in Nat \ {0} /\ time \in 0 .. ClockPeriod - 1
  BY TimerAssumption DEF ClockRuns
<1>2. QED
  BY <1>1, SmallRemainder DEF Timer!now

Timeouts0 == [isRunning : BOOLEAN, isExecuted : {FALSE}, expireTime : Nat]

(* What restart() sets. *)
LEMMA Restarts ==
    ASSUME ClockRuns, NEW duration \in Periods \union Timeouts
    PROVE  Timer!restart(duration)
               = [isRunning |-> TRUE, isExecuted |-> FALSE, expireTime |-> time + duration]
<1>1. ClockPeriod \in Nat \ {0} /\ time + duration \in 0 .. ClockPeriod - 1
  BY TimerAssumption DEF ClockRuns
<1>2. (time + duration) % ClockPeriod = time + duration
  BY <1>1, SmallRemainder
<1>3. QED
  BY <1>2, NowIsTime, Zenon DEF Timer!restart

(* The timer runs out `timeout' after the condition was last seen not to hold. *)
ConditionalInv ==
    /\ ClockRuns
    /\ timeout \in Timeouts /\ unmet \in Int
    /\ timer \in Timeouts0
    /\ timer.isRunning => timer.expireTime = unmet + timeout

LEMMA ConditionalStep ==
    ASSUME ConditionalInv, ClockRuns',
           Timer!Next \/ UNCHANGED timerVars
    PROVE  ConditionalInv'
<1>1. CASE UNCHANGED <<timeout, unmet, timer>>
  BY <1>1 DEF ConditionalInv
<1>2. ASSUME NEW t \in Timeouts, Timer!ConditionalRestart(t) PROVE ConditionalInv'
  <2>1. timer' = [isRunning |-> TRUE, isExecuted |-> FALSE, expireTime |-> time + t]
        /\ timeout' = t /\ unmet' = time
    BY <1>2, Restarts DEF Timer!ConditionalRestart, ConditionalInv
  <2>2. t \in Nat /\ time \in Nat
    BY TimerAssumption DEF ConditionalInv, ClockRuns
  <2>3. QED
    BY <2>1, <2>2 DEF ConditionalInv, Timeouts0
<1>3. CASE Timer!ConditionalStop
  BY <1>3, Zenon DEF Timer!ConditionalStop, Timer!stop, ConditionalInv, Timeouts0
<1>4. ASSUME NEW cond \in BOOLEAN, Timer!ConditionalExecute(cond) PROVE ConditionalInv'
  <2>1. CASE cond
    BY <1>1, <1>4, <2>1 DEF Timer!ConditionalExecute, Timer!Executed
  <2>2. CASE ~cond
    <3>1. timer' = Timer!restart(timeout) /\ unmet' = time /\ timeout' = timeout
      BY <1>4, <2>2 DEF Timer!ConditionalExecute, Timer!Executed
    <3>2. timer' = [isRunning |-> TRUE, isExecuted |-> FALSE, expireTime |-> time + timeout]
      BY <3>1, Restarts DEF ConditionalInv
    <3>3. timeout \in Nat /\ time \in Nat
      BY TimerAssumption DEF ConditionalInv, ClockRuns
    <3>4. QED
      BY <3>1, <3>2, <3>3 DEF ConditionalInv, Timeouts0
  <2>3. QED
    BY <2>1, <2>2
<1>5. Timer!Conditional \/ UNCHANGED <<timeout, unmet, timer>>
  BY Zenon DEF Timer!Next, Timer!Tick, Timer!Periodic, Timer!PeriodicRestart, Timer!PeriodicStop,
         Timer!PeriodicExecute, Timer!Profiling, Timer!push, Timer!pop, Timer!resetProfile,
         Timer!conditionalVars, timerVars
<1>6. QED
  BY <1>1, <1>2, <1>3, <1>4, <1>5 DEF Timer!Conditional

LEMMA ConditionHolds == ConditionalInv => Timer!HeldLongEnough
<1> SUFFICES ASSUME ConditionalInv, NEW cond \in BOOLEAN
             PROVE  Timer!Returned(cond) <=> cond /\ timer.isRunning /\ time - unmet >= timeout
  BY DEF Timer!HeldLongEnough
<1>1. /\ Timer!now = time /\ time \in Nat /\ timeout \in Nat /\ timeout > 0 /\ unmet \in Int
      /\ timer.isRunning => timer.expireTime = unmet + timeout
  BY NowIsTime, TimerAssumption DEF ConditionalInv, ClockRuns
<1>2. CASE cond
  BY <1>1, <1>2 DEF Timer!Returned, Timer!Executed, Timer!isExpired
<1>3. CASE ~cond
  <2>1. Timer!Executed(cond)
            = [isRunning |-> TRUE, isExecuted |-> FALSE, expireTime |-> time + timeout]
    BY <1>3, Restarts DEF Timer!Executed, ConditionalInv
  <2>2. QED
    BY <1>1, <1>3, <2>1 DEF Timer!Returned, Timer!isExpired
<1>4. QED
  BY <1>2, <1>3

(* The next expire time is that of the period after the one it fires in. *)
PeriodicInv ==
    /\ ClockRuns
    /\ period \in Periods /\ start \in Nat /\ start <= time /\ fired \subseteq Nat
    /\ periodicTimeout \in Timeouts0
    /\ periodicTimeout.isRunning =>
           \E k \in Nat \ {0} :
               /\ periodicTimeout.expireTime = start + period * k
               /\ \A t \in fired : Timer!Interval(t) < k
               /\ k = 1 \/ \E t \in fired : Timer!Interval(t) = k - 1

LEMMA PeriodIs ==
    ASSUME PeriodicInv PROVE period \in Nat \ {0} /\ time \in Nat /\ time + period < ClockPeriod
BY TimerAssumption DEF PeriodicInv, ClockRuns

(* The loop of execute() goes on by the periods that have passed, and one. *)
LEMMA LoopFinds ==
    ASSUME PeriodicInv, NEW expireTime \in Nat, expireTime <= time
    PROVE  LET next == expireTime + period * ((time - expireTime) \div period + 1)
           IN  /\ Timer!NextExpireTime(expireTime) = next
               /\ time < next /\ next <= time + period
<1> DEFINE q == (time - expireTime) \div period
           j == q + 1
           next == expireTime + period * j
           Step(k) == (expireTime + k * period) % ClockPeriod
           Found(k) == Step(k) > time /\ \A i \in 1 .. k - 1 : Step(i) <= time
           last == CHOOSE k \in 1 .. ClockPeriod : Found(k)
<1>1. /\ period \in Nat \ {0} /\ time \in Nat /\ time + period < ClockPeriod
      /\ ClockPeriod \in Nat \ {0} /\ time - expireTime \in Int
  BY PeriodIs, TimerAssumption
<1>2. /\ q \in Int /\ (time - expireTime) % period \in 0 .. period - 1
      /\ time - expireTime = period * q + ((time - expireTime) % period)
  BY <1>1, Division, Zenon
<1> HIDE DEF q
<1>3. period * q \in Int /\ period * q <= time - expireTime /\ time - expireTime < period * q + period
  BY <1>1, <1>2
<1>4. period * j = period * q + period /\ period * j \in Int
  BY <1>1, <1>2
<1>5. time < next /\ next <= time + period
  BY <1>1, <1>3, <1>4
<1>6. j \in Nat \ {0} /\ j <= period * j
  <2>1. q >= 0
    <3>1. SUFFICES ASSUME q <= -1 PROVE FALSE
      BY <1>2
    <3>2. period * (-1 - q) >= 0
      BY <1>1, <1>2, <3>1
    <3>3. period * (-1 - q) = period * (-1) - period * q
      BY <1>1, <1>2, Distributes
    <3>4. QED
      BY <1>1, <1>3, <3>2, <3>3
  <2>2. j \in Nat \ {0}
    BY <1>2, <2>1
  <2> HIDE DEF j
  <2>3. j * (period - 1) >= 0 /\ j * (period - 1) = j * period - j * 1
    BY <1>1, <2>2, Distributes
  <2>4. QED
    BY <1>1, <2>2, <2>3
<1>7. j \in 1 .. ClockPeriod
  BY <1>1, <1>4, <1>5, <1>6
<1> HIDE DEF j
<1>8. Step(j) = next
  <2>1. j * period = period * j /\ next \in 0 .. ClockPeriod - 1
    BY <1>1, <1>4, <1>5, <1>6
  <2>2. QED
    BY <1>1, <2>1, SmallRemainder
<1>9. \A i \in 1 .. j - 1 : Step(i) <= time
  <2> TAKE i \in 1 .. j - 1
  <2> DEFINE a == expireTime + i * period
  <2>1. i \in Nat /\ q - i \in Nat
    BY <1>2, <1>6 DEF j
  <2>2. period * (q - i) >= 0 /\ period * (q - i) = period * q - period * i
    BY <1>1, <1>2, <2>1, Distributes
  <2>3. i * period = period * i /\ i * period \in Nat
    BY <1>1, <2>1
  <2>4. a \in 0 .. ClockPeriod - 1 /\ a <= time
    BY <1>1, <1>3, <2>2, <2>3
  <2>5. a % ClockPeriod = a
    BY <1>1, <2>4, SmallRemainder
  <2>6. QED
    BY <2>4, <2>5
<1>10. Timer!NextExpireTime(expireTime) = Step(last)
  BY NowIsTime DEF PeriodicInv, Timer!NextExpireTime
<1>11. Found(j)
  BY <1>5, <1>8, <1>9
<1>12. last \in 1 .. ClockPeriod /\ Found(last)
  BY <1>7, <1>11
<1> HIDE DEF last
<1>15. Step(last) \in Int /\ Step(j) \in Int
  BY <1>1, <1>6, <1>12
<1> HIDE DEF Step, next
<1>13. last = j
  <2>1. j \in Int /\ last \in Int /\ last >= 1 /\ j >= 1
    BY <1>6, <1>12
  <2>2. ASSUME last < j PROVE FALSE
    <3>1. last \in 1 .. j - 1
      BY <2>1, <2>2
    <3>2. Step(last) <= time
      BY <1>9, <3>1
    <3>3. QED
      BY <1>1, <1>12, <1>15, <3>2
  <2>3. ASSUME j < last PROVE FALSE
    <3>1. j \in 1 .. last - 1
      BY <2>1, <2>3
    <3>2. Step(j) <= time
      BY <1>12, <3>1
    <3>3. QED
      BY <1>1, <1>11, <1>15, <3>2
  <2>4. QED
    BY <2>1, <2>2, <2>3
<1>14. QED
  BY <1>5, <1>8, <1>10, <1>13 DEF next, j, q

LEMMA PeriodicStarts ==
    ASSUME ClockRuns, NEW p \in Periods,
           period' = p, periodicTimeout' = Timer!restart(p), start' = time, fired' = {}, ClockRuns',
           time' = time
    PROVE  PeriodicInv'
<1>1. p \in Nat \ {0} /\ time \in Nat /\ p * 1 = p /\ time + p \in Nat
  BY TimerAssumption DEF ClockRuns
<1>2. periodicTimeout' = [isRunning |-> TRUE, isExecuted |-> FALSE, expireTime |-> time + p]
  BY Restarts
<1>3. /\ periodicTimeout'.expireTime = start' + period' * 1
      /\ (\A t \in fired : Timer!Interval(t) < 1)'
  BY <1>1, <1>2
<1>4. periodicTimeout' \in Timeouts0
  BY <1>1, <1>2 DEF Timeouts0
<1>5. QED
  BY <1>1, <1>3, <1>4 DEF PeriodicInv

LEMMA PeriodicFires ==
    ASSUME PeriodicInv, Timer!PeriodicExecute PROVE PeriodicInv'
<1>1. UNCHANGED <<time, period, start>>
  BY DEF Timer!PeriodicExecute
<1>2. CASE ~Timer!Executes(periodicTimeout)
  <2>1. UNCHANGED <<periodicTimeout, fired>>
    BY <1>2 DEF Timer!PeriodicExecute
  <2>2. QED
    BY <1>1, <2>1 DEF PeriodicInv, ClockRuns, Timer!Interval
<1>3. CASE Timer!Executes(periodicTimeout)
  <2> DEFINE expire == periodicTimeout.expireTime
             q == (time - expire) \div period
             next == expire + period * (q + 1)
  <2>1. periodicTimeout.isRunning /\ expire \in Nat /\ expire <= time
    BY <1>3, NowIsTime DEF Timer!Executes, Timer!isExpired, PeriodicInv, ClockRuns, Timeouts0
  <2>2. PICK k \in Nat \ {0} :
            /\ expire = start + period * k
            /\ \A t \in fired : Timer!Interval(t) < k
    BY <2>1 DEF PeriodicInv
  <2>3. period \in Nat \ {0} /\ time \in Nat /\ start \in Nat /\ fired \subseteq Nat
    BY PeriodIs DEF PeriodicInv
  <2>4. periodicTimeout' = [isRunning |-> TRUE, isExecuted |-> FALSE,
                            expireTime |-> Timer!NextExpireTime(expire)]
        /\ fired' = fired \union {time}
    BY <1>3 DEF Timer!PeriodicExecute
  <2>5. Timer!NextExpireTime(expire) = next /\ time < next /\ next <= time + period
    BY <2>1, LoopFinds
  <2> HIDE DEF expire
  <2>6. time - expire \in Nat /\ q \in Int
    BY <2>1, <2>3, Division
  <2> HIDE DEF q
  <2>7. /\ period * k \in Int /\ period * q \in Int /\ period * (q + 1) = period * q + period
        /\ period * (k + q) = period * k + period * q
        /\ period * (k + q + 1) = period * (k + q) + period
    BY <2>2, <2>3, <2>6
  <2>8. next = start + period * (k + q + 1)
    BY <2>1, <2>2, <2>3, <2>6, <2>7
  <2>9. period * (k + q) <= time - start /\ time - start < period * (k + q) + period
    BY <2>1, <2>2, <2>3, <2>5, <2>6, <2>7
  <2>10. Timer!Interval(time) = k + q
    <3>1. time - start \in Int /\ k + q \in Int
      BY <2>2, <2>3, <2>6
    <3>2. (time - start) \div period = k + q
      BY <2>3, <2>9, <3>1, QuotientIs
    <3>3. QED
      BY <3>2 DEF Timer!Interval
  <2>11. q >= 0
    <3>1. SUFFICES ASSUME q <= -1 PROVE FALSE
      BY <2>6
    <3>2. period * (-1 - q) >= 0 /\ period * (-1 - q) = period * (-1) - period * q
      BY <2>3, <2>6, <3>1, Distributes
    <3>3. period * (-1) = -period
      BY <2>3
    <3>4. QED
      BY <2>1, <2>3, <2>5, <2>6, <2>7, <3>2, <3>3
  <2> PICK m \in Nat \ {0} : m = k + q + 1
    BY <2>2, <2>6, <2>11
  <2>12. m \in Nat \ {0} /\ m = k + q + 1 /\ k < m /\ k + q < m /\ m - 1 = k + q
    BY <2>2, <2>6, <2>11
  <2>13. next \in Nat
    BY <2>1, <2>3, <2>5, <2>6, <2>7
  <2> HIDE DEF next
  <2>14. periodicTimeout' \in Timeouts0 /\ periodicTimeout'.expireTime = start + period * m
    BY <2>4, <2>5, <2>8, <2>12, <2>13 DEF Timeouts0
  <2>15. \A t \in fired \union {time} : Timer!Interval(t) < m
    <3>1. \A t \in fired : Timer!Interval(t) \in Int
      BY <2>3, Division DEF Timer!Interval
    <3>2. QED
      BY <2>2, <2>6, <2>10, <2>12, <3>1
  <2>16. \E t \in fired \union {time} : Timer!Interval(t) = m - 1
    BY <2>10, <2>12
  <2>17. fired \union {time} \subseteq Nat
    BY <2>3
  <2>18. /\ periodicTimeout'.expireTime = start' + period' * m
         /\ (\A t \in fired : Timer!Interval(t) < m)'
         /\ (\E t \in fired : Timer!Interval(t) = m - 1)'
    <3>1. periodicTimeout'.expireTime = start' + period' * m
      BY <1>1, <2>14
    <3>2. \A t \in fired' : (Timer!Interval(t) < m)'
      BY <1>1, <2>4, <2>15 DEF Timer!Interval
    <3>3. \E t \in fired' : (Timer!Interval(t) = m - 1)'
      BY <1>1, <2>4, <2>16 DEF Timer!Interval
    <3>4. QED
      BY <3>1, <3>2, <3>3
  <2>19. (\E n \in Nat \ {0} :
              /\ periodicTimeout.expireTime = start + period * n
              /\ \A t \in fired : Timer!Interval(t) < n
              /\ n = 1 \/ \E t \in fired : Timer!Interval(t) = n - 1)'
    BY <2>12, <2>18
  <2>20. /\ ClockRuns' /\ period' \in Periods /\ start' \in Nat /\ start' <= time'
         /\ fired' \subseteq Nat /\ periodicTimeout' \in Timeouts0
    BY <1>1, <2>4, <2>14, <2>17 DEF PeriodicInv, ClockRuns
  <2>21. QED
    BY <2>19, <2>20 DEF PeriodicInv
<1>4. QED
  BY <1>2, <1>3

LEMMA PeriodicStep ==
    ASSUME PeriodicInv, ClockRuns', time' \in {time, time + 1},
           Timer!Next \/ UNCHANGED timerVars
    PROVE  PeriodicInv'
<1>1. CASE UNCHANGED Timer!periodicVars
  <2>1. time' \in Nat /\ start <= time'
    BY DEF PeriodicInv, ClockRuns
  <2>2. QED
    BY <1>1, <2>1 DEF Timer!periodicVars, PeriodicInv, Timer!Interval
<1>2. ASSUME NEW p \in Periods, Timer!PeriodicRestart(p) PROVE PeriodicInv'
  BY <1>2, PeriodicStarts DEF Timer!PeriodicRestart, PeriodicInv
<1>3. CASE Timer!PeriodicStop
  <2>1. periodicTimeout' \in Timeouts0 /\ ~periodicTimeout'.isRunning
        /\ UNCHANGED <<time, period, start, fired>>
    BY <1>3, Zenon DEF Timer!PeriodicStop, Timer!stop, PeriodicInv, Timeouts0
  <2>2. QED
    BY <2>1 DEF PeriodicInv
<1>4. Timer!Periodic \/ UNCHANGED Timer!periodicVars
  BY Zenon
     DEF Timer!Next, Timer!Tick, Timer!Conditional, Timer!ConditionalRestart, Timer!ConditionalStop,
         Timer!ConditionalExecute, Timer!Profiling, Timer!push, Timer!pop, Timer!resetProfile,
         Timer!periodicVars, timerVars
<1>5. QED
  BY <1>1, <1>2, <1>3, <1>4, PeriodicFires DEF Timer!Periodic

LEMMA PeriodicSays == PeriodicInv => Timer!OncePerPeriod
<1> SUFFICES ASSUME PeriodicInv, periodicTimeout.isRunning
             PROVE  Timer!Executes(periodicTimeout)
                        <=> /\ Timer!Interval(time) > 0
                            /\ \A t \in fired : Timer!Interval(t) < Timer!Interval(time)
  BY DEF Timer!OncePerPeriod
<1>1. PICK k \in Nat \ {0} :
          /\ periodicTimeout.expireTime = start + period * k
          /\ \A t \in fired : Timer!Interval(t) < k
          /\ k = 1 \/ \E t \in fired : Timer!Interval(t) = k - 1
  BY DEF PeriodicInv
<1>2. /\ period \in Nat \ {0} /\ time \in Nat /\ start \in Nat /\ fired \subseteq Nat
      /\ time - start \in Int
  BY PeriodIs DEF PeriodicInv
<1> DEFINE q == Timer!Interval(time)
<1>3. q \in Int /\ \A t \in fired : Timer!Interval(t) \in Int
  BY <1>2, Division DEF Timer!Interval
<1>4. period * q <= time - start /\ time - start < period * q + period /\ period * q \in Int
  <2>1. /\ (time - start) % period \in 0 .. period - 1
        /\ time - start = period * q + ((time - start) % period)
    BY <1>2, Division DEF Timer!Interval
  <2> HIDE DEF q
  <2>2. period * q \in Int
    BY <1>2, <1>3
  <2>3. QED
    BY <1>2, <2>1, <2>2
<1> HIDE DEF q
<1>5. Timer!Executes(periodicTimeout) <=> time >= start + period * k
  BY <1>1, NowIsTime, Zenon DEF PeriodicInv, Timeouts0, Timer!Executes, Timer!isExpired
<1>6. time >= start + period * k <=> q >= k
  <2>1. /\ period * (q - k) = period * q - period * k /\ period * k \in Int /\ q - k \in Int
    BY <1>1, <1>2, <1>3, Distributes
  <2>2. ASSUME q >= k PROVE time >= start + period * k
    <3>1. period * (q - k) >= 0
      BY <1>1, <1>2, <1>3, <2>2
    <3>2. QED
      BY <1>2, <1>4, <2>1, <3>1
  <2>3. ASSUME q < k PROVE ~(time >= start + period * k)
    <3>1. period * (k - q - 1) >= 0
      BY <1>1, <1>2, <1>3, <2>3
    <3>2. period * (k - (q + 1)) = period * k - period * (q + 1) /\ period * (q + 1) = period * q + period
      BY <1>1, <1>2, <1>3
    <3>3. k - q - 1 = k - (q + 1)
      BY <1>1, <1>3
    <3>4. QED
      BY <1>2, <1>4, <2>1, <3>1, <3>2, <3>3
  <2>4. QED
    BY <1>1, <1>3, <2>2, <2>3
<1>7. ASSUME q >= k PROVE q > 0 /\ \A t \in fired : Timer!Interval(t) < q
  BY <1>1, <1>3, <1>7
<1>8. ASSUME q > 0, \A t \in fired : Timer!Interval(t) < q PROVE q >= k
  BY <1>1, <1>3, <1>8
<1>9. QED
  BY <1>5, <1>6, <1>7, <1>8 DEF q

(* The profiler.  What lies between two times that the counter shows is what has
   passed, as long as the counter does not go once around. *)
LEMMA TimePassed ==
    ASSUME NEW n \in Nat \ {0}, NEW a \in Int, NEW b \in Int, b <= a, a - b < n
    PROVE  ((a % n) - (b % n)) % n = a - b
<1> DEFINE j == a \div n
           k == b \div n
           x == a % n
           y == b % n
<1>1. j \in Int /\ k \in Int /\ x \in 0 .. n - 1 /\ y \in 0 .. n - 1 /\ a = n * j + x /\ b = n * k + y
  BY Division
<1> HIDE DEF j, k, x, y
<1>2. n * (k - j) = n * k - n * j /\ n * k \in Int /\ n * j \in Int /\ k - j \in Int
  BY <1>1, Distributes
<1> DEFINE d == x - y
           q == k - j
<1>3. d \in Int /\ d = n * q + (a - b) /\ n * q <= d /\ d < n * q + n /\ q \in Int /\ n * q \in Int
  BY <1>1, <1>2
<1> HIDE DEF d, q
<1>4. d \div n = q
  BY <1>3, QuotientIs
<1>5. d = n * (d \div n) + (d % n) /\ d % n \in 0 .. n - 1
  BY <1>3, Division
<1>6. d % n = a - b
  BY <1>3, <1>4, <1>5
<1>7. QED
  BY <1>6 DEF d, x, y

CounterValues == 0 .. ClockPeriod - 1

ProfileRecords ==
    [name : Profiles, min : CounterValues, max : CounterValues, prevPushedTime : CounterValues]

CallRecords == [name : Profiles, key : Nat, since : Nat]

(* A call that runs is timed by the element of its name, or found no place. *)
Remembered(c) ==
    /\ c.since <= time
    /\ \/ /\ c.key < Len(profiledElements)
          /\ profiledElements[c.key + 1].name = c.name
          /\ c.name \notin overwritten =>
                 profiledElements[c.key + 1].prevPushedTime = (c.since + CounterAtBoot) % ClockPeriod
       \/ /\ c.key = Len(profiledElements) /\ c.key = MAX_PROFILED_ELEMENTS
          /\ \A i \in 1 .. Len(profiledElements) : profiledElements[i].name # c.name

Spans(e) ==
    e.name \notin overwritten =>
        IF durations[e.name] = {} THEN e.min = ClockPeriod - 1 /\ e.max = 0
        ELSE /\ e.min \in durations[e.name] /\ e.max \in durations[e.name]
             /\ \A d \in durations[e.name] : e.min <= d /\ d <= e.max

(* A name that was ever timed has its place, as long as there is one free. *)
Listed(name) ==
    Len(profiledElements) < MAX_PROFILED_ELEMENTS /\ durations[name] # {}
        => \E i \in 1 .. Len(profiledElements) : profiledElements[i].name = name

ProfilesTyped ==
    /\ profiledElements \in Seq(ProfileRecords) /\ Len(profiledElements) <= MAX_PROFILED_ELEMENTS
    /\ \A i, j \in 1 .. Len(profiledElements) :
           profiledElements[i].name = profiledElements[j].name => i = j
    /\ calls \in Seq(CallRecords)
    /\ durations \in [Profiles -> SUBSET Nat]

ProfilerInv ==
    /\ ClockRuns
    /\ ProfilesTyped
    /\ \A i \in 1 .. Len(calls) : Remembered(calls[i])
    /\ \A i \in 1 .. Len(profiledElements) : Spans(profiledElements[i])
    /\ \A name \in Profiles : Listed(name)

LEMMA ShownIsCounter == ClockRuns => Timer!getTimeMicroseconds \in CounterValues
BY TimerAssumption, Division DEF ClockRuns, Timer!getTimeMicroseconds, CounterValues

LEMMA ProfileFields ==
    ASSUME NEW e \in ProfileRecords
    PROVE  /\ e.name \in Profiles
           /\ e.min \in CounterValues /\ e.max \in CounterValues
           /\ e.prevPushedTime \in CounterValues
BY DEF ProfileRecords

LEMMA CallFields ==
    ASSUME NEW c \in CallRecords PROVE c.name \in Profiles /\ c.key \in Nat /\ c.since \in Nat
BY DEF CallRecords

(* The updates of an element. *)
LEMMA ProfileUpdates ==
    ASSUME NEW e \in ProfileRecords,
           NEW least \in CounterValues, NEW most \in CounterValues, NEW shown \in CounterValues
    PROVE  /\ [e EXCEPT !.prevPushedTime = shown]
                   = [name |-> e.name, min |-> e.min, max |-> e.max, prevPushedTime |-> shown]
           /\ [[e EXCEPT !.max = most] EXCEPT !.min = least]
                   = [name |-> e.name, min |-> least, max |-> most,
                      prevPushedTime |-> e.prevPushedTime]
           /\ [[e EXCEPT !.min = least] EXCEPT !.max = most]
                   = [name |-> e.name, min |-> least, max |-> most,
                      prevPushedTime |-> e.prevPushedTime]
           /\ [name |-> e.name, min |-> e.min, max |-> e.max, prevPushedTime |-> shown]
                   \in ProfileRecords
           /\ [name |-> e.name, min |-> least, max |-> most, prevPushedTime |-> e.prevPushedTime]
                   \in ProfileRecords
<1> DEFINE a == e.name
           b == e.min
           c == e.max
           d == e.prevPushedTime
<1>1. /\ e = [name |-> a, min |-> b, max |-> c, prevPushedTime |-> d]
      /\ a \in Profiles /\ b \in CounterValues /\ c \in CounterValues /\ d \in CounterValues
  BY DEF ProfileRecords
<1> HIDE DEF a, b, c, d
<1>2. /\ [e EXCEPT !.prevPushedTime = shown]
             = [name |-> a, min |-> b, max |-> c, prevPushedTime |-> shown]
      /\ [[e EXCEPT !.max = most] EXCEPT !.min = least]
             = [name |-> a, min |-> least, max |-> most, prevPushedTime |-> d]
      /\ [[e EXCEPT !.min = least] EXCEPT !.max = most]
             = [name |-> a, min |-> least, max |-> most, prevPushedTime |-> d]
  <2>1. /\ [e EXCEPT !.prevPushedTime = shown]
               = [name |-> a, min |-> b, max |-> c, prevPushedTime |-> shown]
        /\ [e EXCEPT !.max = most] = [name |-> a, min |-> b, max |-> most, prevPushedTime |-> d]
        /\ [e EXCEPT !.min = least] = [name |-> a, min |-> least, max |-> c, prevPushedTime |-> d]
    BY <1>1
  <2> DEFINE f == [name |-> a, min |-> b, max |-> most, prevPushedTime |-> d]
             g == [name |-> a, min |-> least, max |-> c, prevPushedTime |-> d]
  <2>2. /\ [f EXCEPT !.min = least]
               = [name |-> a, min |-> least, max |-> most, prevPushedTime |-> d]
        /\ [g EXCEPT !.max = most]
               = [name |-> a, min |-> least, max |-> most, prevPushedTime |-> d]
    OBVIOUS
  <2>3. QED
    BY <2>1, <2>2, Zenon
<1>3. /\ [name |-> a, min |-> b, max |-> c, prevPushedTime |-> shown] \in ProfileRecords
      /\ [name |-> a, min |-> least, max |-> most, prevPushedTime |-> d] \in ProfileRecords
  BY <1>1 DEF ProfileRecords
<1>4. QED
  BY <1>2, <1>3 DEF a, b, c, d

(* One element changes, and keeps its name. *)
ElementSet(k, e) ==
    /\ profiledElements' \in Seq(ProfileRecords)
    /\ Len(profiledElements') = Len(profiledElements)
    /\ profiledElements'[k] = e
    /\ e.name = profiledElements[k].name
    /\ \A i \in 1 .. Len(profiledElements) : i # k => profiledElements'[i] = profiledElements[i]

LEMMA SetsElement ==
    ASSUME ProfilesTyped, NEW k \in 1 .. Len(profiledElements), NEW e \in ProfileRecords,
           e.name = profiledElements[k].name,
           profiledElements' = [profiledElements EXCEPT ![k] = e]
    PROVE  ElementSet(k, e)
BY DEF ProfilesTyped, ElementSet

(* So the names of the table stay as they are. *)
LEMMA NamesKept ==
    ASSUME ProfilesTyped, NEW k \in 1 .. Len(profiledElements), NEW e, ElementSet(k, e)
    PROVE  /\ \A i \in 1 .. Len(profiledElements) :
                  profiledElements'[i].name = profiledElements[i].name
           /\ \A i, j \in 1 .. Len(profiledElements) :
                  profiledElements'[i].name = profiledElements'[j].name => i = j
           /\ \A name : durations'[name] = {} \/ durations[name] # {} =>
                            (Listed(name) => Listed(name)')
<1>1. \A i \in 1 .. Len(profiledElements) : profiledElements'[i].name = profiledElements[i].name
  BY DEF ElementSet
<1>2. \A i, j \in 1 .. Len(profiledElements) :
          profiledElements'[i].name = profiledElements'[j].name => i = j
  BY <1>1 DEF ProfilesTyped
<1>3. ASSUME NEW name, durations'[name] = {} \/ durations[name] # {}, Listed(name)
      PROVE  Listed(name)'
  BY <1>1, <1>3 DEF Listed, ElementSet
<1>4. QED
  BY <1>1, <1>2, <1>3

LEMMA ProfilerStart == Timer!Init => ProfilerInv
<1> SUFFICES ASSUME Timer!Init PROVE ProfilerInv
  OBVIOUS
<1>1. /\ profiledElements = <<>> /\ calls = <<>> /\ time = 0
      /\ durations = [name \in Profiles |-> {}]
  BY DEF Timer!Init
<1>2. Len(profiledElements) = 0 /\ Len(calls) = 0
  BY <1>1
<1>3. ProfilesTyped
  BY <1>1, <1>2, TimerAssumption DEF ProfilesTyped
<1>4. ClockRuns
  BY <1>1, TimerAssumption DEF ClockRuns
<1>5. QED
  BY <1>1, <1>2, <1>3, <1>4 DEF ProfilerInv, Listed

(* The call that is pushed, in front of those that run already. *)
LEMMA CallPushed ==
    ASSUME ProfilerInv, NEW c \in CallRecords, calls' = <<c>> \o calls, Remembered(c)',
           \A d \in CallRecords :
               Remembered(d) /\ (d.name = c.name => c.name \in overwritten') => Remembered(d)',
           (\E i \in DOMAIN calls : calls[i].name = c.name) => c.name \in overwritten'
    PROVE  calls' \in Seq(CallRecords) /\ (\A i \in 1 .. Len(calls) : Remembered(calls[i]))'
<1>1. calls \in Seq(CallRecords) /\ DOMAIN calls = 1 .. Len(calls)
  BY DEF ProfilerInv, ProfilesTyped
<1>2. /\ calls' \in Seq(CallRecords) /\ Len(calls') = 1 + Len(calls)
      /\ calls'[1] = c
      /\ \A i \in 2 .. Len(calls') : calls'[i] = calls[i - 1]
  BY <1>1
<1>3. ASSUME NEW i \in 1 .. Len(calls') PROVE Remembered(calls[i])'
  <2>1. PICK d \in CallRecords : d = calls'[i]
    BY <1>2, SMTT(30)
  <2>2. CASE i = 1
    <3>1. d = c
      BY <1>2, <2>1, <2>2
    <3>2. Remembered(d)'
      BY <3>1
    <3>3. QED
      BY <2>1, <3>2 DEF Remembered
  <2>3. CASE i # 1
    <3>1. i - 1 \in 1 .. Len(calls) /\ d = calls[i - 1]
      BY <1>1, <1>2, <2>1, <2>3
    <3>2. Remembered(calls[i - 1])
      BY <3>1 DEF ProfilerInv
    <3>3. Remembered(d)
      BY <3>1, <3>2
    <3>4. d.name = c.name => c.name \in overwritten'
      BY <1>1, <3>1
    <3>5. Remembered(d)'
      BY <3>3, <3>4
    <3>6. QED
      BY <2>1, <3>5 DEF Remembered
  <2>4. QED
    BY <2>2, <2>3
<1>4. QED
  BY <1>2, <1>3

LEMMA KeysOfName ==
    ASSUME ProfilesTyped, NEW name
    PROVE  \A key : key \in Timer!KeysOf(name)
               <=> /\ key \in 0 .. Len(profiledElements) - 1
                   /\ profiledElements[key + 1].name = name
BY DEF Timer!KeysOf

LEMMA Pushed ==
    ASSUME ProfilerInv, NEW name \in Profiles, Timer!push(name) PROVE ProfilerInv'
<1> DEFINE known == Timer!KeysOf(name)
           key == IF known # {} THEN CHOOSE k \in known : TRUE ELSE Len(profiledElements)
           shown == Timer!getTimeMicroseconds
<1>1. /\ UNCHANGED <<time, durations>>
      /\ calls' = <<[name |-> name, key |-> key, since |-> time]>> \o calls
      /\ overwritten \subseteq overwritten'
      /\ (\E i \in DOMAIN calls : calls[i].name = name) => name \in overwritten'
  BY DEF Timer!push, Timer!periodicVars, Timer!conditionalVars
<1>2. /\ ProfilesTyped /\ time \in Nat /\ Len(profiledElements) \in Nat
      /\ MAX_PROFILED_ELEMENTS \in Nat /\ ClockRuns'
      /\ profiledElements \in Seq(ProfileRecords) /\ Len(profiledElements) <= MAX_PROFILED_ELEMENTS
  BY <1>1, TimerAssumption DEF ProfilerInv, ProfilesTyped, ClockRuns
<1>3. shown \in CounterValues /\ shown = (time + CounterAtBoot) % ClockPeriod
  BY <1>2, ShownIsCounter DEF ProfilerInv, Timer!getTimeMicroseconds
<1>4. CASE known # {}
  <2> DEFINE k == key + 1
             e == [profiledElements[k] EXCEPT !.prevPushedTime = shown]
  <2>1. key \in known
    BY <1>4
  <2>2. key \in 0 .. Len(profiledElements) - 1 /\ profiledElements[key + 1].name = name
    BY <1>2, <2>1, KeysOfName, Zenon
  <2> HIDE DEF key
  <2>3. k \in 1 .. Len(profiledElements) /\ k - 1 = key
    BY <1>2, <2>2
  <2>4. profiledElements' = [profiledElements EXCEPT ![k] = e]
    BY <1>4 DEF Timer!push, Timer!Started, key
  <2> HIDE DEF shown
  <2>5. e \in ProfileRecords /\ e.name = profiledElements[k].name /\ e.prevPushedTime = shown
        /\ e.min = profiledElements[k].min /\ e.max = profiledElements[k].max
    <3>1. profiledElements[k] \in ProfileRecords
      BY <1>2, <2>3
    <3>2. e = [name |-> profiledElements[k].name, min |-> profiledElements[k].min,
               max |-> profiledElements[k].max, prevPushedTime |-> shown]
          /\ e \in ProfileRecords
      <4> DEFINE old == profiledElements[k]
      <4>1. old \in ProfileRecords
        BY <3>1
      <4> HIDE DEF old
      <4>2. [old EXCEPT !.prevPushedTime = shown]
                = [name |-> old.name, min |-> old.min, max |-> old.max, prevPushedTime |-> shown]
            /\ [name |-> old.name, min |-> old.min, max |-> old.max, prevPushedTime |-> shown]
                   \in ProfileRecords
        BY <1>3, <4>1, ProfileUpdates, Zenon
      <4>3. QED
        BY <4>2 DEF old
    <3>3. QED
      BY <3>2
  <2> HIDE DEF e
  <2>6. ElementSet(k, e)
    BY <1>2, <2>3, <2>4, <2>5, SetsElement, Zenon
  <2>7. PICK c \in CallRecords : c = [name |-> name, key |-> key, since |-> time]
    <3>1. key \in Nat
      BY <1>2, <2>2
    <3>2. QED
      BY <1>2, <3>1, Zenon DEF CallRecords
  <2>8. Remembered(c)'
    <3>1. c.since <= time' /\ c.key = k - 1 /\ c.key < Len(profiledElements')
          /\ profiledElements'[k] = e /\ c.name = name /\ c.since = time
      BY <1>1, <1>2, <2>2, <2>3, <2>6, <2>7 DEF ElementSet
    <3>2. profiledElements'[c.key + 1] = e
      BY <2>3, <3>1
    <3>3. QED
      BY <1>3, <2>2, <2>5, <3>1, <3>2 DEF Remembered
  <2>9. ASSUME NEW d \in CallRecords, Remembered(d), d.name = c.name => c.name \in overwritten'
        PROVE  Remembered(d)'
    <3>1. CASE d.key < Len(profiledElements) /\ profiledElements[d.key + 1].name = d.name
               /\ (d.name \notin overwritten =>
                     profiledElements[d.key + 1].prevPushedTime
                         = (d.since + CounterAtBoot) % ClockPeriod)
      <4>1. d.key + 1 \in 1 .. Len(profiledElements)
        BY <1>2, <3>1 DEF CallRecords
      <4>2. profiledElements'[d.key + 1].name = d.name
        BY <1>2, <2>3, <2>6, <3>1, <4>1, NamesKept
      <4>3. CASE d.key + 1 = k
        <5>1. d.name = c.name
          BY <2>2, <2>3, <2>7, <3>1, <4>3
        <5>2. d.name \in overwritten'
          BY <2>9, <5>1
        <5>3. QED
          BY <1>1, <2>6, <2>9, <3>1, <4>2, <5>2 DEF Remembered, ElementSet
      <4>4. CASE d.key + 1 # k
        <5>1. profiledElements'[d.key + 1] = profiledElements[d.key + 1]
          BY <2>6, <4>1, <4>4 DEF ElementSet
        <5>2. QED
          BY <1>1, <2>6, <2>9, <3>1, <5>1 DEF Remembered, ElementSet
      <4>5. QED
        BY <4>3, <4>4
    <3>2. CASE d.key = Len(profiledElements) /\ d.key = MAX_PROFILED_ELEMENTS
               /\ \A i \in 1 .. Len(profiledElements) : profiledElements[i].name # d.name
      <4>1. \A i \in 1 .. Len(profiledElements) : profiledElements'[i].name # d.name
        BY <1>2, <2>3, <2>6, <3>2, NamesKept
      <4>2. QED
        BY <1>1, <2>6, <2>9, <3>2, <4>1 DEF Remembered, ElementSet
    <3>3. QED
      BY <2>9, <3>1, <3>2 DEF Remembered
  <2>10. c.name = name
    BY <2>7
  <2>11. calls' \in Seq(CallRecords) /\ (\A i \in 1 .. Len(calls) : Remembered(calls[i]))'
    BY <1>1, <2>7, <2>8, <2>9, <2>10, CallPushed
  <2>12. (\A i \in 1 .. Len(profiledElements) : Spans(profiledElements[i]))'
    <3> SUFFICES ASSUME NEW i \in 1 .. Len(profiledElements) PROVE Spans(profiledElements[i])'
      BY <2>6 DEF ElementSet
    <3>1. Spans(profiledElements[i])
      BY DEF ProfilerInv
    <3>2. /\ profiledElements'[i].name = profiledElements[i].name
          /\ profiledElements'[i].min = profiledElements[i].min
          /\ profiledElements'[i].max = profiledElements[i].max
      BY <2>5, <2>6 DEF ElementSet
    <3>3. QED
      BY <1>1, <3>1, <3>2 DEF Spans
  <2>13. \A n \in Profiles : Listed(n)'
    BY <1>1, <1>2, <2>3, <2>6, NamesKept, Zenon DEF ProfilerInv
  <2>14. ProfilesTyped'
    BY <1>1, <1>2, <2>3, <2>6, <2>11, NamesKept, Zenon DEF ProfilesTyped, ElementSet
  <2>15. QED
    BY <1>2, <2>11, <2>12, <2>13, <2>14 DEF ProfilerInv
<1>5. CASE known = {}
  <2>1. key = Len(profiledElements)
    BY <1>5
  <2> HIDE DEF key
  <2>2. \A i \in 1 .. Len(profiledElements) : profiledElements[i].name # name
    <3> SUFFICES ASSUME NEW i \in 1 .. Len(profiledElements), profiledElements[i].name = name
                 PROVE  FALSE
      OBVIOUS
    <3>1. i - 1 \in 0 .. Len(profiledElements) - 1 /\ (i - 1) + 1 = i
      BY <1>2
    <3>2. i - 1 \in known
      BY <1>2, <3>1, KeysOfName
    <3>3. QED
      BY <1>5, <3>2
  <2>3. PICK c \in CallRecords : c = [name |-> name, key |-> key, since |-> time]
    BY <1>2, <2>1, Zenon DEF CallRecords
  <2>4. c.name = name /\ c.key = Len(profiledElements) /\ c.since = time
    BY <2>1, <2>3
  <2>5. CASE Len(profiledElements) >= MAX_PROFILED_ELEMENTS
    <3>1. profiledElements' = profiledElements
      BY <1>5, <2>5 DEF Timer!push
    <3>2. Remembered(c)'
      BY <1>1, <1>2, <2>2, <2>4, <2>5, <3>1 DEF Remembered
    <3>3. \A d \in CallRecords : Remembered(d) => Remembered(d)'
      BY <1>1, <3>1 DEF Remembered
    <3>4. calls' \in Seq(CallRecords) /\ (\A i \in 1 .. Len(calls) : Remembered(calls[i]))'
      BY <1>1, <2>3, <2>4, <3>2, <3>3, CallPushed
    <3>5. (\A i \in 1 .. Len(profiledElements) : Spans(profiledElements[i]))'
      BY <1>1, <3>1, Zenon DEF ProfilerInv, Spans
    <3>6. \A n \in Profiles : Listed(n)'
      BY <1>1, <3>1 DEF ProfilerInv, Listed
    <3>7. ProfilesTyped'
      BY <1>1, <1>2, <3>1, <3>4 DEF ProfilesTyped
    <3>8. QED
      BY <1>2, <3>4, <3>5, <3>6, <3>7 DEF ProfilerInv
  <2>6. CASE Len(profiledElements) < MAX_PROFILED_ELEMENTS
    <3> DEFINE e == [name |-> name, min |-> ClockPeriod - 1, max |-> 0, prevPushedTime |-> shown]
               n == Len(profiledElements)
    <3>1. profiledElements' = Append(profiledElements, e)
      <4>1. ~(Len(profiledElements) >= MAX_PROFILED_ELEMENTS)
        BY <1>2, <2>6
      <4>2. QED
        BY <1>5, <4>1, SMTT(30) DEF Timer!push, Timer!Started, Timer!ProfilerData
    <3> HIDE DEF shown
    <3>2. e \in ProfileRecords
      BY <1>3, TimerAssumption DEF ProfileRecords, CounterValues
    <3>3. e.name = name /\ e.min = ClockPeriod - 1 /\ e.max = 0 /\ e.prevPushedTime = shown
      OBVIOUS
    <3> HIDE DEF e
    <3>4. /\ profiledElements' \in Seq(ProfileRecords) /\ Len(profiledElements') = n + 1
          /\ profiledElements'[n + 1] = e
          /\ \A i \in 1 .. n : profiledElements'[i] = profiledElements[i]
      BY <1>2, <3>1, <3>2
    <3>5. n \in Nat /\ 1 .. n + 1 = 1 .. n \union {n + 1}
      BY <1>2
    <3>6. c.key = n /\ n < MAX_PROFILED_ELEMENTS
      BY <2>4, <2>6
    <3>7. \A i \in 1 .. n : profiledElements[i].name # name
      BY <2>2
    <3>8. Remembered(c)'
      BY <1>1, <1>2, <1>3, <2>4, <3>3, <3>4, <3>5, <3>6 DEF Remembered
    <3>9. ASSUME NEW d \in CallRecords, Remembered(d) PROVE Remembered(d)'
      <4>1. d.key < n /\ d.key \in Nat
        BY <1>2, <2>6, <3>9 DEF Remembered, CallRecords
      <4>2. d.key + 1 \in 1 .. n
        BY <3>5, <4>1
      <4>3. profiledElements'[d.key + 1] = profiledElements[d.key + 1] /\ d.key < n + 1
        BY <3>4, <3>5, <4>1, <4>2
      <4>4. /\ d.since <= time /\ profiledElements[d.key + 1].name = d.name
            /\ d.name \notin overwritten =>
                 profiledElements[d.key + 1].prevPushedTime
                     = (d.since + CounterAtBoot) % ClockPeriod
        BY <3>6, <3>9, <4>1 DEF Remembered
      <4>5. QED
        BY <1>1, <3>4, <4>3, <4>4 DEF Remembered
    <3>10. calls' \in Seq(CallRecords) /\ (\A i \in 1 .. Len(calls) : Remembered(calls[i]))'
      BY <1>1, <2>3, <2>4, <3>8, <3>9, CallPushed
    <3>11. durations[name] = {}
      BY <2>2, <2>6 DEF ProfilerInv, Listed
    <3>12. ASSUME NEW i \in 1 .. n + 1 PROVE Spans(profiledElements[i])'
      <4>1. CASE i = n + 1
        BY <1>1, <3>3, <3>4, <3>11, <4>1 DEF Spans
      <4>2. CASE i \in 1 .. n
        <5>1. Spans(profiledElements[i]) /\ profiledElements'[i] = profiledElements[i]
          BY <3>4, <4>2 DEF ProfilerInv
        <5>2. QED
          BY <1>1, <5>1 DEF Spans
      <4>3. QED
        BY <3>5, <4>1, <4>2
    <3>13. ASSUME NEW m \in Profiles PROVE Listed(m)'
      <4>1. Listed(m)
        BY DEF ProfilerInv
      <4>2. (\E i \in 1 .. n : profiledElements[i].name = m)
                => \E i \in 1 .. n + 1 : profiledElements'[i].name = m
        BY <3>4, <3>5
      <4>3. QED
        BY <1>1, <2>6, <3>4, <4>1, <4>2 DEF Listed
    <3>14. \A i, j \in 1 .. n + 1 : profiledElements'[i].name = profiledElements'[j].name => i = j
      BY <1>2, <3>3, <3>4, <3>5, <3>7, SMTT(30) DEF ProfilesTyped
    <3>15. ProfilesTyped'
      BY <1>1, <1>2, <3>4, <3>5, <3>6, <3>10, <3>14 DEF ProfilesTyped
    <3>16. QED
      BY <1>2, <3>4, <3>10, <3>12, <3>13, <3>15 DEF ProfilerInv
  <2>7. QED
    BY <1>2, <2>5, <2>6
<1>6. QED
  BY <1>4, <1>5

(* The call that ends was running since it was pushed. *)
LEMMA Popped ==
    ASSUME ProfilerInv, Timer!pop PROVE ProfilerInv'
<1> DEFINE c == Head(calls)
           lasted == time - c.since
           shown == Timer!getTimeMicroseconds
           dt == (shown - profiledElements[c.key + 1].prevPushedTime) % ClockPeriod
<1>1. /\ UNCHANGED <<time, overwritten>> /\ calls # <<>> /\ calls' = Tail(calls)
      /\ durations' = [durations EXCEPT ![c.name] = @ \union {lasted}]
  BY DEF Timer!pop, Timer!periodicVars, Timer!conditionalVars
<1>2. /\ ProfilesTyped /\ time \in Nat /\ time <= Horizon /\ Len(profiledElements) \in Nat
      /\ MAX_PROFILED_ELEMENTS \in Nat /\ ClockRuns' /\ ClockPeriod \in Nat \ {0}
      /\ Horizon < ClockPeriod /\ Horizon \in Nat /\ CounterAtBoot \in Nat
      /\ profiledElements \in Seq(ProfileRecords) /\ Len(profiledElements) <= MAX_PROFILED_ELEMENTS
      /\ calls \in Seq(CallRecords) /\ durations \in [Profiles -> SUBSET Nat]
  BY <1>1, TimerAssumption DEF ProfilerInv, ProfilesTyped, ClockRuns
<1>3. /\ c \in CallRecords /\ 1 \in 1 .. Len(calls) /\ c = calls[1]
      /\ calls' \in Seq(CallRecords)
      /\ \A i \in 1 .. Len(calls') : i + 1 \in 1 .. Len(calls) /\ calls'[i] = calls[i + 1]
  BY <1>1, <1>2
<1>4. Remembered(c)
  BY <1>3 DEF ProfilerInv
<1> HIDE DEF c
<1>5. c.name \in Profiles /\ c.key \in Nat /\ c.since \in Nat /\ c.since <= time
  BY <1>3, <1>4 DEF CallRecords, Remembered
<1>6. lasted \in Nat /\ lasted <= ClockPeriod - 1
  BY <1>2, <1>5
<1>7. shown \in CounterValues /\ shown = (time + CounterAtBoot) % ClockPeriod
  BY <1>2, ShownIsCounter DEF ProfilerInv, Timer!getTimeMicroseconds
<1>8. /\ durations' \in [Profiles -> SUBSET Nat]
      /\ durations'[c.name] = durations[c.name] \union {lasted}
      /\ \A n \in Profiles : n # c.name => durations'[n] = durations[n]
  BY <1>1, <1>2, <1>5, <1>6
<1>9. CASE c.key >= Len(profiledElements)
  <2>1. profiledElements' = profiledElements
    BY <1>9 DEF Timer!pop, c
  <2>2. /\ c.key = Len(profiledElements) /\ c.key = MAX_PROFILED_ELEMENTS
        /\ \A i \in 1 .. Len(profiledElements) : profiledElements[i].name # c.name
    BY <1>2, <1>4, <1>5, <1>9 DEF Remembered
  <2>3. (\A i \in 1 .. Len(calls) : Remembered(calls[i]))'
    BY <1>1, <1>3, <2>1 DEF ProfilerInv, Remembered
  <2>4. ASSUME NEW i \in 1 .. Len(profiledElements) PROVE Spans(profiledElements[i])'
    <3>1. /\ profiledElements[i].name \in Profiles /\ profiledElements[i].name # c.name
          /\ Spans(profiledElements[i])
      <4>1. profiledElements[i] \in ProfileRecords
        BY <1>2
      <4>2. QED
        BY <2>2, <4>1, ProfileFields DEF ProfilerInv
    <3>2. durations'[profiledElements[i].name] = durations[profiledElements[i].name]
      BY <1>8, <3>1
    <3>3. QED
      BY <1>1, <2>1, <3>1, <3>2 DEF Spans
  <2>5. \A n \in Profiles : Listed(n)'
    BY <1>2, <2>1, <2>2 DEF Listed
  <2>6. ProfilesTyped'
    BY <1>2, <1>3, <1>8, <2>1 DEF ProfilesTyped
  <2>7. QED
    BY <1>2, <2>1, <2>3, <2>4, <2>5, <2>6 DEF ProfilerInv
<1>10. CASE c.key < Len(profiledElements)
  <2> DEFINE k == c.key + 1
             old == profiledElements[k]
             most == IF dt > old.max THEN dt ELSE old.max
             least == IF dt < old.min THEN dt ELSE old.min
             e == [name |-> old.name, min |-> least, max |-> most,
                   prevPushedTime |-> old.prevPushedTime]
  <2>1. /\ k \in 1 .. Len(profiledElements) /\ old.name = c.name
        /\ c.name \notin overwritten => old.prevPushedTime = (c.since + CounterAtBoot) % ClockPeriod
    BY <1>2, <1>4, <1>5, <1>10 DEF Remembered
  <2>2. old \in ProfileRecords
    BY <1>2, <2>1, SMTT(30)
  <2>3. profiledElements' = [profiledElements EXCEPT ![k].max = most, ![k].min = least]
    <3>1. ~(c.key >= Len(profiledElements))
      BY <1>2, <1>5, <1>10
    <3>2. QED
      BY <2>1, <3>1, <1>2 DEF Timer!pop, c
  <2> HIDE DEF k, shown
  <2>4. dt \in CounterValues
    <3>1. shown - old.prevPushedTime \in Int
      BY <1>7, <2>2 DEF ProfileRecords, CounterValues
    <3>2. QED
      BY <1>2, <3>1, Division, Zenon DEF CounterValues, k
  <2>5. c.name \notin overwritten => dt = lasted
    <3> SUFFICES ASSUME c.name \notin overwritten PROVE dt = lasted
      OBVIOUS
    <3> DEFINE a == time + CounterAtBoot
               b == c.since + CounterAtBoot
    <3>1. a \in Int /\ b \in Int /\ b <= a /\ a - b < ClockPeriod /\ a - b = lasted
      BY <1>2, <1>5, <1>6, SMTT(30)
    <3>2. dt = ((a % ClockPeriod) - (b % ClockPeriod)) % ClockPeriod
      BY <1>7, <2>1 DEF k
    <3> HIDE DEF a, b
    <3>3. QED
      BY <1>2, <3>1, <3>2, TimePassed
  <2> HIDE DEF dt
  <2>6. most \in CounterValues /\ least \in CounterValues
    BY <2>2, <2>4 DEF ProfileRecords
  <2>7. /\ dt <= most /\ least <= dt /\ old.max <= most /\ least <= old.min
        /\ most \in {dt, old.max} /\ least \in {dt, old.min}
    BY <1>2, <2>2, <2>4, SMTT(30) DEF ProfileRecords, CounterValues
  <2> HIDE DEF most, least
  <2>8. profiledElements' = [profiledElements EXCEPT ![k] = e]
    <3>1. [[old EXCEPT !.max = most] EXCEPT !.min = least] = e
      BY <2>2, <2>6, ProfileUpdates, Zenon
    <3>2. [profiledElements EXCEPT ![k].max = most, ![k].min = least]
              = [profiledElements EXCEPT ![k] = [[old EXCEPT !.max = most] EXCEPT !.min = least]]
      BY <1>2, <2>1, Zenon DEF old
    <3>3. QED
      BY <2>3, <3>1, <3>2, Zenon
  <2>9. e \in ProfileRecords /\ e.name = old.name /\ e.min = least /\ e.max = most
        /\ e.prevPushedTime = old.prevPushedTime
    BY <2>2, <2>6 DEF ProfileRecords
  <2> HIDE DEF e
  <2>10. ElementSet(k, e)
    BY <1>2, <2>1, <2>8, <2>9, SetsElement, Zenon
  <2>11. Len(profiledElements') = Len(profiledElements)
         /\ \A i \in 1 .. Len(profiledElements) :
                /\ profiledElements'[i].name = profiledElements[i].name
                /\ profiledElements'[i].prevPushedTime = profiledElements[i].prevPushedTime
    BY <2>9, <2>10 DEF ElementSet
  <2>12. ASSUME NEW d \in CallRecords, Remembered(d) PROVE Remembered(d)'
    <3>1. d.key < Len(profiledElements) => d.key + 1 \in 1 .. Len(profiledElements)
      BY <1>2 DEF CallRecords
    <3>2. QED
      BY <1>1, <2>11, <2>12, <3>1 DEF Remembered
  <2>13. (\A i \in 1 .. Len(calls) : Remembered(calls[i]))'
    <3> SUFFICES ASSUME NEW i \in 1 .. Len(calls') PROVE Remembered(calls[i])'
      OBVIOUS
    <3>1. PICK d \in CallRecords : d = calls'[i]
      BY <1>3
    <3>2. i + 1 \in 1 .. Len(calls) /\ d = calls[i + 1]
      BY <1>3, <3>1
    <3>3. Remembered(calls[i + 1])
      BY <3>2 DEF ProfilerInv
    <3>4. Remembered(d)'
      BY <2>12, <3>2, <3>3
    <3>5. QED
      BY <3>1, <3>4 DEF Remembered
  <2>14. ASSUME NEW i \in 1 .. Len(profiledElements) PROVE Spans(profiledElements[i])'
    <3>1. Spans(profiledElements[i]) /\ profiledElements[i].name \in Profiles
      <4>1. profiledElements[i] \in ProfileRecords
        BY <1>2
      <4>2. QED
        BY <4>1, ProfileFields DEF ProfilerInv
    <3>2. CASE i # k
      <4>1. profiledElements[i].name # c.name
        BY <1>2, <2>1, <3>2 DEF ProfilesTyped
      <4>2. profiledElements'[i] = profiledElements[i]
            /\ durations'[profiledElements[i].name] = durations[profiledElements[i].name]
        BY <1>8, <2>10, <3>1, <3>2, <4>1 DEF ElementSet
      <4>3. QED
        BY <1>1, <3>1, <4>2 DEF Spans
    <3>3. CASE i = k
      <4>1. SUFFICES ASSUME c.name \notin overwritten
                     PROVE  /\ least \in durations'[c.name] /\ most \in durations'[c.name]
                            /\ \A d \in durations'[c.name] : least <= d /\ d <= most
        BY <1>1, <1>8, <2>1, <2>9, <2>10, <3>3 DEF Spans, ElementSet
      <4>2. dt = lasted /\ dt \in Int /\ least \in Int /\ most \in Int
            /\ old.min \in Int /\ old.max \in Int /\ old.max >= 0 /\ old.min <= ClockPeriod - 1
            /\ durations[c.name] \subseteq Nat
        <5>1. old.min \in CounterValues /\ old.max \in CounterValues
          BY <2>2, ProfileFields
        <5>2. durations[c.name] \subseteq Nat
          BY <1>2, <1>5
        <5> HIDE DEF old
        <5>3. QED
          BY <1>2, <2>4, <2>5, <2>6, <4>1, <5>1, <5>2 DEF CounterValues
      <4>3. CASE durations[c.name] = {}
        <5>1. old.min = ClockPeriod - 1 /\ old.max = 0
          BY <2>1, <3>1, <3>3, <4>1, <4>3 DEF Spans
        <5>2. least = dt /\ most = dt
          BY <1>2, <1>6, <2>7, <4>2, <5>1
        <5>3. QED
          BY <1>8, <4>2, <4>3, <5>2
      <4>4. CASE durations[c.name] # {}
        <5>1. /\ old.min \in durations[c.name] /\ old.max \in durations[c.name]
              /\ \A d \in durations[c.name] : old.min <= d /\ d <= old.max
          BY <2>1, <3>1, <3>3, <4>1, <4>4 DEF Spans
        <5>2. least \in durations'[c.name] /\ most \in durations'[c.name]
          BY <1>8, <2>7, <4>2, <5>1
        <5>3. ASSUME NEW d \in durations'[c.name] PROVE least <= d /\ d <= most
          <6>1. CASE d = lasted
            BY <2>7, <4>2, <6>1
          <6>2. CASE d \in durations[c.name]
            <7>1. d \in Int /\ old.min <= d /\ d <= old.max
              BY <4>2, <5>1, <6>2
            <7>2. QED
              BY <2>7, <4>2, <7>1
          <6>3. QED
            BY <1>8, <6>1, <6>2
        <5>4. QED
          BY <5>2, <5>3
      <4>5. QED
        BY <4>3, <4>4
    <3>4. QED
      BY <3>2, <3>3
  <2>15. ASSUME NEW n \in Profiles PROVE Listed(n)'
    <3>1. CASE n = c.name
      BY <2>1, <2>11, <3>1 DEF Listed
    <3>2. CASE n # c.name
      <4>1. Listed(n) /\ durations'[n] = durations[n]
        BY <1>8, <3>2 DEF ProfilerInv
      <4>2. QED
        BY <2>11, <4>1 DEF Listed
    <3>3. QED
      BY <3>1, <3>2
  <2>16. ProfilesTyped'
    BY <1>2, <1>3, <1>8, <2>1, <2>10, NamesKept DEF ProfilesTyped, ElementSet
  <2>17. QED
    BY <1>2, <2>11, <2>13, <2>14, <2>15, <2>16 DEF ProfilerInv
<1>11. QED
  BY <1>2, <1>5, <1>9, <1>10

LEMMA ProfileReset ==
    ASSUME ProfilerInv, NEW key \in Nat, Timer!resetProfile(key) PROVE ProfilerInv'
<1> DEFINE k == key + 1
           old == profiledElements[k]
           e == [name |-> old.name, min |-> ClockPeriod - 1, max |-> 0,
                 prevPushedTime |-> old.prevPushedTime]
<1>1. /\ UNCHANGED <<time, calls, overwritten>> /\ key < Len(profiledElements)
      /\ profiledElements' = [profiledElements EXCEPT ![k].min = ClockPeriod - 1, ![k].max = 0]
      /\ durations' = [durations EXCEPT ![old.name] = {}]
  BY DEF Timer!resetProfile, Timer!periodicVars, Timer!conditionalVars
<1>2. /\ ProfilesTyped /\ ClockRuns' /\ ClockPeriod \in Nat \ {0}
      /\ profiledElements \in Seq(ProfileRecords) /\ Len(profiledElements) <= MAX_PROFILED_ELEMENTS
      /\ calls \in Seq(CallRecords) /\ durations \in [Profiles -> SUBSET Nat]
      /\ Len(profiledElements) \in Nat
  BY <1>1, TimerAssumption DEF ProfilerInv, ProfilesTyped, ClockRuns
<1>3. k \in 1 .. Len(profiledElements)
  BY <1>1, <1>2
<1> HIDE DEF k
<1>4. old \in ProfileRecords
  BY <1>2, <1>3
<1>5. profiledElements' = [profiledElements EXCEPT ![k] = e]
  <2>1. [[old EXCEPT !.min = ClockPeriod - 1] EXCEPT !.max = 0] = e
    <3>1. ClockPeriod - 1 \in CounterValues /\ 0 \in CounterValues
      BY <1>2 DEF CounterValues
    <3>2. QED
      BY <1>4, <3>1, ProfileUpdates, ZenonT(60)
  <2>2. [profiledElements EXCEPT ![k].min = ClockPeriod - 1, ![k].max = 0]
            = [profiledElements EXCEPT ![k] = [[old EXCEPT !.min = ClockPeriod - 1] EXCEPT !.max = 0]]
    BY <1>2, <1>3, Zenon DEF old
  <2>3. QED
    BY <1>1, <2>1, <2>2, Zenon
<1>6. e \in ProfileRecords /\ e.name = old.name /\ e.min = ClockPeriod - 1 /\ e.max = 0
      /\ e.prevPushedTime = old.prevPushedTime
  BY <1>2, <1>4 DEF ProfileRecords, CounterValues
<1> HIDE DEF e
<1>7. ElementSet(k, e)
  BY <1>2, <1>3, <1>5, <1>6, SetsElement, Zenon
<1>8. Len(profiledElements') = Len(profiledElements)
      /\ \A i \in 1 .. Len(profiledElements) :
             /\ profiledElements'[i].name = profiledElements[i].name
             /\ profiledElements'[i].prevPushedTime = profiledElements[i].prevPushedTime
  BY <1>6, <1>7 DEF ElementSet
<1>9. /\ durations' \in [Profiles -> SUBSET Nat] /\ durations'[old.name] = {}
      /\ \A n \in Profiles : n # old.name => durations'[n] = durations[n]
  BY <1>1, <1>2, <1>4 DEF ProfileRecords
<1>10. (\A i \in 1 .. Len(calls) : Remembered(calls[i]))'
  <2> SUFFICES ASSUME NEW i \in 1 .. Len(calls) PROVE Remembered(calls[i])'
    BY <1>1
  <2>1. Remembered(calls[i]) /\ calls[i] \in CallRecords /\ calls'[i] = calls[i]
    BY <1>1, <1>2 DEF ProfilerInv
  <2>2. calls[i].key < Len(profiledElements) => calls[i].key + 1 \in 1 .. Len(profiledElements)
    BY <1>2, <2>1 DEF CallRecords
  <2>3. QED
    BY <1>1, <1>8, <2>1, <2>2 DEF Remembered
<1>11. ASSUME NEW i \in 1 .. Len(profiledElements) PROVE Spans(profiledElements[i])'
  <2>1. Spans(profiledElements[i]) /\ profiledElements[i].name \in Profiles
    <3>1. profiledElements[i] \in ProfileRecords
      BY <1>2
    <3>2. QED
      BY <3>1, ProfileFields DEF ProfilerInv
  <2>2. CASE i # k
    <3>1. profiledElements[i].name # old.name
      BY <1>2, <1>3, <2>2 DEF ProfilesTyped
    <3>2. profiledElements'[i] = profiledElements[i]
          /\ durations'[profiledElements[i].name] = durations[profiledElements[i].name]
      BY <1>7, <1>9, <2>1, <2>2, <3>1 DEF ElementSet
    <3> DEFINE n == profiledElements[i].name
    <3>3. profiledElements'[i] = profiledElements[i] /\ durations'[n] = durations[n]
          /\ overwritten' = overwritten
      BY <1>1, <3>2
    <3>4. QED
      BY <2>1, <3>3 DEF Spans
  <2>3. CASE i = k
    BY <1>6, <1>7, <1>9, <2>3 DEF Spans, ElementSet
  <2>4. QED
    BY <2>2, <2>3
<1>12. ASSUME NEW n \in Profiles PROVE Listed(n)'
  <2>1. Listed(n) /\ (durations'[n] = {} \/ durations[n] # {})
    BY <1>9 DEF ProfilerInv
  <2>2. QED
    BY <1>8, <1>9, <2>1 DEF Listed
<1>13. ProfilesTyped'
  BY <1>1, <1>2, <1>3, <1>7, <1>9, NamesKept DEF ProfilesTyped, ElementSet
<1>14. QED
  BY <1>2, <1>8, <1>10, <1>11, <1>12, <1>13 DEF ProfilerInv

LEMMA ProfilerStep ==
    ASSUME ProfilerInv, ClockRuns', time' \in {time, time + 1},
           Timer!Next \/ UNCHANGED timerVars
    PROVE  ProfilerInv'
<1>1. CASE UNCHANGED Timer!profilerVars
  <2>1. UNCHANGED <<profiledElements, calls, durations, overwritten>>
    BY <1>1 DEF Timer!profilerVars
  <2>2. ProfilesTyped' /\ \A n \in Profiles : Listed(n)'
    BY <2>1 DEF ProfilerInv, ProfilesTyped, Listed
  <2>3. (\A i \in 1 .. Len(profiledElements) : Spans(profiledElements[i]))'
    BY <2>1, Zenon DEF ProfilerInv, Spans
  <2>4. (\A i \in 1 .. Len(calls) : Remembered(calls[i]))'
    <3> SUFFICES ASSUME NEW i \in 1 .. Len(calls) PROVE Remembered(calls[i])'
      BY <2>1
    <3>1. Remembered(calls[i]) /\ calls[i].since \in Nat /\ time \in Nat
      <4>1. calls[i] \in CallRecords
        BY DEF ProfilerInv, ProfilesTyped
      <4>2. QED
        BY <4>1, CallFields DEF ProfilerInv, ClockRuns
    <3>2. calls[i].since <= time'
      BY <3>1 DEF Remembered
    <3>3. QED
      BY <2>1, <3>1, <3>2 DEF Remembered
  <2>5. QED
    BY <2>2, <2>3, <2>4 DEF ProfilerInv
<1>2. Timer!Profiling \/ UNCHANGED Timer!profilerVars
  BY DEF Timer!Next, Timer!Tick, Timer!Conditional, Timer!ConditionalRestart, Timer!ConditionalStop,
         Timer!ConditionalExecute, Timer!Periodic, Timer!PeriodicRestart, Timer!PeriodicStop,
         Timer!PeriodicExecute, Timer!profilerVars, timerVars
<1>3. QED
  BY <1>1, <1>2, Pushed, Popped, ProfileReset DEF Timer!Profiling

LEMMA ProfilerSays == ProfilerInv => Timer!ProfilesTimes
<1> SUFFICES ASSUME ProfilerInv PROVE Timer!ProfilesTimes
  OBVIOUS
<1>1. /\ ProfilesTyped /\ Len(profiledElements) \in Nat
      /\ profiledElements \in Seq(ProfileRecords) /\ Len(profiledElements) <= MAX_PROFILED_ELEMENTS
      /\ durations \in [Profiles -> SUBSET Nat]
  BY DEF ProfilerInv, ProfilesTyped
<1>2. ASSUME NEW key \in 0 .. Len(profiledElements) - 1
      PROVE  LET element == Timer!getData(key)
             IN  element.name \notin overwritten =>
                     IF durations[element.name] = {}
                     THEN element.min = ClockPeriod - 1 /\ element.max = 0
                     ELSE /\ {element.min, element.max} \subseteq durations[element.name]
                          /\ durations[element.name] \subseteq element.min .. element.max
  <2> DEFINE e == profiledElements[key + 1]
  <2>1. key + 1 \in 1 .. Len(profiledElements) /\ ~(key >= Len(profiledElements))
    BY <1>1
  <2>2. e \in ProfileRecords /\ Spans(e)
    BY <1>1, <2>1 DEF ProfilerInv
  <2>3. Timer!getData(key) = e
    BY <2>1 DEF Timer!getData
  <2> HIDE DEF e
  <2>4. e.min \in Int /\ e.max \in Int /\ durations[e.name] \subseteq Nat
    BY <1>1, <2>2, TimerAssumption DEF ProfileRecords, CounterValues
  <2>5. QED
    BY <2>2, <2>3, <2>4 DEF Spans
<1>3. ASSUME NEW name \in Profiles, NEW k \in Timer!KeysOf(name), NEW l \in Timer!KeysOf(name)
      PROVE  k = l
  <2>1. /\ k \in 0 .. Len(profiledElements) - 1 /\ l \in 0 .. Len(profiledElements) - 1
        /\ profiledElements[k + 1].name = profiledElements[l + 1].name
    BY <1>1, KeysOfName
  <2>2. k + 1 \in 1 .. Len(profiledElements) /\ l + 1 \in 1 .. Len(profiledElements)
    BY <1>1, <2>1
  <2>3. k + 1 = l + 1
    BY <1>1, <2>1, <2>2 DEF ProfilesTyped
  <2>4. QED
    BY <1>1, <2>1, <2>3
<1>4. QED
  BY <1>1, <1>2, <1>3 DEF Timer!ProfilesTimes

(* The timers and the profiler. *)
TimerInv == ConditionalInv /\ PeriodicInv /\ ProfilerInv

LEMMA TimerStart == Timer!Init => TimerInv
<1> SUFFICES ASSUME Timer!Init PROVE TimerInv
  OBVIOUS
<1>1. /\ time = 0 /\ period \in Periods /\ periodicTimeout = Timer!restart(period)
      /\ start = 0 /\ fired = {} /\ timeout \in Timeouts /\ timer = Timer!Stopped /\ unmet = -1
  BY DEF Timer!Init
<1>2. ClockRuns
  BY <1>1, TimerAssumption DEF ClockRuns
<1>3. ConditionalInv
  BY <1>1, <1>2 DEF ConditionalInv, Timer!Stopped, Timeouts0
<1>4. PeriodicInv
  <2>1. periodicTimeout = [isRunning |-> TRUE, isExecuted |-> FALSE, expireTime |-> time + period]
    BY <1>1, <1>2, Restarts
  <2>2. period \in Nat \ {0} /\ time + period = start + period * 1 /\ time + period \in Nat
    BY <1>1, TimerAssumption
  <2>3. periodicTimeout \in Timeouts0 /\ periodicTimeout.expireTime = start + period * 1
    BY <2>1, <2>2 DEF Timeouts0
  <2>4. QED
    BY <1>1, <1>2, <2>3 DEF PeriodicInv
<1>5. QED
  BY <1>3, <1>4, ProfilerStart DEF TimerInv

LEMMA TimerStep ==
    ASSUME TimerInv, Timer!Next \/ UNCHANGED timerVars PROVE TimerInv'
<1>1. ClockRuns
  BY DEF TimerInv, ConditionalInv
<1>2. (Timer!Tick /\ time' = time + 1 /\ time < Horizon) \/ time' = time
  BY Zenon
     DEF Timer!Next, Timer!Tick, Timer!Conditional, Timer!ConditionalRestart, Timer!ConditionalStop,
         Timer!ConditionalExecute, Timer!Periodic, Timer!PeriodicRestart, Timer!PeriodicStop,
         Timer!PeriodicExecute, Timer!Profiling, Timer!push, Timer!pop, Timer!resetProfile, timerVars
<1>3. ClockRuns' /\ time' \in {time, time + 1}
  BY <1>1, <1>2, TimerAssumption DEF ClockRuns
<1>4. QED
  BY <1>3, ConditionalStep, PeriodicStep, ProfilerStep DEF TimerInv

LEMMA TimersKeepTime ==
    TimerInv => Timer!OncePerPeriod /\ Timer!HeldLongEnough /\ Timer!ProfilesTimes
BY ConditionHolds, PeriodicSays, ProfilerSays DEF TimerInv

-----------------------------------------------------------------------------
Multi == INSTANCE MultiEncoder

multiVars == <<seenEncoders, online, missed, offset, mixed, positions>>

(* Encoders of one shaft: what a loop over them starts with. *)
Before == [seen |-> seenEncoders, offset |-> offset]

Second == IF COUNT = 1 THEN Before ELSE Multi!SyncOne(1, Before)
Third == IF COUNT = 3 THEN Multi!SyncOne(2, Second) ELSE Second

(* The loop of syncEncoders() over at most three encoders, written out. *)
LEMMA SyncedOfThree ==
    Multi!Synced = IF 0 \in online THEN [Third EXCEPT !.seen = @ \union {0}]
                   ELSE [Before EXCEPT !.seen = @ \ {0}]
<1> DEFINE Step(g) == [i \in Multi!Encoders |-> IF i = 0 THEN Before ELSE Multi!SyncOne(i, g[i - 1])]
           fixed == CHOOSE g : g = Step(g)
           h == [i \in Multi!Encoders |->
                    IF i = 0 THEN Before ELSE IF i = 1 THEN Multi!SyncOne(1, Before)
                    ELSE Multi!SyncOne(2, Multi!SyncOne(1, Before))]
<1>1. COUNT \in {1, 2, 3} /\ Multi!Encoders = 0 .. COUNT - 1
  BY EncoderAssumption DEF Multi!Encoders
<1>2. \A i \in Multi!Encoders : i = 0 \/ i = 1 \/ (i = 2 /\ 1 \in Multi!Encoders)
  BY <1>1
<1>3. h = Step(h)
  <2>1. ASSUME NEW i \in Multi!Encoders
        PROVE  h[i] = IF i = 0 THEN Before ELSE Multi!SyncOne(i, h[i - 1])
    <3>1. CASE i = 0
      BY <3>1
    <3>2. CASE i = 1
      <4>1. 0 \in Multi!Encoders /\ i - 1 = 0
        BY <1>1, <3>2
      <4>2. QED
        BY <4>1, <3>2
    <3>3. CASE i = 2
      <4>1. 1 \in Multi!Encoders /\ i - 1 = 1
        BY <1>1, <3>3
      <4>2. QED
        BY <4>1, <3>3
    <3>4. QED
      BY <1>2, <3>1, <3>2, <3>3
  <2>2. QED
    BY <2>1
<1>4. PICK g : g = fixed /\ g = Step(g)
  BY <1>3, Zenon
<1>5. g[COUNT - 1] = Third
  <2>1. 0 \in Multi!Encoders /\ (COUNT > 1 => 1 \in Multi!Encoders) /\ (COUNT = 3 => 2 \in Multi!Encoders)
    BY <1>1
  <2>2. g[0] = Before
    BY <1>4, <2>1
  <2>3. COUNT > 1 => g[1] = Multi!SyncOne(1, g[0])
    BY <1>4, <2>1
  <2>4. COUNT = 3 => g[2] = Multi!SyncOne(2, g[1])
    BY <1>4, <2>1
  <2>5. QED
    BY <1>1, <2>2, <2>3, <2>4 DEF Second, Third
<1>6. Multi!Synced = IF 0 \in online
                     THEN [fixed[COUNT - 1] EXCEPT !.seen = @ \union {0}]
                     ELSE [Before EXCEPT !.seen = @ \ {0}]
  BY DEF Multi!Synced, Before
<1>7. QED
  <2> HIDE DEF fixed
  <2> QED BY <1>4, <1>5, <1>6, Zenon

MultiTyped ==
    /\ seenEncoders \subseteq Multi!Encoders \ NullEncoders
    /\ online \subseteq Multi!Encoders \ NullEncoders
    /\ missed \subseteq Multi!Encoders /\ online \intersect missed = {}
    /\ offset = [e \in Multi!Encoders |-> offset[e]]

(* While the first one is there, those that are not are taken off the list; and
   a position is of encoders that are trusted. *)
MultiSeen ==
    /\ 0 \in seenEncoders => seenEncoders \intersect missed = {}
    /\ positions # {} => Multi!Trusted # {}

(* What is trusted has one offset, that of the mean. *)
MultiAligned ==
    ~mixed => /\ \A e, f \in Multi!Trusted : offset[e] = offset[f]
              /\ \A e \in Multi!Trusted, p \in positions : p = offset[e]

MultiInv == MultiTyped /\ MultiSeen /\ MultiAligned

(* What a loop has done when it has come to encoder i: those before it are seen
   if they are there, with the offset of the first one, which is that of what
   was trusted as soon as it was found; those behind are as they were. *)
SyncTyped(s, i) ==
    /\ s = [seen |-> s.seen, offset |-> s.offset]
    /\ s.offset = [e \in Multi!Encoders |-> s.offset[e]]
    /\ s.seen \subseteq Multi!Encoders
    /\ \A e \in Multi!Encoders \ {0} : e <= i => (e \in s.seen <=> e \in online)
    /\ \A e \in Multi!Encoders \ {0} :
           e > i => (e \in s.seen <=> e \in seenEncoders) /\ s.offset[e] = offset[e]

SyncAligned(s, i) ==
    /\ \A e \in s.seen \ {0} : e <= i => s.offset[e] = s.offset[0]
    /\ IF 0 \in s.seen THEN \A v \in Multi!Trusted : s.offset[0] = offset[v]
       ELSE /\ s.offset[0] = offset[0] /\ 0 \notin seenEncoders
            /\ \A e \in seenEncoders \intersect online : e > i

LEMMA LoopSyncs ==
    ASSUME MultiInv, 0 \in online, NEW s, NEW i \in 1 .. COUNT - 1, SyncTyped(s, i - 1)
    PROVE  /\ SyncTyped(Multi!SyncOne(i, s), i)
           /\ ~mixed /\ ~Multi!Crossing /\ SyncAligned(s, i - 1) => SyncAligned(Multi!SyncOne(i, s), i)
<1> DEFINE t == Multi!SyncOne(i, s)
<1>1. /\ i \in Multi!Encoders \ {0} /\ 0 \in Multi!Encoders /\ Multi!Encoders \subseteq Nat
      /\ \A e \in Multi!Encoders : e <= i <=> e <= i - 1 \/ e = i
  BY EncoderAssumption DEF Multi!Encoders
<1>2. i \in s.seen <=> i \in seenEncoders
  BY <1>1 DEF SyncTyped
<1>3. s.offset[i] = offset[i]
  BY <1>1 DEF SyncTyped
<1>4. online \intersect seenEncoders \subseteq Multi!Trusted
  BY DEF MultiInv, MultiTyped, Multi!Trusted
<1>5. CASE i \in online /\ i \notin seenEncoders
  <2>1. t.seen = s.seen \union {i} /\ t.offset = [s.offset EXCEPT ![i] = s.offset[0]]
        /\ t = [seen |-> t.seen, offset |-> t.offset]
    BY <1>2, <1>5 DEF Multi!SyncOne
  <2> HIDE DEF t
  <2>2. t.offset[i] = s.offset[0] /\ \A e \in Multi!Encoders : e # i => t.offset[e] = s.offset[e]
    BY <1>1, <2>1 DEF SyncTyped
  <2>3. SyncTyped(t, i)
    <3>1. t.offset = [e \in Multi!Encoders |-> t.offset[e]]
      BY <1>1, <2>1 DEF SyncTyped
    <3>2. QED
      BY <1>1, <1>5, <2>1, <2>2, <3>1 DEF SyncTyped
  <2>4. ASSUME SyncAligned(s, i - 1) PROVE SyncAligned(t, i)
    <3>1. t.offset[0] = s.offset[0] /\ (0 \in t.seen <=> 0 \in s.seen)
      BY <1>1, <2>1, <2>2
    <3>2. \A e \in t.seen \ {0} : e <= i => t.offset[e] = t.offset[0]
      BY <1>1, <2>1, <2>2, <2>4, <3>1 DEF SyncTyped, SyncAligned
    <3>3. \A e \in seenEncoders \intersect online : e > i - 1 => e > i
      BY <1>1, <1>5 DEF MultiInv, MultiTyped
    <3>4. QED
      BY <2>4, <3>1, <3>2, <3>3 DEF SyncAligned
  <2>5. QED
    BY <2>3, <2>4 DEF t
<1>6. CASE i \in online /\ i \in seenEncoders /\ 0 \notin s.seen
  <2>1. t.seen = s.seen \union {0} /\ t.offset = [s.offset EXCEPT ![0] = s.offset[i]]
        /\ t = [seen |-> t.seen, offset |-> t.offset]
    BY <1>2, <1>6 DEF Multi!SyncOne
  <2> HIDE DEF t
  <2>2. t.offset[0] = offset[i] /\ \A e \in Multi!Encoders : e # 0 => t.offset[e] = s.offset[e]
    BY <1>1, <1>3, <2>1 DEF SyncTyped
  <2>3. SyncTyped(t, i)
    <3>1. t.offset = [e \in Multi!Encoders |-> t.offset[e]]
      BY <1>1, <2>1 DEF SyncTyped
    <3>2. QED
      BY <1>1, <1>6, <2>1, <2>2, <3>1 DEF SyncTyped
  <2>4. ASSUME ~mixed, ~Multi!Crossing, SyncAligned(s, i - 1) PROVE SyncAligned(t, i)
    <3>1. \A v \in Multi!Trusted : t.offset[0] = offset[v]
      BY <1>4, <1>6, <2>2, <2>4 DEF MultiInv, MultiAligned
    <3>2. 0 \notin seenEncoders /\ \A e \in seenEncoders \intersect online : e > i - 1
      BY <1>6, <2>4 DEF SyncAligned
    <3>3. ASSUME NEW e \in t.seen \ {0}, e <= i, e # i PROVE FALSE
      <4>1. e \in Multi!Encoders /\ e <= i - 1 /\ 0 < e /\ e < i /\ e \in online
        BY <1>1, <2>1, <3>3 DEF SyncTyped
      <4>2. e \notin seenEncoders
        BY <3>2, <4>1, <1>1
      <4>3. QED
        BY <1>6, <2>4, <3>2, <4>1, <4>2 DEF Multi!Crossing
    <3>4. t.offset[i] = offset[i]
      BY <1>1, <1>3, <2>2
    <3>5. QED
      BY <2>1, <2>2, <3>1, <3>3, <3>4 DEF SyncAligned
  <2>5. QED
    BY <2>3, <2>4 DEF t
<1>7. CASE i \in online /\ i \in seenEncoders /\ 0 \in s.seen
  <2>1. t = s
    BY <1>2, <1>7 DEF Multi!SyncOne
  <2>2. SyncTyped(s, i)
    BY <1>1, <1>7 DEF SyncTyped
  <2>3. ASSUME SyncAligned(s, i - 1) PROVE SyncAligned(s, i)
    BY <1>1, <1>3, <1>4, <1>7, <2>3 DEF SyncAligned, SyncTyped
  <2>4. QED
    BY <2>1, <2>2, <2>3
<1>8. CASE i \notin online
  <2>1. t.seen = s.seen \ {i} /\ t.offset = s.offset /\ t = [seen |-> t.seen, offset |-> t.offset]
    BY <1>8 DEF Multi!SyncOne, SyncTyped
  <2> HIDE DEF t
  <2>2. SyncTyped(t, i)
    BY <1>1, <1>8, <2>1 DEF SyncTyped
  <2>3. ASSUME SyncAligned(s, i - 1) PROVE SyncAligned(t, i)
    <3>1. 0 \in t.seen <=> 0 \in s.seen
      BY <1>1, <2>1
    <3>2. \A e \in seenEncoders \intersect online : e > i - 1 => e > i
      BY <1>1, <1>8 DEF MultiInv, MultiTyped
    <3>3. \A e \in t.seen \ {0} : e <= i => t.offset[e] = t.offset[0]
      BY <1>1, <2>1, <2>3 DEF SyncAligned, SyncTyped
    <3>4. QED
      BY <2>1, <2>3, <3>1, <3>2, <3>3 DEF SyncAligned
  <2>4. QED
    BY <2>2, <2>3 DEF t
<1>9. QED
  BY <1>5, <1>6, <1>7, <1>8

(* After it, the encoders that are seen are there if the first one is, and unless
   they are mixed they have one offset: that of what was trusted, if any was. *)
LEMMA SyncedAligns ==
    ASSUME MultiInv
    PROVE  /\ Multi!Synced.seen \subseteq Multi!Encoders \ NullEncoders
           /\ Multi!Synced.offset = [e \in Multi!Encoders |-> Multi!Synced.offset[e]]
           /\ 0 \in online =>
                  /\ Multi!Synced.seen \subseteq online
                  /\ ~mixed /\ ~Multi!Crossing =>
                         /\ \A e \in Multi!Synced.seen : Multi!Synced.offset[e] = Multi!Synced.offset[0]
                         /\ seenEncoders \intersect online # {} =>
                                \A v \in Multi!Trusted : Multi!Synced.offset[0] = offset[v]
           /\ 0 \notin online =>
                  Multi!Synced.seen = seenEncoders \ {0} /\ Multi!Synced.offset = offset
<1> DEFINE S == Multi!Synced
<1>1. /\ COUNT \in {1, 2, 3} /\ Multi!Encoders = 0 .. COUNT - 1 /\ 0 \in Multi!Encoders
      /\ NullEncoders \subseteq 1 .. COUNT - 1
  BY EncoderAssumption DEF Multi!Encoders
<1>2. S = IF 0 \in online THEN [Third EXCEPT !.seen = @ \union {0}]
          ELSE [Before EXCEPT !.seen = @ \ {0}]
  BY SyncedOfThree
<1> HIDE DEF S
<1>3. CASE 0 \notin online
  <2>1. S.seen = seenEncoders \ {0} /\ S.offset = offset
    BY <1>2, <1>3 DEF Before
  <2>2. QED
    BY <1>3, <2>1 DEF MultiInv, MultiTyped, S
<1>4. CASE 0 \in online
  <2>1. SyncTyped(Before, 0)
    BY <1>1 DEF SyncTyped, Before, MultiInv, MultiTyped
  <2>2. ~mixed => SyncAligned(Before, 0)
    <3>1. ASSUME 0 \in seenEncoders PROVE 0 \in Multi!Trusted
      BY <1>4, <3>1 DEF MultiInv, MultiTyped, Multi!Trusted
    <3>2. ~mixed /\ 0 \in seenEncoders => \A v \in Multi!Trusted : offset[0] = offset[v]
      BY <3>1 DEF MultiInv, MultiAligned
    <3>3. \A e \in Multi!Encoders \ {0} : e > 0 /\ ~(e <= 0)
      BY <1>1
    <3>4. seenEncoders \subseteq Multi!Encoders /\ 0 \in online
      BY <1>4 DEF MultiInv, MultiTyped
    <3>5. Before.seen = seenEncoders /\ Before.offset = offset
      BY DEF Before
    <3>6. QED
      BY <3>2, <3>3, <3>4, <3>5 DEF SyncAligned
  <2>3. /\ SyncTyped(Third, COUNT - 1)
        /\ ~mixed /\ ~Multi!Crossing => SyncAligned(Third, COUNT - 1)
    <3>1. CASE COUNT = 1
      BY <2>1, <2>2, <3>1 DEF Second, Third
    <3>2. CASE COUNT = 2
      <4>1. 1 \in 1 .. COUNT - 1 /\ 1 - 1 = 0 /\ COUNT - 1 = 1 /\ Third = Multi!SyncOne(1, Before)
        BY <3>2 DEF Second, Third
      <4>2. QED
        BY <1>4, <2>1, <2>2, <4>1, LoopSyncs
    <3>3. CASE COUNT = 3
      <4>1. /\ 1 \in 1 .. COUNT - 1 /\ 1 - 1 = 0
            /\ 2 \in 1 .. COUNT - 1 /\ 2 - 1 = 1 /\ COUNT - 1 = 2
            /\ Second = Multi!SyncOne(1, Before) /\ Third = Multi!SyncOne(2, Second)
        BY <3>3 DEF Second, Third
      <4>2. SyncTyped(Second, 1) /\ (~mixed /\ ~Multi!Crossing => SyncAligned(Second, 1))
        BY <1>4, <2>1, <2>2, <4>1, LoopSyncs
      <4>3. QED
        BY <1>4, <4>1, <4>2, LoopSyncs
    <3>4. QED
      BY <1>1, <3>1, <3>2, <3>3
  <2>4. S.seen = Third.seen \union {0} /\ S.offset = Third.offset
    <3>1. Third = [seen |-> Third.seen, offset |-> Third.offset]
      BY <2>3 DEF SyncTyped
    <3>2. S = [Third EXCEPT !.seen = @ \union {0}]
      BY <1>2, <1>4
    <3> HIDE DEF S
    <3>3. QED
      BY <3>1, <3>2
  <2>5. \A e \in Multi!Encoders : e <= COUNT - 1
    BY <1>1
  <2>6. S.seen \subseteq online /\ S.offset = [e \in Multi!Encoders |-> S.offset[e]]
    BY <1>4, <2>3, <2>4, <2>5 DEF SyncTyped
  <2>7. ASSUME ~mixed, ~Multi!Crossing
        PROVE  /\ \A e \in S.seen : S.offset[e] = S.offset[0]
               /\ seenEncoders \intersect online # {} => \A v \in Multi!Trusted : S.offset[0] = offset[v]
    <3>1. SyncAligned(Third, COUNT - 1) /\ Third.seen \subseteq Multi!Encoders
      BY <2>3, <2>7 DEF SyncTyped
    <3>2. \A e \in S.seen : S.offset[e] = S.offset[0]
      BY <2>4, <2>5, <3>1 DEF SyncAligned
    <3>3. \A e \in seenEncoders \intersect online : ~(e > COUNT - 1)
      BY <1>1 DEF MultiInv, MultiTyped
    <3>4. seenEncoders \intersect online # {} => 0 \in Third.seen
      BY <3>1, <3>3 DEF SyncAligned
    <3>5. QED
      BY <2>4, <3>1, <3>2, <3>4 DEF SyncAligned
  <2>8. QED
    BY <1>4, <2>6, <2>7 DEF MultiInv, MultiTyped, S
<1>5. QED
  BY <1>3, <1>4

(* No encoder was seen yet. *)
LEMMA MultiInit == Multi!Init => MultiInv
BY DEF Multi!Init, MultiInv, MultiTyped, MultiSeen, MultiAligned, Multi!Trusted

MultiContinues ==
    seenEncoders \intersect online # {} =>
        positions' \subseteq positions \/ positions = {} \/ mixed'

(* getPosition(): the mean is of encoders with the offset of its one position. *)
LEMMA MultiPosition ==
    ASSUME MultiInv, Multi!getPosition PROVE MultiInv' /\ MultiContinues
<1> DEFINE S == Multi!Synced
<1>1. /\ seenEncoders' = S.seen
      /\ offset' = S.offset
      /\ mixed' = (mixed \/ Multi!Crossing)
      /\ positions' = {S.offset[e] : e \in S.seen \intersect online}
      /\ missed' = missed \union (Multi!Encoders \ online)
      /\ online' = online
  BY DEF Multi!getPosition, Multi!Valid
<1>2. /\ S.seen \subseteq Multi!Encoders \ NullEncoders
      /\ S.offset = [e \in Multi!Encoders |-> S.offset[e]]
      /\ 0 \in online =>
             /\ S.seen \subseteq online
             /\ ~mixed /\ ~Multi!Crossing =>
                    /\ \A e \in S.seen : S.offset[e] = S.offset[0]
                    /\ seenEncoders \intersect online # {} =>
                           \A v \in Multi!Trusted : S.offset[0] = offset[v]
      /\ 0 \notin online => S.seen = seenEncoders \ {0} /\ S.offset = offset
  BY SyncedAligns
<1> HIDE DEF S
<1>3. MultiTyped'
  BY <1>1, <1>2 DEF MultiInv, MultiTyped
<1>4. /\ Multi!Trusted' = S.seen \ missed'
      /\ S.seen \intersect online \subseteq Multi!Trusted'
      /\ seenEncoders \intersect online \subseteq Multi!Trusted
      /\ Multi!Trusted' \subseteq online
  BY <1>1, <1>2 DEF MultiInv, MultiTyped, Multi!Trusted
<1>5. MultiSeen'
  <2>1. 0 \in S.seen => 0 \in online
    BY <1>2
  <2>2. 0 \in S.seen => S.seen \intersect missed' = {}
    BY <1>1, <1>2, <2>1 DEF MultiInv, MultiTyped
  <2>3. QED
    BY <1>1, <1>4, <2>2 DEF MultiSeen
<1>6. CASE mixed'
  BY <1>3, <1>5, <1>6 DEF MultiInv, MultiAligned, MultiContinues
<1>7. CASE ~mixed' /\ 0 \in online
  <2>1. ~mixed /\ ~Multi!Crossing
    BY <1>1, <1>7
  <2>2. \A e \in S.seen : S.offset[e] = S.offset[0]
    BY <1>2, <1>7, <2>1
  <2>3. MultiAligned'
    BY <1>1, <1>4, <2>2 DEF MultiAligned
  <2>4. ASSUME seenEncoders \intersect online # {}, positions # {}
        PROVE  positions' \subseteq positions
    <3>1. PICK v \in Multi!Trusted : v \in Multi!Trusted
      BY <1>4, <2>4
    <3>2. S.offset[0] = offset[v] /\ \A p \in positions : p = offset[v]
      BY <1>2, <1>7, <2>1, <2>4, <3>1 DEF MultiInv, MultiAligned
    <3>3. \A p \in positions' : p = S.offset[0]
      BY <1>1, <2>2
    <3>4. QED
      BY <2>4, <3>2, <3>3
  <2>5. QED
    BY <1>3, <1>5, <2>3, <2>4 DEF MultiInv, MultiContinues
<1>8. CASE ~mixed' /\ 0 \notin online
  <2>1. ~mixed
    BY <1>1, <1>8
  <2>2. S.seen \subseteq seenEncoders /\ S.offset = offset
    BY <1>2, <1>8
  <2>3. Multi!Trusted' \subseteq Multi!Trusted
    BY <1>1, <1>4, <2>2 DEF Multi!Trusted
  <2>4. \A p \in positions' : \A v \in Multi!Trusted : p = offset[v]
    BY <1>1, <1>4, <2>1, <2>2, <2>3 DEF MultiInv, MultiAligned
  <2>5. MultiAligned'
    BY <1>1, <2>1, <2>2, <2>3, <2>4 DEF MultiInv, MultiAligned
  <2>6. ASSUME positions # {} PROVE positions' \subseteq positions
    BY <2>1, <2>4, <2>6 DEF MultiInv, MultiSeen, MultiAligned
  <2>7. QED
    BY <1>3, <1>5, <2>5, <2>6 DEF MultiInv, MultiContinues
<1>9. QED
  BY <1>6, <1>7, <1>8

(* resetEncoderValue(): the mean starts anew, and nothing is mixed. *)
LEMMA MultiReset ==
    ASSUME MultiInv, Multi!resetEncoderValue PROVE MultiInv' /\ positions' = {} /\ ~mixed'
<1>1. PICK value : offset' = [e \in Multi!Encoders |-> value]
  BY DEF Multi!resetEncoderValue
<1>2. /\ seenEncoders' = Multi!Synced.seen /\ positions' = {} /\ ~mixed' /\ online' = online
      /\ missed' = missed \union (Multi!Encoders \ online)
  BY DEF Multi!resetEncoderValue
<1>3. /\ Multi!Synced.seen \subseteq Multi!Encoders \ NullEncoders
      /\ 0 \in Multi!Synced.seen => Multi!Synced.seen \subseteq online
  BY SyncedAligns
<1>4. MultiTyped'
  BY <1>1, <1>2, <1>3 DEF MultiInv, MultiTyped
<1>5. MultiSeen'
  BY <1>2, <1>3 DEF MultiInv, MultiTyped, MultiSeen
<1>6. MultiAligned'
  BY <1>1, <1>2, <1>3 DEF MultiAligned, Multi!Trusted
<1>7. QED
  BY <1>2, <1>4, <1>5, <1>6 DEF MultiInv

(* An encoder goes, or comes back with another offset: the mean waits. *)
LEMMA MultiOthers ==
    ASSUME MultiInv, Multi!Disconnects \/ Multi!Connects \/ UNCHANGED multiVars
    PROVE  MultiInv' /\ positions' = positions
<1>1. CASE Multi!Disconnects
  <2>1. /\ UNCHANGED <<seenEncoders, missed, offset, mixed, positions>>
        /\ online' \subseteq online
    BY <1>1, Zenon DEF Multi!Disconnects
  <2>2. MultiTyped'
    BY <2>1 DEF MultiInv, MultiTyped
  <2>3. MultiSeen' /\ MultiAligned'
    BY <2>1 DEF MultiInv, MultiSeen, MultiAligned, Multi!Trusted
  <2>4. QED
    BY <2>1, <2>2, <2>3 DEF MultiInv
<1>2. CASE Multi!Connects
  <2>1. PICK e \in missed \ (online \union NullEncoders), value \in Misalignments :
            /\ online' = online \union {e}
            /\ missed' = missed \ {e}
            /\ offset' = [offset EXCEPT ![e] = value]
            /\ mixed' = (mixed \/ Multi!Straying(e))
            /\ UNCHANGED <<seenEncoders, positions>>
    BY <1>2, Zenon DEF Multi!Connects
  <2>2. MultiTyped'
    BY <2>1 DEF MultiInv, MultiTyped
  <2>3. MultiSeen'
    BY <2>1 DEF MultiInv, MultiSeen, Multi!Trusted
  <2>4. MultiAligned'
    <3>1. \A f \in Multi!Trusted : f # e /\ offset'[f] = offset[f]
      BY <2>1 DEF MultiInv, MultiTyped, Multi!Trusted
    <3>2. CASE e \notin seenEncoders
      <4>1. Multi!Trusted' = Multi!Trusted
        BY <2>1, <3>2 DEF Multi!Trusted
      <4>2. ~mixed' => ~mixed /\ positions' = positions
        BY <2>1
      <4>3. ~mixed => /\ \A f, g \in Multi!Trusted : offset[f] = offset[g]
                      /\ \A f \in Multi!Trusted, p \in positions : p = offset[f]
        BY DEF MultiInv, MultiAligned
      <4>4. ~mixed' => /\ \A f, g \in Multi!Trusted' : offset'[f] = offset'[g]
                       /\ \A f \in Multi!Trusted', p \in positions' : p = offset'[f]
        BY <3>1, <4>1, <4>2, <4>3
      <4>5. QED
        BY <4>4 DEF MultiAligned
    <3>3. CASE e \in seenEncoders /\ Multi!Trusted = {}
      <4>1. Multi!Trusted' \subseteq {e} /\ positions' = {}
        BY <2>1, <3>3 DEF MultiInv, MultiSeen, Multi!Trusted
      <4>2. QED
        BY <4>1 DEF MultiAligned
    <3>4. CASE e \in seenEncoders /\ Multi!Trusted # {}
      BY <2>1, <3>4 DEF MultiAligned, Multi!Straying
    <3>5. QED
      BY <3>2, <3>3, <3>4
  <2>5. QED
    BY <2>1, <2>2, <2>3, <2>4 DEF MultiInv
<1>3. CASE UNCHANGED multiVars
  BY <1>3 DEF multiVars, MultiInv, MultiTyped, MultiSeen, MultiAligned, Multi!Trusted
<1>4. QED
  BY <1>1, <1>2, <1>3

(* Every step keeps the invariant, and goes on with the position if it can. *)
LEMMA MultiStep ==
    ASSUME MultiInv, Multi!Next \/ UNCHANGED multiVars
    PROVE  MultiInv' /\ MultiContinues
BY MultiPosition, MultiReset, MultiOthers DEF Multi!Next, MultiContinues

(* Which says that they agree. *)
LEMMA MultiAgrees == MultiInv => Multi!EncodersAgree
BY DEF MultiInv, MultiSeen, MultiAligned, Multi!EncodersAgree

(* At most one encoder beside the first. *)
OneBeside == \A e, f \in Multi!Encoders \ (NullEncoders \union {0}) : e = f

(* It is aligned with the first, or the first with it, and with nothing else. *)
LEMMA NeverMixed ==
    ASSUME OneBeside, MultiInv, ~mixed, Multi!Next \/ UNCHANGED multiVars
    PROVE  ~mixed'
<1>1. ~Multi!Crossing
  <2>1. \A i, j \in Multi!Encoders : 0 < i /\ i < j => i # 0 /\ j # 0 /\ i # j
    BY EncoderAssumption DEF Multi!Encoders
  <2>2. QED
    BY <2>1 DEF OneBeside, Multi!Crossing, MultiInv, MultiTyped
<1>2. ASSUME NEW e \in missed \ NullEncoders PROVE ~Multi!Straying(e)
  <2> SUFFICES ASSUME e \in seenEncoders, NEW f \in Multi!Trusted PROVE FALSE
    BY DEF Multi!Straying
  <2>1. e # f /\ e # 0 /\ f # 0
    BY <1>2 DEF MultiInv, MultiSeen, Multi!Trusted
  <2>2. QED
    BY <1>2, <2>1 DEF OneBeside, MultiInv, MultiTyped, Multi!Trusted
<1>3. QED
  BY <1>1, <1>2, Zenon DEF Multi!Next, Multi!getPosition, Multi!resetEncoderValue, Multi!Disconnects,
                    Multi!Connects, multiVars

-----------------------------------------------------------------------------
Dji == INSTANCE DjiMotor WITH Temperatures <- MotorTemperatures, online <- onlineMotors

djiVars == <<phase, canMotorStore, desiredOutput, commanded, frames, torque, temperature,
             onlineMotors, reported>>

(* DJI motors: the limits of the word of an output. *)
LEMMA Words ==
    /\ Dji!SHRT_MIN \in Int /\ Dji!SHRT_MAX \in Int
    /\ Dji!SHRT_MIN = -Dji!SHRT_MAX - 1 /\ Dji!SHRT_MAX \in Nat
    /\ OutputWord = 2 * (Dji!SHRT_MAX + 1)
    /\ OutputWord \div 2 - 1 = Dji!SHRT_MAX /\ -(OutputWord \div 2) = Dji!SHRT_MIN
BY MotorAssumption DEF Dji!SHRT_MIN, Dji!SHRT_MAX

(* A value of the word is itself, and so is the negation of any but the least. *)
LEMMA Fits ==
    ASSUME NEW x \in Dji!SHRT_MIN .. Dji!SHRT_MAX
    PROVE  Dji!ToInt16(x) = x
<1>1. OutputWord \in Nat \ {0} /\ x - Dji!SHRT_MIN \in 0 .. OutputWord - 1
  BY Words
<1>2. (x - Dji!SHRT_MIN) % OutputWord = x - Dji!SHRT_MIN
  BY <1>1
<1>3. QED
  BY <1>1, <1>2, Words DEF Dji!ToInt16

(* An output is limited to its word. *)
LEMMA LimitedFits ==
    ASSUME NEW output \in Int
    PROVE  Dji!Limited(output) \in Dji!SHRT_MIN .. Dji!SHRT_MAX
BY Words DEF Dji!Limited

(* The output of an inverted motor is mirrored, unless it is the least one. *)
LEMMA OutputMirrors ==
    ASSUME NEW m, NEW output \in Int, Dji!Limited(output) # Dji!SHRT_MIN
    PROVE  /\ Dji!Output(m, output) = Dji!Mirrored(m, Dji!Limited(output))
           /\ Dji!Mirrored(m, Dji!Limited(output)) \in Dji!SHRT_MIN .. Dji!SHRT_MAX
           /\ Dji!Mirrored(m, Dji!Limited(output)) # Dji!SHRT_MIN
<1> DEFINE c == Dji!Limited(output)
<1>1. c \in Dji!SHRT_MIN .. Dji!SHRT_MAX /\ c # Dji!SHRT_MIN
  BY LimitedFits
<1> HIDE DEF c
<1>2. -c \in Dji!SHRT_MIN .. Dji!SHRT_MAX /\ -c # Dji!SHRT_MIN
  BY <1>1, Words
<1>3. Dji!ToInt16(-c) = -c
  BY <1>2, Fits
<1>4. Dji!Output(m, output) = IF m \in MotorInverted THEN -c ELSE c
  BY <1>3 DEF Dji!Output, c
<1>5. QED
  BY <1>1, <1>2, <1>4 DEF Dji!Mirrored, c

(* The place of a motor and its quarter of a message. *)
LEMMA PlaceOfMotor ==
    ASSUME NEW m \in Motors
    PROVE  /\ MotorIdentifier[m] \in 513 .. 520
           /\ Dji!NormalizedId(m) = MotorIdentifier[m] - 513
           /\ Dji!NormalizedId(m) \in 0 .. 7
           /\ (MotorIdentifier[m] - 513) % 4 = Dji!NormalizedId(m) % 4
           /\ (MotorIdentifier[m] - 513) % 4 \in 0 .. 3
<1>1. MotorIdentifier[m] \in 513 .. 520
  BY MotorAssumption
<1>2. QED
  BY <1>1 DEF Dji!NormalizedId, Dji!MOTOR1, Dji!DJI_MOTORS_PER_CAN

(* Within one bus and one message, the quarter tells the place. *)
LEMMA QuarterTellsPlace ==
    ASSUME NEW m \in Motors, NEW n \in Motors, NEW f,
           Dji!Hears(m, f), MotorCanBus[n] = f[1], Dji!MessageOf(n) = f[2],
           Dji!NormalizedId(n) % 4 = (MotorIdentifier[m] - 513) % 4
    PROVE  Dji!Place(n) = Dji!Place(m)
<1>1. /\ f[1] = MotorCanBus[m]
      /\ f[2] = IF Dji!NormalizedId(m) <= 3 THEN 512
                ELSE IF m \in CurrentControl THEN 510 ELSE 511
  BY PlaceOfMotor DEF Dji!Hears, Dji!LOW, Dji!HIGH, Dji!GM6020_CURRENT
<1>2. f[2] = IF Dji!NormalizedId(n) <= 3 THEN 512
             ELSE IF n \in CurrentControl THEN 510 ELSE 511
  BY DEF Dji!MessageOf, Dji!LOW, Dji!HIGH, Dji!GM6020_CURRENT
<1>3. Dji!NormalizedId(m) <= 3 <=> Dji!NormalizedId(n) <= 3
  BY <1>1, <1>2
<1>4. /\ Dji!NormalizedId(m) \in 0 .. 7 /\ Dji!NormalizedId(n) \in 0 .. 7
      /\ Dji!NormalizedId(n) % 4 = Dji!NormalizedId(m) % 4
  BY PlaceOfMotor
<1>5. Dji!NormalizedId(n) = Dji!NormalizedId(m)
  BY <1>3, <1>4
<1>6. QED
  BY <1>1, <1>5 DEF Dji!Place

DjiTyped ==
    /\ canMotorStore \subseteq Motors
    /\ \A m, n \in canMotorStore : Dji!Place(m) = Dji!Place(n) => m = n
    /\ commanded \in [Motors -> Int]
    /\ desiredOutput = [m \in Motors |-> Dji!Output(m, commanded[m])]
    /\ \A m, n \in Doubled : commanded[m] = commanded[n]

(* What the messages of a turn carry to the motors that hear them. *)
LEMMA DjiSends ==
    ASSUME DjiTyped, Dji!encodeAndSendCanData
    PROVE  Dji!MotorsObey'
<1>1. PICK sent :
          /\ frames' = [f \in sent |-> Dji!Serialized(f[1], f[2])]
          /\ UNCHANGED <<phase, canMotorStore, desiredOutput, commanded, Dji!reportVars>>
  BY DEF Dji!encodeAndSendCanData
<1> SUFFICES ASSUME NEW f \in sent, NEW m \in Motors, Dji!Hears(m, f)
             PROVE  LET heard == Dji!Serialized(f[1], f[2])[(MotorIdentifier[m] - 513) % 4]
                    IN  IF m \in canMotorStore
                        THEN Dji!Limited(commanded[m]) # Dji!SHRT_MIN
                               => heard = Dji!Mirrored(m, Dji!Limited(commanded[m]))
                        ELSE (\A n \in canMotorStore : Dji!Place(n) # Dji!Place(m))
                               => heard = 0
  BY <1>1 DEF Dji!MotorsObey, Dji!Heard, Dji!Hears, Dji!Place, Dji!NormalizedId
<1> DEFINE place == (MotorIdentifier[m] - 513) % 4
           there == {n \in Dji!OnBus(f[1]) :
                        Dji!MessageOf(n) = f[2] /\ Dji!NormalizedId(n) % 4 = place}
<1>2. Dji!Serialized(f[1], f[2])[place]
          = IF there = {} THEN 0 ELSE desiredOutput[CHOOSE n \in there : TRUE]
  BY PlaceOfMotor, ZenonT(60) DEF Dji!Serialized
<1>3. ASSUME NEW n \in there PROVE n \in canMotorStore /\ Dji!Place(n) = Dji!Place(m)
  BY QuarterTellsPlace DEF Dji!OnBus, DjiTyped
<1>4. CASE m \in canMotorStore
  <2>1. m \in there
    <3>1. MotorCanBus[m] = f[1] /\ Dji!MessageOf(m) = f[2]
      BY PlaceOfMotor DEF Dji!Hears, Dji!MessageOf
    <3>2. QED
      BY <1>4, <3>1, PlaceOfMotor DEF Dji!OnBus
  <2>2. there = {m}
    BY <1>3, <1>4, <2>1 DEF DjiTyped
  <2> HIDE DEF there
  <2>3. Dji!Serialized(f[1], f[2])[place] = Dji!Output(m, commanded[m])
    BY <1>2, <2>2 DEF DjiTyped
  <2>4. commanded[m] \in Int
    BY DEF DjiTyped
  <2>5. QED
    BY <1>4, <2>3, <2>4, OutputMirrors
<1>5. CASE m \notin canMotorStore
  <2>1. (\A n \in canMotorStore : Dji!Place(n) # Dji!Place(m)) => there = {}
    BY <1>3
  <2> HIDE DEF there
  <2>2. QED
    BY <1>2, <1>5, <2>1
<1>6. QED
  BY <1>4, <1>5

(* No motor has an output, and no message was sent. *)
LEMMA DjiTypedInit == Dji!Init => DjiTyped /\ Dji!MotorsObey
<1> SUFFICES ASSUME Dji!Init PROVE DjiTyped /\ Dji!MotorsObey
  OBVIOUS
<1>1. ASSUME NEW m \in Motors PROVE Dji!Output(m, 0) = 0
  <2>1. Dji!Limited(0) = 0 /\ 0 # Dji!SHRT_MIN
    BY Words DEF Dji!Limited
  <2>2. QED
    BY <2>1, OutputMirrors DEF Dji!Mirrored
<1>2. DjiTyped
  BY <1>1, MotorAssumption DEF Dji!Init, DjiTyped
<1>3. DOMAIN frames = {}
  BY DEF Dji!Init
<1>4. QED
  BY <1>2, <1>3 DEF Dji!MotorsObey

(* An output is given to a motor, or to both motors of an axle. *)
LEMMA DjiSetsOutputs ==
    ASSUME DjiTyped, NEW motors \in SUBSET Motors, NEW output \in Int,
           Dji!SetOutputs(motors, output),
           motors = Doubled \/ motors \intersect Doubled = {}
    PROVE  DjiTyped' /\ frames' = <<>>
<1>1. /\ desiredOutput' = [m \in Motors |->
                              IF m \in motors THEN Dji!Output(m, output) ELSE desiredOutput[m]]
      /\ commanded' = [m \in Motors |-> IF m \in motors THEN output ELSE commanded[m]]
      /\ frames' = <<>>
      /\ canMotorStore' = canMotorStore
  BY DEF Dji!SetOutputs
<1>2. commanded' \in [Motors -> Int]
  BY <1>1 DEF DjiTyped
<1>3. desiredOutput' = [m \in Motors |-> Dji!Output(m, commanded'[m])]
  BY <1>1 DEF DjiTyped
<1>4. \A m, n \in Doubled : commanded'[m] = commanded'[n]
  BY <1>1, MotorAssumption DEF DjiTyped
<1>5. QED
  BY <1>1, <1>2, <1>3, <1>4 DEF DjiTyped, Dji!Place, Dji!Output

(* Every step of the sending side. *)
LEMMA DjiTransmits ==
    ASSUME DjiTyped, Dji!MotorsObey,
           Dji!Transmit \/ UNCHANGED Dji!transmitVars
    PROVE  DjiTyped' /\ Dji!MotorsObey'
<1>1. ASSUME frames' = <<>> PROVE Dji!MotorsObey'
  <2>1. DOMAIN frames' = {}
    BY <1>1
  <2>2. QED
    BY <2>1 DEF Dji!MotorsObey
<1>2. ASSUME NEW m \in Motors, Dji!initialize(m)
      PROVE  DjiTyped' /\ Dji!MotorsObey'
  <2>1. DjiTyped'
    BY <1>2 DEF Dji!initialize, DjiTyped, Dji!Place, Dji!Output
  <2>2. QED
    BY <1>1, <1>2, <2>1 DEF Dji!initialize
<1>3. CASE Dji!Destruct
  <2>1. DjiTyped'
    BY <1>3 DEF Dji!Destruct, DjiTyped, Dji!Place, Dji!Output
  <2>2. QED
    BY <1>1, <1>3, <2>1 DEF Dji!Destruct
<1>4. CASE Dji!setDesiredOutput
  <2>1. PICK output \in Outputs, m \in Motors \ Doubled : Dji!SetOutputs({m}, output)
    BY <1>4 DEF Dji!setDesiredOutput
  <2>2. output \in Int
    BY MotorAssumption
  <2>3. QED
    BY <1>1, <2>1, <2>2, DjiSetsOutputs
<1>5. CASE Dji!setDoubleOutput
  <2>1. PICK output \in Outputs : Dji!SetOutputs(Doubled, output)
    BY <1>5 DEF Dji!setDoubleOutput
  <2>2. output \in Int /\ Doubled \in SUBSET Motors
    BY MotorAssumption
  <2>3. QED
    BY <1>1, <2>1, <2>2, DjiSetsOutputs
<1>6. CASE Dji!encodeAndSendCanData
  <2>1. DjiTyped'
    BY <1>6 DEF Dji!encodeAndSendCanData, DjiTyped, Dji!Place, Dji!Output
  <2>2. QED
    BY <1>6, <2>1, DjiSends
<1>7. CASE UNCHANGED Dji!transmitVars
  BY <1>7 DEF Dji!transmitVars, DjiTyped, Dji!MotorsObey, Dji!Place, Dji!Output, Dji!Hears,
              Dji!Heard
<1>8. QED
  BY <1>2, <1>3, <1>4, <1>5, <1>6, <1>7 DEF Dji!Transmit

-----------------------------------------------------------------------------
(* What a motor has is what it reported last. *)
AsReported(m) ==
    IF reported[m] = <<>>
    THEN torque[m] = 0 /\ temperature[m] = 0 /\ m \notin onlineMotors
    ELSE /\ reported[m] \in Torques \X MotorTemperatures
         /\ torque[m] = IF m \in MotorInverted THEN Dji!ToInt16(-reported[m][1])
                        ELSE reported[m][1]
         /\ temperature[m] = reported[m][2]

DjiReported ==
    /\ torque = [m \in Motors |-> torque[m]] /\ temperature = [m \in Motors |-> temperature[m]]
    /\ reported = [m \in Motors |-> reported[m]]
    /\ \A m \in Motors : AsReported(m)

(* No motor has reported. *)
LEMMA DjiReportedInit == Dji!Init => DjiReported
BY DEF Dji!Init, DjiReported, AsReported

(* A motor reports, or is silent for too long. *)
LEMMA DjiReports ==
    ASSUME DjiReported,
           (\E m \in Motors : Dji!Report(m)) \/ UNCHANGED Dji!reportVars
    PROVE  DjiReported'
<1>1. CASE UNCHANGED Dji!reportVars
  BY <1>1 DEF Dji!reportVars, DjiReported, AsReported, Dji!ToInt16
<1>2. ASSUME NEW m \in Motors, Dji!Disconnect(m) PROVE DjiReported'
  BY <1>2 DEF Dji!Disconnect, DjiReported, AsReported, Dji!ToInt16
<1>3. ASSUME NEW m \in Motors, Dji!processMessage(m) PROVE DjiReported'
  <2>1. PICK t \in Torques, degrees \in MotorTemperatures :
            /\ torque' = [torque EXCEPT ![m] = IF m \in MotorInverted THEN Dji!ToInt16(-t) ELSE t]
            /\ temperature' = [temperature EXCEPT ![m] = degrees]
            /\ onlineMotors' = onlineMotors \union {m}
            /\ reported' = [reported EXCEPT ![m] = <<t, degrees>>]
    BY <1>3, Zenon DEF Dji!processMessage
  <2>2. /\ torque' = [n \in Motors |-> torque'[n]]
        /\ temperature' = [n \in Motors |-> temperature'[n]]
        /\ reported' = [n \in Motors |-> reported'[n]]
    BY <2>1, Zenon DEF DjiReported
  <2>3. ASSUME NEW n \in Motors, n # m
        PROVE  /\ torque'[n] = torque[n] /\ temperature'[n] = temperature[n]
               /\ reported'[n] = reported[n] /\ (n \in onlineMotors' <=> n \in onlineMotors)
    BY <2>1, <2>3, Zenon DEF DjiReported
  <2>4. /\ torque'[m] = IF m \in MotorInverted THEN Dji!ToInt16(-t) ELSE t
        /\ temperature'[m] = degrees /\ reported'[m] = <<t, degrees>>
    BY <2>1 DEF DjiReported
  <2>5. <<t, degrees>> # <<>> /\ <<t, degrees>>[1] = t /\ <<t, degrees>>[2] = degrees
    OBVIOUS
  <2>6. ASSUME NEW n \in Motors, n # m PROVE AsReported(n)'
    BY <2>3, <2>6 DEF DjiReported, AsReported, Dji!ToInt16
  <2>7. AsReported(m)'
    <3>1. reported'[m] # <<>> /\ reported'[m][1] = t /\ reported'[m][2] = degrees
      BY <2>4, <2>5
    <3>2. reported'[m] \in Torques \X MotorTemperatures
      BY <2>4
    <3>3. torque'[m] = IF m \in MotorInverted THEN Dji!ToInt16(-reported'[m][1])
                       ELSE reported'[m][1]
      BY <2>4, <3>1
    <3>4. temperature'[m] = reported'[m][2]
      BY <2>4, <3>1
    <3>5. QED
      BY <3>1, <3>2, <3>3, <3>4 DEF AsReported, Dji!ToInt16
  <2>8. QED
    BY <2>2, <2>6, <2>7 DEF DjiReported
<1>4. QED
  BY <1>1, <1>2, <1>3 DEF Dji!Report

(* The double motor has the two motors of its axle. *)
LEMMA BothMotors ==
    /\ Dji!motorOne \in Motors /\ Dji!motorTwo \in Motors
    /\ Doubled = {Dji!motorOne, Dji!motorTwo}
<1>1. PICK m \in Motors, n \in Motors : m # n /\ Doubled = {m, n}
  BY MotorAssumption
<1>2. Dji!motorOne \in Doubled
  BY <1>1 DEF Dji!motorOne
<1>3. Dji!motorTwo \in Doubled /\ Dji!motorTwo # Dji!motorOne
  <2>1. \E k \in Doubled : k # Dji!motorOne
    BY <1>1
  <2>2. QED
    BY <2>1 DEF Dji!motorTwo
<1>4. QED
  BY <1>1, <1>2, <1>3

(* What the double motor says is between what its motors say, of both or none. *)
LEMMA DoubleSpeaks ==
    ASSUME DjiTyped, DjiReported
    PROVE  Dji!DoubleSpeaksForBoth
<1> DEFINE a == Dji!motorOne
           b == Dji!motorTwo
           Axle(m) == IF reported[m] = <<>> THEN 0 ELSE Dji!Mirrored(m, reported[m][1])
           Degrees(m) == IF reported[m] = <<>> THEN 0 ELSE reported[m][2]
           asked_1 == {Dji!Limited(commanded[m]) : m \in Doubled}
           representable == \A m \in Doubled :
                                reported[m] # <<>> => reported[m][1] # Dji!SHRT_MIN
<1>1. a \in Motors /\ b \in Motors /\ Doubled = {a, b}
  BY BothMotors
<1> HIDE DEF a, b
<1>2. Dji!SHRT_MIN \notin asked_1 => Dji!getOutputDesired \in asked_1
  <2> SUFFICES ASSUME Dji!SHRT_MIN \notin asked_1 PROVE Dji!getOutputDesired \in asked_1
    OBVIOUS
  <2> DEFINE c == Dji!Limited(commanded[a])
             Out == [m \in Doubled |-> IF m \in MotorInverted THEN Dji!ToInt16(-desiredOutput[m])
                                       ELSE desiredOutput[m]]
  <2>1. c = Dji!Limited(commanded[b]) /\ c # Dji!SHRT_MIN /\ c \in asked_1
        /\ commanded[a] \in Int /\ commanded[b] = commanded[a]
    BY <1>1 DEF DjiTyped
  <2>2. c \in Dji!SHRT_MIN .. Dji!SHRT_MAX
    BY <2>1, LimitedFits
  <2>3. ASSUME NEW m \in {a, b} PROVE Out[m] = c
    <3>1. m \in Doubled /\ m \in Motors /\ commanded[m] = commanded[a]
      BY <1>1, <2>1
    <3>2. desiredOutput[m] = Dji!Mirrored(m, c)
      BY <2>1, <3>1, OutputMirrors DEF DjiTyped
    <3>3. m \in MotorInverted => Dji!ToInt16(-desiredOutput[m]) = c
      <4>1. m \in MotorInverted => -desiredOutput[m] = c
        BY <2>2, <3>2, Words DEF Dji!Mirrored
      <4>2. QED
        BY <2>2, <4>1, Fits
    <3>4. QED
      BY <3>1, <3>2, <3>3 DEF Dji!Mirrored
  <2>4. Dji!getOutputDesired = Dji!Quotient(Out[a] + Out[b], 2)
    BY DEF Dji!getOutputDesired, Dji!SumOfBoth, a, b
  <2> HIDE DEF Out, c
  <2>5. Dji!getOutputDesired = Dji!Quotient(c + c, 2) /\ c \in Int
    BY <2>2, <2>3, <2>4, Words
  <2>6. QED
    BY <2>1, <2>5 DEF Dji!Quotient
<1>3. Dji!getTemperature = Dji!Max({Degrees(m) : m \in Doubled})
  <2>1. \A m \in Doubled : temperature[m] = Degrees(m)
    BY <1>1 DEF DjiReported, AsReported
  <2>2. QED
    BY <2>1 DEF Dji!getTemperature
<1>4. ASSUME representable, NEW m \in Doubled
      PROVE  torque[m] = Axle(m) /\ Axle(m) \in Int
  <2>1. CASE reported[m] = <<>>
    BY <1>1, <2>1 DEF DjiReported, AsReported
  <2>2. CASE reported[m] # <<>>
    <3> DEFINE t == reported[m][1]
    <3>1. m \in Motors /\ t \in Torques
          /\ torque[m] = IF m \in MotorInverted THEN Dji!ToInt16(-t) ELSE t
      BY <1>1, <2>2 DEF DjiReported, AsReported
    <3>2. t \in Dji!SHRT_MIN .. Dji!SHRT_MAX /\ t # Dji!SHRT_MIN
      <4>1. t \in Dji!SHRT_MIN .. Dji!SHRT_MAX
        BY <3>1, Words, MotorAssumption, Zenon
      <4>2. QED
        BY <1>4, <2>2, <4>1
    <3> HIDE DEF t
    <3>3. Dji!ToInt16(-t) = -t /\ t \in Int
      BY <3>2, Fits, Words
    <3>4. QED
      BY <2>2, <3>1, <3>3 DEF Dji!Mirrored, t
  <2>3. QED
    BY <2>1, <2>2
<1>5. Dji!getTorque =
          LET num_online == (IF a \in onlineMotors THEN 1 ELSE 0)
                                + (IF b \in onlineMotors THEN 1 ELSE 0)
          IN  IF num_online = 0 THEN 0 ELSE Dji!Quotient(torque[a] + torque[b], num_online)
  BY <1>1 DEF Dji!getTorque, Dji!SumOfBoth, Dji!isMotorOnline, a, b
<1>6. Dji!isDoubleOnline <=> a \in onlineMotors /\ b \in onlineMotors
  BY <1>1 DEF Dji!isDoubleOnline, Dji!isMotorOnline
<1>7. ASSUME representable, Dji!isDoubleOnline
      PROVE  /\ Dji!getTorque >= Dji!Min({Axle(m) : m \in Doubled})
             /\ Dji!getTorque <= Dji!Max({Axle(m) : m \in Doubled})
             /\ 2 * Dji!getTorque - Dji!SumOfBoth([m \in Doubled |-> Axle(m)]) \in -1 .. 1
  <2> DEFINE x == Axle(a)
             y == Axle(b)
  <2>1. torque[a] = x /\ torque[b] = y /\ x \in Int /\ y \in Int
    BY <1>1, <1>4, <1>7
  <2>2. {Axle(m) : m \in Doubled} = {x, y}
    BY <1>1
  <2>3. Dji!SumOfBoth([m \in Doubled |-> Axle(m)]) = x + y
    BY <1>1 DEF Dji!SumOfBoth, a, b
  <2> HIDE DEF x, y
  <2>4. Dji!getTorque = Dji!Quotient(x + y, 2)
    BY <1>5, <1>6, <1>7, <2>1
  <2>5. /\ Dji!Min({x, y}) = IF x <= y THEN x ELSE y
        /\ Dji!Max({x, y}) = IF x >= y THEN x ELSE y
    BY <2>1 DEF Dji!Min, Dji!Max
  <2>6. /\ Dji!getTorque >= Dji!Min({x, y}) /\ Dji!getTorque <= Dji!Max({x, y})
        /\ 2 * Dji!getTorque - (x + y) \in -1 .. 1
    BY <2>1, <2>4, <2>5 DEF Dji!Quotient
  <2> HIDE DEF Axle
  <2>7. QED
    BY <2>2, <2>3, <2>6, Zenon
<1>8. ASSUME ~Dji!isDoubleOnline, Doubled \intersect onlineMotors = {}
      PROVE  Dji!getTorque = 0
  BY <1>1, <1>5, <1>8
<1>9. (Dji!isDoubleOnline \/ Doubled \intersect onlineMotors = {}) /\ representable =>
          IF Dji!isDoubleOnline
          THEN /\ Dji!getTorque >= Dji!Min({Axle(m) : m \in Doubled})
               /\ Dji!getTorque <= Dji!Max({Axle(m) : m \in Doubled})
               /\ 2 * Dji!getTorque - Dji!SumOfBoth([m \in Doubled |-> Axle(m)]) \in -1 .. 1
          ELSE Dji!getTorque = 0
  BY <1>7, <1>8
<1>10. QED
  BY <1>2, <1>3, <1>9 DEF Dji!DoubleSpeaksForBoth

-----------------------------------------------------------------------------
Rev == INSTANCE RevMotor

revVars == <<managed, paramQueue, asked, spark, failed, requests>>
reportVars == <<motorDisconnectTimeout, encoderDisconnectTimeout, silence, heartbeat>>
sparkVars == <<revVars, reportVars>>

(* REV motors: the identifier of the message for a status frame. *)
StatusId(i, m) == Rev!CreateArbitrationControlId(95 + i, m)

(* The commands of the status frames are five numbers in a row, and those of
   the control modes are others. *)
LEMMA Commands ==
    /\ \A i \in 1 .. 5 : Rev!APICommand[Rev!Frames[i]] = 95 + i
    /\ {Rev!APICommand[Rev!Frames[i]] : i \in 1 .. 5} = 96 .. 100
    /\ {Rev!APICommand[f] : f \in Rev!Range(Rev!Frames)} = 96 .. 100
    /\ \A f, g \in Rev!Range(Rev!Frames) :
           /\ Rev!APICommand[f] \in 96 .. 100
           /\ Rev!APICommand[f] = Rev!APICommand[g] => f = g
    /\ \A mode : Rev!controlModeToAPI(mode) \in {2, 18, 50, 66, 67}
<1>1. /\ Rev!APICommand["Period0"] = 96 /\ Rev!APICommand["Period1"] = 97
      /\ Rev!APICommand["Period2"] = 98 /\ Rev!APICommand["Period3"] = 99
      /\ Rev!APICommand["Period4"] = 100
      /\ Rev!APICommand["DUTY_CYCLE"] = 2 /\ Rev!APICommand["VELOCITY"] = 18
      /\ Rev!APICommand["POSITION"] = 50 /\ Rev!APICommand["VOLTAGE"] = 66
      /\ Rev!APICommand["CURRENT"] = 67
  BY DEF Rev!APICommand
<1>2. /\ Rev!Frames[1] = "Period0" /\ Rev!Frames[2] = "Period1" /\ Rev!Frames[3] = "Period2"
      /\ Rev!Frames[4] = "Period3" /\ Rev!Frames[5] = "Period4"
      /\ DOMAIN Rev!Frames = 1 .. 5
  BY DEF Rev!Frames
<1>3. Rev!Range(Rev!Frames) = {"Period0", "Period1", "Period2", "Period3", "Period4"}
  BY <1>2 DEF Rev!Range
<1>4. \A i \in 1 .. 5 : Rev!APICommand[Rev!Frames[i]] = 95 + i
  BY <1>1, <1>2
<1>5. {Rev!APICommand[Rev!Frames[i]] : i \in 1 .. 5} = 96 .. 100
  <2>1. ASSUME NEW k \in 96 .. 100
        PROVE  k - 95 \in 1 .. 5 /\ k = Rev!APICommand[Rev!Frames[k - 95]]
    BY <1>4
  <2>2. QED
    BY <1>4, <2>1
<1>6. \A f, g \in Rev!Range(Rev!Frames) :
           /\ Rev!APICommand[f] \in 96 .. 100
           /\ Rev!APICommand[f] = Rev!APICommand[g] => f = g
  BY <1>1, <1>3
<1>7. {Rev!APICommand[f] : f \in Rev!Range(Rev!Frames)} = 96 .. 100
  <2>1. \A k \in 96 .. 100 : k \in {96, 97, 98, 99, 100}
    OBVIOUS
  <2>2. QED
    BY <1>1, <1>3, <1>6, <2>1
<1>8. \A mode : Rev!controlModeToAPI(mode) \in {2, 18, 50, 66, 67}
  BY <1>1 DEF Rev!controlModeToAPI
<1>9. QED
  BY <1>4, <1>5, <1>6, <1>7, <1>8

(* The fields of an arbitration identifier. *)
ApiOf(id) == (id \div 64) % 1024
DeviceOf(id) == id % 64

IdOf(api, m) == Rev!SparkMax + api * 64 + RevIdentifier[m]

(* The fields of an identifier that was put together are its parts. *)
LEMMA Fields ==
    ASSUME NEW m \in RevMotors, NEW api \in 0 .. 1023
    PROVE  /\ IdOf(api, m) \in Int /\ DeviceOf(IdOf(api, m)) = RevIdentifier[m]
           /\ ApiOf(IdOf(api, m)) = api
<1>1. RevIdentifier[m] \in 1 .. 8
  BY RevAssumption
<1>2. QED
  BY <1>1 DEF IdOf, Rev!SparkMax, ApiOf, DeviceOf

(* CreateArbitrationControlId() keeps class and index in their bits. *)
LEMMA ControlIdentifier ==
    ASSUME NEW m \in RevMotors, NEW cmd \in 0 .. 1023
    PROVE  Rev!CreateArbitrationControlId(cmd, m) = IdOf(cmd, m)
<1>1. RevIdentifier[m] \in 1 .. 8
  BY RevAssumption
<1>2. QED
  BY <1>1 DEF Rev!CreateArbitrationControlId, Rev!SparkMax, IdOf

(* CreateArbitrationParameterId() marks a parameter. *)
LEMMA ParameterIdentifier ==
    ASSUME NEW m \in RevMotors, NEW param \in 0 .. 255
    PROVE  /\ Rev!CreateArbitrationParameterId(param, m) = IdOf(768 + param, m)
           /\ 768 + param \in 0 .. 1023
BY DEF Rev!CreateArbitrationParameterId, IdOf

(* A parameter fits its eight bits, and a slot is pushed with all of its own. *)
LEMMA Parameters ==
    /\ Rev!PIDParameters \subseteq 0 .. 255
    /\ \A slot \in Slots, i \in 1 .. 8 :
           Rev!Parameter(Rev!PIDOrder[i], slot) \in Rev!PIDParameters
    /\ \A slot \in Slots : \A p \in {Rev!Parameter(n, slot) : n \in DOMAIN Rev!ParameterIndex} :
           \E i \in 1 .. 8 : p = Rev!Parameter(Rev!PIDOrder[i], slot)
    /\ \A slot \in Slots, i \in 1 .. 8 :
           Rev!Parameter(Rev!PIDOrder[i], slot)
               \in {Rev!Parameter(n, slot) : n \in DOMAIN Rev!ParameterIndex}
<1>1. /\ Rev!PIDOrder[1] = "kP" /\ Rev!PIDOrder[2] = "kI" /\ Rev!PIDOrder[3] = "kD"
      /\ Rev!PIDOrder[4] = "kF" /\ Rev!PIDOrder[5] = "kIZone" /\ Rev!PIDOrder[6] = "kDFilter"
      /\ Rev!PIDOrder[7] = "kOutputMax" /\ Rev!PIDOrder[8] = "kOutputMin"
  BY DEF Rev!PIDOrder
<1>2. DOMAIN Rev!ParameterIndex
          = {"kP", "kI", "kD", "kF", "kIZone", "kDFilter", "kOutputMin", "kOutputMax"}
  BY DEF Rev!ParameterIndex
<1>3. \A n \in DOMAIN Rev!ParameterIndex : Rev!ParameterIndex[n] \in 0 .. 7
  BY DEF Rev!ParameterIndex
<1>4. ASSUME NEW i \in 1 .. 8 PROVE Rev!PIDOrder[i] \in DOMAIN Rev!ParameterIndex
  <2>1. i \in {1, 2, 3, 4, 5, 6, 7, 8}
    OBVIOUS
  <2>2. QED
    BY <1>1, <1>2, <2>1
<1>5. ASSUME NEW n \in DOMAIN Rev!ParameterIndex PROVE \E i \in 1 .. 8 : n = Rev!PIDOrder[i]
  BY <1>1, <1>2
<1>6. Rev!PIDParameters \subseteq 0 .. 255
  BY <1>3, RevAssumption DEF Rev!PIDParameters, Rev!Parameter
<1>7. QED
  BY <1>4, <1>5, <1>6 DEF Rev!PIDParameters

RevMessage == [id : Int, payload : Int]

ParamId(p, m) == Rev!CreateArbitrationParameterId(p, m)

(* The identifiers of a motor tell its parameters and frames from each other. *)
LEMMA IdsDiffer ==
    ASSUME NEW m \in RevMotors
    PROVE  /\ \A p \in Rev!PIDParameters : ParamId(p, m) \in Int
           /\ \A i \in 1 .. 5 : StatusId(i, m) \in Int
           /\ \A p, r \in Rev!PIDParameters : ParamId(p, m) = ParamId(r, m) => p = r
           /\ \A p \in Rev!PIDParameters, i \in 1 .. 5 : ParamId(p, m) # StatusId(i, m)
           /\ \A i, n \in 1 .. 5 : StatusId(i, m) = StatusId(n, m) => i = n
           /\ \A p \in Rev!PIDParameters : DeviceOf(ParamId(p, m)) = RevIdentifier[m]
           /\ \A i \in 1 .. 5 : DeviceOf(StatusId(i, m)) = RevIdentifier[m]
<1>1. ASSUME NEW p \in Rev!PIDParameters
      PROVE  /\ p \in 0 .. 255 /\ ParamId(p, m) \in Int /\ ApiOf(ParamId(p, m)) = 768 + p
             /\ DeviceOf(ParamId(p, m)) = RevIdentifier[m]
  <2>1. p \in 0 .. 255
    BY Parameters
  <2>2. QED
    BY <2>1, ParameterIdentifier, Fields, SMTT(30) DEF ParamId
<1>2. ASSUME NEW i \in 1 .. 5
      PROVE  /\ StatusId(i, m) \in Int /\ ApiOf(StatusId(i, m)) = 95 + i
             /\ DeviceOf(StatusId(i, m)) = RevIdentifier[m]
  <2>1. 95 + i \in 0 .. 1023
    OBVIOUS
  <2>2. QED
    BY <2>1, ControlIdentifier, Fields, SMTT(30) DEF StatusId
<1>3. ASSUME NEW p \in Rev!PIDParameters, NEW r \in Rev!PIDParameters,
             ParamId(p, m) = ParamId(r, m)
      PROVE  p = r
  <2>1. 768 + p = 768 + r /\ p \in Int /\ r \in Int
    BY <1>1, <1>3
  <2>2. QED
    BY <2>1
<1>4. ASSUME NEW p \in Rev!PIDParameters, NEW i \in 1 .. 5
      PROVE  ParamId(p, m) # StatusId(i, m)
  <2>1. 768 + p # 95 + i
    BY <1>1
  <2>2. QED
    BY <1>1, <1>2, <2>1
<1>5. ASSUME NEW i \in 1 .. 5, NEW n \in 1 .. 5, StatusId(i, m) = StatusId(n, m)
      PROVE  i = n
  <2>1. 95 + i = 95 + n
    BY <1>2, <1>5
  <2>2. QED
    BY <2>1
<1>6. QED
  BY <1>1, <1>2, <1>3, <1>4, <1>5

RevTyped ==
    /\ managed \subseteq RevMotors
    /\ paramQueue \in [RevMotors -> Seq(RevMessage)]
    /\ asked \in [RevMotors -> [Rev!PIDParameters -> Int]]
    /\ spark \in [RevMotors -> [held : [Rev!PIDParameters -> Int], command : Int,
                                periods : SUBSET Int]]
    /\ requests \in Nat

(* A queue holds parameters and frames. *)
Known(m) ==
    \A k \in 1 .. Len(paramQueue[m]) :
        \/ \E p \in Rev!PIDParameters : paramQueue[m][k].id = ParamId(p, m)
        \/ \E i \in 1 .. 5 : paramQueue[m][k].id = StatusId(i, m)

(* The last that is under way for a parameter is what was asked for. *)
LastAsked(m) ==
    \A p \in Rev!PIDParameters :
        /\ (\A k \in 1 .. Len(paramQueue[m]) : paramQueue[m][k].id # ParamId(p, m))
               => spark[m].held[p] = asked[m][p]
        /\ \A k \in 1 .. Len(paramQueue[m]) :
               /\ paramQueue[m][k].id = ParamId(p, m)
               /\ \A j \in k + 1 .. Len(paramQueue[m]) : paramQueue[m][j].id # ParamId(p, m)
               => paramQueue[m][k].payload = asked[m][p]

FramesUnderWay(m) ==
    \A i \in 1 .. 5 :
        95 + i \in spark[m].periods
        \/ \E k \in 1 .. Len(paramQueue[m]) : paramQueue[m][k].id = StatusId(i, m)

Framed(m) ==
    /\ spark[m].periods \subseteq 96 .. 100
    /\ m \in managed => FramesUnderWay(m)
    /\ spark[m].command # 0 => 96 .. 100 \subseteq spark[m].periods

RevInv ==
    /\ RevTyped
    /\ \A m \in RevMotors : Known(m) /\ (m \notin failed => LastAsked(m) /\ Framed(m))

(* Nothing is queued, and nothing was asked for. *)
LEMMA RevInit == Rev!Init => RevInv
<1> SUFFICES ASSUME Rev!Init PROVE RevInv
  OBVIOUS
<1>1. RevTyped
  BY DEF Rev!Init, RevTyped
<1>2. ASSUME NEW m \in RevMotors PROVE Len(paramQueue[m]) = 0
  BY DEF Rev!Init
<1>3. ASSUME NEW m \in RevMotors PROVE Known(m) /\ LastAsked(m) /\ Framed(m)
  BY <1>2 DEF Rev!Init, Known, LastAsked, Framed
<1>4. QED
  BY <1>1, <1>3 DEF RevInv

(* What a controller obeyed, by the kind of the message. *)
WithParameter(s, p, value) == [s EXCEPT !.held[p] = value]
WithFrame(s, i) == [s EXCEPT !.periods = @ \union {95 + i}]
WithCommand(s, command) == [s EXCEPT !.command = command]

(* What an obeyed message leaves, for each kind of message. *)
LEMMA ObeyedParameter ==
    ASSUME NEW s, NEW m \in RevMotors, NEW p \in Rev!PIDParameters, NEW message,
           message.id = ParamId(p, m)
    PROVE  Rev!Obeyed(s, message) = WithParameter(s, p, message.payload)
<1>1. p \in 0 .. 255 /\ Rev!Api(message) = 768 + p
  <2>1. p \in 0 .. 255
    BY Parameters
  <2>2. ApiOf(message.id) = 768 + p
    BY <2>1, ParameterIdentifier, Fields, SMTT(40) DEF ParamId
  <2>3. QED
    BY <2>1, <2>2 DEF ApiOf, Rev!Api
<1>2. Rev!Api(message) - 768 = p
  BY <1>1
<1>3. QED
  BY <1>2 DEF Rev!Obeyed, WithParameter

(* The frame is one of those that are configured. *)
LEMMA ObeyedFrame ==
    ASSUME NEW s, NEW m \in RevMotors, NEW i \in 1 .. 5, NEW message,
           message.id = StatusId(i, m)
    PROVE  Rev!Obeyed(s, message) = WithFrame(s, i)
<1>1. 95 + i \in 0 .. 1023 /\ 95 + i \in 96 .. 100
  OBVIOUS
<1>2. Rev!Api(message) = 95 + i
  <2>1. ApiOf(message.id) = 95 + i
    BY <1>1, ControlIdentifier, Fields, SMTT(40) DEF StatusId
  <2>2. QED
    BY <2>1, SMTT(30) DEF ApiOf, Rev!Api
<1>3. Rev!Api(message) - 768 \notin Rev!PIDParameters
  <2>1. Rev!Api(message) - 768 < 0
    BY <1>1, <1>2
  <2>2. QED
    BY <2>1, Parameters
<1>4. QED
  BY <1>1, <1>2, <1>3, Commands DEF Rev!Obeyed, WithFrame

(* Anything else is a command. *)
LEMMA ObeyedCommand ==
    ASSUME NEW s, NEW m \in RevMotors, NEW mode, NEW message,
           message.id = Rev!CreateArbitrationControlId(Rev!controlModeToAPI(mode), m)
    PROVE  \E command \in Int : Rev!Obeyed(s, message) = WithCommand(s, command)
<1> DEFINE cmd == Rev!controlModeToAPI(mode)
<1>1. cmd \in {2, 18, 50, 66, 67}
  BY Commands
<1> HIDE DEF cmd
<1>2. cmd \in 0 .. 1023 /\ cmd \notin 96 .. 100 /\ cmd - 768 < 0
  BY <1>1
<1>3. Rev!Api(message) = cmd
  <2>1. ApiOf(message.id) = cmd
    BY <1>2, ControlIdentifier, Fields, SMTT(40) DEF cmd
  <2>2. QED
    BY <2>1 DEF ApiOf, Rev!Api
<1>4. cmd - 768 \notin Rev!PIDParameters
  BY <1>2, Parameters
<1>5. Rev!Obeyed(s, message) = WithCommand(s, cmd)
  BY <1>2, <1>3, <1>4, Commands DEF Rev!Obeyed, WithCommand
<1>6. QED
  BY <1>2, <1>5

(* The oldest message of a queue, and the others. *)
LEMMA FirstAndRest ==
    ASSUME NEW q \in Seq(RevMessage), q # <<>>
    PROVE  /\ Len(q) \in Nat \ {0} /\ Head(q) = q[1] /\ q[1] \in RevMessage
           /\ Tail(q) \in Seq(RevMessage) /\ Len(Tail(q)) = Len(q) - 1
           /\ \A k \in 1 .. Len(q) - 1 : Tail(q)[k] = q[k + 1]
<1>1. /\ Tail(q) \in Seq(RevMessage) /\ Len(Tail(q)) = Len(q) - 1
      /\ \A k \in 1 .. Len(Tail(q)) : Tail(q)[k] = q[k + 1]
  BY HeadTailProperties
<1>2. Len(q) \in Nat \ {0}
  BY EmptySeq, LenProperties
<1>3. q[1] \in RevMessage
  BY <1>2, ElementOfSeq
<1>4. Head(q) = q[1]
  OBVIOUS
<1>5. QED
  BY <1>1, <1>2, <1>3, <1>4

(* The oldest message reached the controller. *)
LEMMA OldestDelivered ==
    ASSUME RevInv, NEW m \in RevMotors, m \notin failed,
           paramQueue[m] # <<>>, paramQueue'[m] = Tail(paramQueue[m]),
           spark'[m] = Rev!Obeyed(spark[m], Head(paramQueue[m])),
           UNCHANGED <<managed, asked>>
    PROVE  LastAsked(m)' /\ Framed(m)'
<1>1. PICK q \in Seq(RevMessage) : q = paramQueue[m] /\ q # <<>> /\ paramQueue'[m] = Tail(q)
  BY DEF RevInv, RevTyped
<1>2. PICK r : r = Tail(q)
  BY Zenon
<1>3. /\ Len(q) \in Nat \ {0} /\ Head(q) = q[1] /\ q[1] \in RevMessage
      /\ Len(r) = Len(q) - 1
      /\ \A k \in 1 .. Len(q) - 1 : r[k] = q[k + 1]
  BY <1>1, <1>2, FirstAndRest
<1>4. PICK s \in [held : [Rev!PIDParameters -> Int], command : Int, periods : SUBSET Int] :
          s = spark[m]
  BY DEF RevInv, RevTyped
<1>5. /\ \A p \in Rev!PIDParameters :
             /\ (\A k \in 1 .. Len(q) : q[k].id # ParamId(p, m)) => s.held[p] = asked[m][p]
             /\ \A k \in 1 .. Len(q) :
                    /\ q[k].id = ParamId(p, m)
                    /\ \A j \in k + 1 .. Len(q) : q[j].id # ParamId(p, m)
                    => q[k].payload = asked[m][p]
      /\ s.periods \subseteq 96 .. 100
      /\ m \in managed => \A i \in 1 .. 5 :
             95 + i \in s.periods \/ \E k \in 1 .. Len(q) : q[k].id = StatusId(i, m)
      /\ s.command # 0 => 96 .. 100 \subseteq s.periods
  BY <1>1, <1>4 DEF RevInv, LastAsked, Framed, FramesUnderWay
<1>6. 1 \in 1 .. Len(q) /\ \A k \in 1 .. Len(q) : k = 1 \/ k - 1 \in 1 .. Len(r)
  BY <1>3
<1>7. \A k \in 1 .. Len(r) : k + 1 \in 1 .. Len(q) /\ r[k] = q[k + 1]
  BY <1>3
<1>8. \/ \E p \in Rev!PIDParameters : q[1].id = ParamId(p, m)
      \/ \E i \in 1 .. 5 : q[1].id = StatusId(i, m)
  BY <1>1, <1>6 DEF RevInv, Known
<1>9. /\ paramQueue'[m] = r /\ spark'[m] = Rev!Obeyed(s, q[1])
      /\ asked' = asked /\ managed' = managed
  BY <1>1, <1>2, <1>3, <1>4
<1>10. \A k \in 1 .. Len(r) : \A j \in k + 2 .. Len(q) : j - 1 \in k + 1 .. Len(r)
  BY <1>3
<1>11. ASSUME NEW p \in Rev!PIDParameters, NEW k \in 1 .. Len(r), r[k].id = ParamId(p, m),
              \A j \in k + 1 .. Len(r) : r[j].id # ParamId(p, m)
       PROVE  r[k].payload = asked[m][p]
  <2>1. k + 1 \in 1 .. Len(q) /\ q[k + 1] = r[k]
    BY <1>7
  <2>2. ASSUME NEW j \in (k + 1) + 1 .. Len(q) PROVE q[j].id # ParamId(p, m)
    <3>1. j - 1 \in k + 1 .. Len(r) /\ j - 1 \in 1 .. Len(r) /\ (j - 1) + 1 = j
      BY <1>3
    <3>2. q[j] = r[j - 1]
      BY <1>7, <3>1, Zenon
    <3>3. QED
      BY <1>11, <3>1, <3>2
  <2>3. QED
    BY <1>5, <1>11, <2>1, <2>2, SMTT(30)
<1>12. ASSUME NEW p \in Rev!PIDParameters, q[1].id = ParamId(p, m)
       PROVE  LastAsked(m)' /\ Framed(m)'
  <2>1. spark'[m] = WithParameter(s, p, q[1].payload)
    BY <1>9, <1>12, ObeyedParameter
  <2>2. /\ spark'[m].periods = s.periods /\ spark'[m].command = s.command
        /\ spark'[m].held = [s.held EXCEPT ![p] = q[1].payload]
    BY <1>4, <2>1, Zenon DEF WithParameter
  <2>3. ASSUME NEW t \in Rev!PIDParameters, \A k \in 1 .. Len(r) : r[k].id # ParamId(t, m)
        PROVE  spark'[m].held[t] = asked[m][t]
    <3>1. \A k \in 2 .. Len(q) : q[k].id # ParamId(t, m)
      <4>1. ASSUME NEW k \in 2 .. Len(q) PROVE k - 1 \in 1 .. Len(r) /\ q[k] = r[k - 1]
        <5>1. k - 1 \in 1 .. Len(r) /\ (k - 1) + 1 = k
          BY <1>3
        <5>2. QED
          BY <1>7, <5>1
      <4>2. QED
        BY <2>3, <4>1, Zenon
    <3>2. CASE t = p
      <4>1. q[1].payload = asked[m][p]
        BY <1>5, <1>6, <1>12, <3>1, <3>2
      <4>2. QED
        BY <1>4, <2>2, <3>2, <4>1
    <3>3. CASE t # p
      <4>1. q[1].id # ParamId(t, m)
        BY <1>12, <3>3, IdsDiffer
      <4>2. \A k \in 1 .. Len(q) : q[k].id # ParamId(t, m)
        <5>1. \A k \in 1 .. Len(q) : k = 1 \/ k \in 2 .. Len(q)
          BY <1>3
        <5>2. QED
          BY <3>1, <4>1, <5>1
      <4>3. s.held[t] = asked[m][t]
        BY <1>5, <4>2
      <4>4. QED
        BY <1>4, <2>2, <3>3, <4>3
    <3>4. QED
      BY <3>2, <3>3
  <2>4. LastAsked(m)'
    BY <1>9, <1>11, <2>3, ZenonT(60) DEF LastAsked, ParamId
  <2>5. m \in managed => \A i \in 1 .. 5 :
            95 + i \in s.periods \/ \E k \in 1 .. Len(r) : r[k].id = StatusId(i, m)
    <3> SUFFICES ASSUME m \in managed, NEW i \in 1 .. 5, 95 + i \notin s.periods
                 PROVE  \E k \in 1 .. Len(r) : r[k].id = StatusId(i, m)
      BY Zenon
    <3>1. PICK k \in 1 .. Len(q) : q[k].id = StatusId(i, m)
      BY <1>5, Zenon
    <3>2. k # 1
      BY <1>12, <3>1, IdsDiffer, Zenon
    <3>3. k - 1 \in 1 .. Len(r) /\ (k - 1) + 1 = k
      BY <1>3, <3>2
    <3>4. r[k - 1].id = StatusId(i, m)
      BY <1>7, <3>1, <3>3
    <3>5. QED
      BY <3>3, <3>4
  <2>6. Framed(m)'
    BY <1>5, <1>9, <2>2, <2>5, ZenonT(60) DEF Framed, FramesUnderWay, StatusId
  <2>7. QED
    BY <2>4, <2>6
<1>13. ASSUME NEW i \in 1 .. 5, q[1].id = StatusId(i, m)
       PROVE  LastAsked(m)' /\ Framed(m)'
  <2>1. spark'[m] = WithFrame(s, i)
    BY <1>9, <1>13, ObeyedFrame, Zenon
  <2>2. /\ spark'[m].periods = s.periods \union {95 + i} /\ spark'[m].command = s.command
        /\ spark'[m].held = s.held
    BY <1>4, <2>1 DEF WithFrame
  <2>3. ASSUME NEW t \in Rev!PIDParameters, \A k \in 1 .. Len(r) : r[k].id # ParamId(t, m)
        PROVE  s.held[t] = asked[m][t]
    <3>1. \A k \in 1 .. Len(q) : q[k].id # ParamId(t, m)
      <4>1. ASSUME NEW k \in 1 .. Len(q), k # 1 PROVE q[k].id # ParamId(t, m)
        <5>1. k - 1 \in 1 .. Len(r) /\ (k - 1) + 1 = k
          BY <1>3, <4>1
        <5>2. q[k] = r[k - 1]
          BY <1>7, <5>1
        <5>3. QED
          BY <2>3, <5>1, <5>2
      <4>2. q[1].id # ParamId(t, m)
        BY <1>13, IdsDiffer, Zenon
      <4>3. QED
        BY <4>1, <4>2
    <3>2. QED
      BY <1>5, <3>1
  <2>4. LastAsked(m)'
    <3>1. /\ paramQueue'[m] = r /\ asked'[m] = asked[m] /\ spark'[m].held = s.held
          /\ Rev!PIDParameters' = Rev!PIDParameters
      BY <1>9, <2>2, Zenon
    <3>2. ASSUME NEW t \in Rev!PIDParameters
          PROVE  /\ (\A k \in 1 .. Len(r) : r[k].id # ParamId(t, m))
                        => s.held[t] = asked[m][t]
                 /\ \A k \in 1 .. Len(r) :
                        /\ r[k].id = ParamId(t, m)
                        /\ \A j \in k + 1 .. Len(r) : r[j].id # ParamId(t, m)
                        => r[k].payload = asked[m][t]
      BY <1>11, <2>3
    <3>3. QED
      BY ONLY <3>1, <3>2 DEF LastAsked, ParamId
  <2>5. m \in managed => \A n \in 1 .. 5 :
            95 + n \in spark'[m].periods \/ \E k \in 1 .. Len(r) : r[k].id = StatusId(n, m)
    <3> SUFFICES ASSUME m \in managed, NEW n \in 1 .. 5, 95 + n \notin spark'[m].periods
                 PROVE  \E k \in 1 .. Len(r) : r[k].id = StatusId(n, m)
      BY Zenon
    <3>1. PICK k \in 1 .. Len(q) : q[k].id = StatusId(n, m)
      BY <1>5, <2>2, Zenon
    <3>2. n # i
      BY <2>2
    <3>3. StatusId(n, m) # StatusId(i, m)
      BY <3>2, IdsDiffer, Zenon
    <3>4. k # 1
      BY <1>13, <3>1, <3>3
    <3>5. k - 1 \in 1 .. Len(r) /\ (k - 1) + 1 = k
      BY <1>3, <3>4
    <3>6. r[k - 1].id = StatusId(n, m)
      BY <1>7, <3>1, <3>5, Zenon
    <3>7. QED
      BY <3>5, <3>6
  <2>6. spark'[m].periods \subseteq 96 .. 100
    <3>1. 95 + i \in 96 .. 100
      OBVIOUS
    <3>2. QED
      BY <1>5, <2>2, <3>1, Zenon
  <2>7. Framed(m)'
    BY <1>5, <1>9, <2>2, <2>5, <2>6, ZenonT(60) DEF Framed, FramesUnderWay, StatusId
  <2>8. QED
    BY <2>4, <2>7
<1>14. QED
  BY <1>8, <1>12, <1>13

(* A command, which is sent when the queue is empty. *)
LEMMA CommandDelivered ==
    ASSUME RevInv, NEW m \in managed, m \notin failed, NEW command \in Int,
           paramQueue[m] = <<>>, UNCHANGED <<managed, asked, paramQueue[m]>>,
           spark'[m] = WithCommand(spark[m], command)
    PROVE  LastAsked(m)' /\ Framed(m)'
<1>1. m \in RevMotors /\ Len(paramQueue[m]) = 0
  BY DEF RevInv, RevTyped
<1>2. PICK s \in [held : [Rev!PIDParameters -> Int], command : Int, periods : SUBSET Int] :
          s = spark[m]
  BY <1>1 DEF RevInv, RevTyped
<1>3. /\ \A p \in Rev!PIDParameters : s.held[p] = asked[m][p]
      /\ s.periods \subseteq 96 .. 100
      /\ \A i \in 1 .. 5 : 95 + i \in s.periods
  BY <1>1, <1>2 DEF RevInv, LastAsked, Framed, FramesUnderWay
<1>4. 96 .. 100 \subseteq s.periods
  <2>1. ASSUME NEW k \in 96 .. 100 PROVE k - 95 \in 1 .. 5 /\ 95 + (k - 95) = k
    OBVIOUS
  <2>2. QED
    BY <1>3, <2>1
<1>5. spark'[m].held = s.held /\ spark'[m].periods = s.periods
  BY <1>2 DEF WithCommand
<1>6. LastAsked(m)'
  BY <1>1, <1>3, <1>5 DEF LastAsked
<1>7. Framed(m)'
  BY <1>3, <1>4, <1>5 DEF Framed, FramesUnderWay
<1>8. QED
  BY <1>6, <1>7

(* What r is, of the elements of q and of those of a behind them. *)
Appended(q, a, r) ==
    /\ Len(q) \in Nat /\ Len(a) \in Nat
    /\ r \in Seq(RevMessage) /\ Len(r) = Len(q) + Len(a)
    /\ \A k \in 1 .. Len(q) : k \in 1 .. Len(r) /\ r[k] = q[k]
    /\ \A k \in 1 .. Len(a) : Len(q) + k \in 1 .. Len(r) /\ r[Len(q) + k] = a[k]
    /\ \A k \in 1 .. Len(r) : k \notin 1 .. Len(q) =>
           k - Len(q) \in 1 .. Len(a) /\ r[k] = a[k - Len(q)]

(* Of two queues, one behind the other. *)
LEMMA Grown ==
    ASSUME NEW q \in Seq(RevMessage), NEW a \in Seq(RevMessage)
    PROVE  Appended(q, a, q \o a)
<1> DEFINE r == q \o a
<1>1. Len(q) \in Nat /\ Len(a) \in Nat
  BY LenProperties
<1>2. /\ r \in Seq(RevMessage) /\ Len(r) = Len(q) + Len(a)
      /\ \A k \in 1 .. Len(r) : r[k] = IF k <= Len(q) THEN q[k] ELSE a[k - Len(q)]
  BY ConcatProperties
<1> HIDE DEF r
<1>3. \A k \in 1 .. Len(q) : k \in 1 .. Len(r) /\ r[k] = q[k]
  BY <1>1, <1>2
<1>4. \A k \in 1 .. Len(a) : Len(q) + k \in 1 .. Len(r) /\ r[Len(q) + k] = a[k]
  <2>1. ASSUME NEW k \in 1 .. Len(a)
        PROVE  Len(q) + k \in 1 .. Len(r) /\ r[Len(q) + k] = a[k]
    <3>1. /\ Len(q) + k \in 1 .. Len(r) /\ ~(Len(q) + k <= Len(q))
          /\ (Len(q) + k) - Len(q) = k
      BY <1>1, <1>2
    <3>2. QED
      BY <1>2, <3>1
  <2>2. QED
    BY <2>1
<1>5. ASSUME NEW k \in 1 .. Len(r), k \notin 1 .. Len(q)
      PROVE  k - Len(q) \in 1 .. Len(a) /\ r[k] = a[k - Len(q)]
  <2>1. k - Len(q) \in 1 .. Len(a) /\ ~(k <= Len(q))
    BY <1>1, <1>2, <1>5
  <2>2. QED
    BY <1>2, <2>1
<1>6. Appended(q, a, r)
  BY <1>1, <1>2, <1>3, <1>4, <1>5 DEF Appended
<1>7. QED
  BY <1>6 DEF r

(* The five frames of a motor, behind what its queue holds. *)
LEMMA FramesAppended ==
    ASSUME RevInv, NEW m \in RevMotors,
           paramQueue'[m] =
               paramQueue[m] \o [i \in 1 .. 5 |-> Rev!setPeriodicStatusFrame(Rev!Frames[i], m)],
           UNCHANGED <<asked, spark>>
    PROVE  /\ paramQueue'[m] \in Seq(RevMessage) /\ Known(m)'
           /\ m \notin failed => LastAsked(m)' /\ Framed(m)'
<1>1. PICK q \in Seq(RevMessage) : q = paramQueue[m]
  BY DEF RevInv, RevTyped
<1>2. PICK a : a = [i \in 1 .. 5 |-> Rev!setPeriodicStatusFrame(Rev!Frames[i], m)]
  BY Zenon
<1>3. \A i \in 1 .. 5 : a[i].id = StatusId(i, m) /\ a[i] \in RevMessage
  <2>1. ASSUME NEW i \in 1 .. 5 PROVE a[i].id = StatusId(i, m) /\ a[i] \in RevMessage
    <3>1. Rev!APICommand[Rev!Frames[i]] = 95 + i
      BY Commands
    <3>2. StatusId(i, m) \in Int
      BY IdsDiffer, Zenon
    <3>3. QED
      BY <1>2, <3>1, <3>2 DEF Rev!setPeriodicStatusFrame, StatusId, RevMessage
  <2>2. QED
    BY <2>1
<1>4. a \in Seq(RevMessage) /\ Len(a) = 5
  <2>1. a \in [1 .. 5 -> RevMessage]
    BY <1>2, <1>3
  <2>2. QED
    BY <1>2, <2>1
<1>5. PICK r : r = q \o a
  BY Zenon
<1>6. paramQueue'[m] = r
  BY <1>1, <1>2, <1>5
<1>7. /\ Len(q) \in Nat /\ r \in Seq(RevMessage) /\ Len(r) = Len(q) + 5
      /\ \A k \in 1 .. Len(q) : k \in 1 .. Len(r) /\ r[k] = q[k]
      /\ \A k \in 1 .. 5 : Len(q) + k \in 1 .. Len(r) /\ r[Len(q) + k] = a[k]
      /\ \A k \in 1 .. Len(r) : k \notin 1 .. Len(q) =>
             k - Len(q) \in 1 .. 5 /\ r[k] = a[k - Len(q)]
  <2>1. Appended(q, a, r)
    BY <1>4, <1>5, Grown
  <2>2. QED
    BY <1>4, <2>1 DEF Appended
<1>8. ASSUME NEW k \in 1 .. Len(r), k \notin 1 .. Len(q)
      PROVE  k - Len(q) \in 1 .. 5 /\ r[k].id = StatusId(k - Len(q), m)
  BY <1>3, <1>7, <1>8, Zenon
<1>9. Known(m)'
  <2>1. \A k \in 1 .. Len(q) :
            \/ \E p \in Rev!PIDParameters : q[k].id = ParamId(p, m)
            \/ \E i \in 1 .. 5 : q[k].id = StatusId(i, m)
    BY <1>1, Zenon DEF RevInv, Known
  <2>2. \A k \in 1 .. Len(r) :
            \/ \E p \in Rev!PIDParameters : r[k].id = ParamId(p, m)
            \/ \E i \in 1 .. 5 : r[k].id = StatusId(i, m)
    BY <1>7, <1>8, <2>1, ZenonT(60)
  <2>3. QED
    BY ONLY <1>6, <2>2 DEF Known, ParamId, StatusId
<1>10. ASSUME NEW p \in Rev!PIDParameters, NEW k \in 1 .. Len(r), r[k].id = ParamId(p, m)
       PROVE  k \in 1 .. Len(q)
  BY <1>8, <1>10, IdsDiffer, Zenon
<1>11. ASSUME m \notin failed PROVE LastAsked(m)' /\ Framed(m)'
  <2>1. \A p \in Rev!PIDParameters :
            /\ (\A k \in 1 .. Len(q) : q[k].id # ParamId(p, m)) => spark[m].held[p] = asked[m][p]
            /\ \A k \in 1 .. Len(q) :
                   /\ q[k].id = ParamId(p, m)
                   /\ \A j \in k + 1 .. Len(q) : q[j].id # ParamId(p, m)
                   => q[k].payload = asked[m][p]
    BY <1>1, <1>11, SMTT(40) DEF RevInv, LastAsked
  <2>2. ASSUME NEW p \in Rev!PIDParameters
        PROVE  /\ (\A k \in 1 .. Len(r) : r[k].id # ParamId(p, m))
                      => spark[m].held[p] = asked[m][p]
               /\ \A k \in 1 .. Len(r) :
                      /\ r[k].id = ParamId(p, m)
                      /\ \A j \in k + 1 .. Len(r) : r[j].id # ParamId(p, m)
                      => r[k].payload = asked[m][p]
    <3>1. ASSUME \A k \in 1 .. Len(r) : r[k].id # ParamId(p, m)
          PROVE  spark[m].held[p] = asked[m][p]
      BY <1>7, <2>1, <3>1, ZenonT(60)
    <3>2. ASSUME NEW k \in 1 .. Len(r), r[k].id = ParamId(p, m),
                 \A j \in k + 1 .. Len(r) : r[j].id # ParamId(p, m)
          PROVE  r[k].payload = asked[m][p]
      <4>1. k \in 1 .. Len(q) /\ q[k] = r[k]
        BY <1>7, <1>10, <3>2, Zenon
      <4>2. ASSUME NEW j \in k + 1 .. Len(q) PROVE q[j].id # ParamId(p, m)
        <5>1. j \in k + 1 .. Len(r) /\ j \in 1 .. Len(q)
          BY <1>7
        <5>2. QED
          BY <1>7, <3>2, <5>1, Zenon
      <4>3. QED
        BY <2>1, <3>2, <4>1, <4>2
    <3>3. QED
      BY <3>1, <3>2
  <2>3. LastAsked(m)'
    BY ONLY <1>6, <2>2, UNCHANGED <<asked, spark>> DEF LastAsked, ParamId
  <2>4. /\ spark[m].periods \subseteq 96 .. 100
        /\ spark[m].command # 0 => 96 .. 100 \subseteq spark[m].periods
    BY <1>11 DEF RevInv, Framed
  <2>5. ASSUME NEW i \in 1 .. 5 PROVE \E k \in 1 .. Len(r) : r[k].id = StatusId(i, m)
    <3>1. Len(q) + i \in 1 .. Len(r) /\ r[Len(q) + i].id = StatusId(i, m)
      BY <1>3, <1>7, Zenon
    <3>2. QED
      BY <3>1
  <2>6. FramesUnderWay(m)'
    BY ONLY <1>6, <2>5, Zenon DEF FramesUnderWay, StatusId
  <2>7. QED
    BY <2>3, <2>4, <2>6 DEF Framed
<1>12. QED
  BY <1>6, <1>7, <1>9, <1>11, Zenon

(* The parameters of a slot, behind what the queue of its motor holds. *)
LEMMA ParametersAppended ==
    ASSUME RevInv, NEW m \in RevMotors, NEW slot \in Slots, NEW value \in Int,
           paramQueue'[m] = paramQueue[m] \o Rev!Pushed(slot, value, m),
           asked'[m] = [p \in Rev!PIDParameters |->
               IF p \in {Rev!Parameter(n, slot) : n \in DOMAIN Rev!ParameterIndex}
               THEN value ELSE asked[m][p]],
           UNCHANGED <<managed, spark>>
    PROVE  /\ paramQueue'[m] \in Seq(RevMessage) /\ Known(m)'
           /\ m \notin failed => LastAsked(m)' /\ Framed(m)'
<1>1. PICK q \in Seq(RevMessage) : q = paramQueue[m]
  BY DEF RevInv, RevTyped
<1>2. PICK a : a = Rev!Pushed(slot, value, m)
  OBVIOUS
<1>3. PICK P : P = {Rev!Parameter(n, slot) : n \in DOMAIN Rev!ParameterIndex}
  BY Zenon
<1>4. PICK param : param = [i \in 1 .. 8 |-> Rev!Parameter(Rev!PIDOrder[i], slot)]
  BY Zenon
<1>5. /\ \A i \in 1 .. 8 : param[i] \in Rev!PIDParameters /\ param[i] \in P
      /\ \A p \in P : \E i \in 1 .. 8 : p = param[i]
  BY <1>3, <1>4, Parameters, Zenon
<1>6. \A i \in 1 .. 8 :
          a[i].id = ParamId(param[i], m) /\ a[i].payload = value /\ a[i] \in RevMessage
  <2>1. ASSUME NEW i \in 1 .. 8
        PROVE  a[i].id = ParamId(param[i], m) /\ a[i].payload = value /\ a[i] \in RevMessage
    <3>1. a[i] = [id |-> ParamId(param[i], m), payload |-> value]
      BY <1>2, <1>4 DEF Rev!Pushed, Rev!setParameter, ParamId
    <3>2. ParamId(param[i], m) \in Int
      BY <1>5, IdsDiffer, Zenon
    <3>3. QED
      BY <3>1, <3>2 DEF RevMessage
  <2>2. QED
    BY <2>1
<1>7. a \in Seq(RevMessage) /\ Len(a) = 8
  <2>1. a = [i \in 1 .. 8 |-> Rev!setParameter(Rev!PIDOrder[i], slot, value, m)]
    BY <1>2 DEF Rev!Pushed
  <2>2. a \in [1 .. 8 -> RevMessage]
    BY <1>6, <2>1
  <2>3. QED
    BY <2>1, <2>2
<1>8. PICK r : r = q \o a
  BY Zenon
<1>9. paramQueue'[m] = r
  BY <1>1, <1>2, <1>8
<1>10. /\ Len(q) \in Nat /\ r \in Seq(RevMessage) /\ Len(r) = Len(q) + 8
       /\ \A k \in 1 .. Len(q) : k \in 1 .. Len(r) /\ r[k] = q[k]
       /\ \A k \in 1 .. 8 : Len(q) + k \in 1 .. Len(r) /\ r[Len(q) + k] = a[k]
       /\ \A k \in 1 .. Len(r) : k \notin 1 .. Len(q) =>
              k - Len(q) \in 1 .. 8 /\ r[k] = a[k - Len(q)]
  <2>1. Appended(q, a, r)
    BY <1>7, <1>8, Grown
  <2>2. QED
    BY <1>7, <2>1 DEF Appended
<1>11. ASSUME NEW k \in 1 .. Len(r), k \notin 1 .. Len(q)
       PROVE  /\ k - Len(q) \in 1 .. 8 /\ r[k].payload = value
              /\ r[k].id = ParamId(param[k - Len(q)], m)
  <2>1. k - Len(q) \in 1 .. 8 /\ r[k] = a[k - Len(q)]
    BY <1>10, <1>11
  <2>2. QED
    BY <1>6, <2>1, Zenon
<1>12. Known(m)'
  <2>1. \A k \in 1 .. Len(q) :
            \/ \E p \in Rev!PIDParameters : q[k].id = ParamId(p, m)
            \/ \E i \in 1 .. 5 : q[k].id = StatusId(i, m)
    BY <1>1 DEF RevInv, Known
  <2>2. ASSUME NEW k \in 1 .. Len(r)
        PROVE  \/ \E p \in Rev!PIDParameters : r[k].id = ParamId(p, m)
               \/ \E i \in 1 .. 5 : r[k].id = StatusId(i, m)
    <3>1. CASE k \in 1 .. Len(q)
      BY <1>10, <2>1, <3>1, ZenonT(60)
    <3>2. CASE k \notin 1 .. Len(q)
      BY <1>5, <1>11, <3>2, Zenon
    <3>3. QED
      BY <3>1, <3>2
  <2>3. QED
    BY ONLY <1>9, <2>2 DEF Known, ParamId, StatusId
<1>13. ASSUME m \notin failed PROVE LastAsked(m)'
  <2>1. \A p \in Rev!PIDParameters :
            /\ (\A k \in 1 .. Len(q) : q[k].id # ParamId(p, m)) => spark[m].held[p] = asked[m][p]
            /\ \A k \in 1 .. Len(q) :
                   /\ q[k].id = ParamId(p, m)
                   /\ \A j \in k + 1 .. Len(q) : q[j].id # ParamId(p, m)
                   => q[k].payload = asked[m][p]
    BY <1>1, <1>13 DEF RevInv, LastAsked
  <2>2. ASSUME NEW p \in Rev!PIDParameters
        PROVE  asked'[m][p] = IF p \in P THEN value ELSE asked[m][p]
    BY <1>3
  <2>3. ASSUME NEW p \in Rev!PIDParameters, \A k \in 1 .. Len(r) : r[k].id # ParamId(p, m)
        PROVE  spark[m].held[p] = asked'[m][p]
    <3>1. p \notin P
      <4>1. ASSUME NEW i \in 1 .. 8 PROVE p # param[i]
        <5>1. Len(q) + i \in 1 .. Len(r) /\ r[Len(q) + i].id = ParamId(param[i], m)
          BY <1>6, <1>10, Zenon
        <5>2. QED
          BY <2>3, <5>1
      <4>2. QED
        BY <1>5, <4>1
    <3>2. \A k \in 1 .. Len(q) : q[k].id # ParamId(p, m)
      BY <1>10, <2>3, Zenon
    <3>3. QED
      BY <2>1, <2>2, <3>1, <3>2
  <2>4. ASSUME NEW p \in Rev!PIDParameters, NEW k \in 1 .. Len(r), r[k].id = ParamId(p, m),
               \A j \in k + 1 .. Len(r) : r[j].id # ParamId(p, m)
        PROVE  r[k].payload = asked'[m][p]
    <3>1. CASE k \notin 1 .. Len(q)
      <4>1. /\ k - Len(q) \in 1 .. 8 /\ r[k].payload = value
            /\ ParamId(param[k - Len(q)], m) = ParamId(p, m)
        BY <1>11, <2>4, <3>1
      <4>2. param[k - Len(q)] = p
        BY <1>5, <4>1, IdsDiffer, Zenon
      <4>3. p \in P
        BY <1>5, <4>1, <4>2, Zenon
      <4>4. QED
        BY <2>2, <4>1, <4>3
    <3>2. CASE k \in 1 .. Len(q)
      <4>1. q[k].id = ParamId(p, m) /\ r[k] = q[k]
        BY <1>10, <2>4, <3>2, Zenon
      <4>2. ASSUME NEW j \in k + 1 .. Len(q) PROVE q[j].id # ParamId(p, m)
        <5>1. j \in k + 1 .. Len(r) /\ j \in 1 .. Len(q)
          BY <1>10
        <5>2. QED
          BY <1>10, <2>4, <5>1, Zenon
      <4>3. p \notin P
        <5>1. ASSUME NEW i \in 1 .. 8 PROVE p # param[i]
          <6>1. Len(q) + i \in k + 1 .. Len(r) /\ r[Len(q) + i].id = ParamId(param[i], m)
            <7>1. Len(q) + i \in k + 1 .. Len(r)
              BY <1>10, <3>2, SMTT(30)
            <7>2. QED
              BY <1>6, <1>10, <7>1, Zenon
          <6>2. QED
            BY <2>4, <6>1
        <5>2. QED
          BY <1>5, <5>1, Zenon
      <4>4. q[k].payload = asked[m][p]
        BY <2>1, <3>2, <4>1, <4>2, Zenon
      <4>5. QED
        BY <2>2, <4>1, <4>3, <4>4
    <3>3. QED
      BY <3>1, <3>2
  <2>5. QED
    BY ONLY <1>9, <2>3, <2>4, UNCHANGED <<managed, spark>> DEF LastAsked, ParamId
<1>14. ASSUME m \notin failed PROVE Framed(m)'
  <2>1. m \in managed => \A i \in 1 .. 5 :
            95 + i \in spark[m].periods \/ \E k \in 1 .. Len(q) : q[k].id = StatusId(i, m)
    BY <1>1, <1>14, Zenon DEF RevInv, Framed, FramesUnderWay
  <2>2. m \in managed => \A i \in 1 .. 5 :
            95 + i \in spark[m].periods \/ \E k \in 1 .. Len(r) : r[k].id = StatusId(i, m)
    BY <1>10, <2>1, Zenon
  <2>3. m \in managed' => FramesUnderWay(m)'
    BY ONLY <1>9, <2>2, UNCHANGED <<managed, spark>>, Zenon DEF FramesUnderWay, StatusId
  <2>4. QED
    BY <1>14, <2>3 DEF RevInv, Framed
<1>15. QED
  BY <1>9, <1>10, <1>12, <1>13, <1>14

(* Whether a message is one of the motor that a controller belongs to. *)
LEMMA OwnMessage ==
    ASSUME RevInv, NEW n \in managed, NEW mode
    PROVE  Rev!createRevCanMessage(n, mode).id % 64 = RevIdentifier[n]
<1>1. n \in RevMotors
  BY DEF RevInv, RevTyped
<1>2. CASE paramQueue[n] = <<>>
  <2>1. PICK cmd : cmd = Rev!controlModeToAPI(mode)
    OBVIOUS
  <2>2. cmd \in 0 .. 1023
    BY <2>1, Commands
  <2>3. Rev!CreateArbitrationControlId(cmd, n) = IdOf(cmd, n)
    BY <1>1, <2>2, ControlIdentifier, SMTT(30)
  <2>4. DeviceOf(IdOf(cmd, n)) = RevIdentifier[n]
    BY <1>1, <2>2, Fields
  <2>5. Rev!createRevCanMessage(n, mode).id = IdOf(cmd, n)
    BY <1>2, <2>1, <2>3 DEF Rev!createRevCanMessage
  <2>6. QED
    BY <2>4, <2>5 DEF DeviceOf
<1>3. CASE paramQueue[n] # <<>>
  <2>1. PICK q \in Seq(RevMessage) : q = paramQueue[n] /\ q # <<>>
    BY <1>1, <1>3 DEF RevInv, RevTyped
  <2>2. 1 \in 1 .. Len(q) /\ Head(q) = q[1]
    BY <2>1, FirstAndRest
  <2>3. \/ \E p \in Rev!PIDParameters : q[1].id = ParamId(p, n)
        \/ \E i \in 1 .. 5 : q[1].id = StatusId(i, n)
    BY <1>1, <2>1, <2>2 DEF RevInv, Known
  <2>4. Rev!createRevCanMessage(n, mode) = q[1]
    BY <1>3, <2>1, <2>2 DEF Rev!createRevCanMessage
  <2>5. DeviceOf(q[1].id) = RevIdentifier[n]
    BY <1>1, <2>3, IdsDiffer
  <2>6. QED
    BY <2>4, <2>5 DEF DeviceOf
<1>4. QED
  BY <1>2, <1>3

SparkState == [held : [Rev!PIDParameters -> Int], command : Int, periods : SUBSET Int]

(* What the oldest message, or a command, makes of a controller. *)
LEMMA ObeyedTyped ==
    ASSUME RevInv, NEW m \in managed, NEW mode
    PROVE  Rev!Obeyed(spark[m], Rev!createRevCanMessage(m, mode)) \in SparkState
<1>1. m \in RevMotors
  BY DEF RevInv, RevTyped
<1>2. PICK s \in SparkState : s = spark[m]
  BY <1>1 DEF RevInv, RevTyped, SparkState
<1>3. PICK message : message = Rev!createRevCanMessage(m, mode)
  OBVIOUS
<1>4. CASE paramQueue[m] = <<>>
  <2>1. message.id = Rev!CreateArbitrationControlId(Rev!controlModeToAPI(mode), m)
    BY <1>3, <1>4 DEF Rev!createRevCanMessage
  <2>2. PICK command \in Int : Rev!Obeyed(s, message) = WithCommand(s, command)
    BY <1>1, <2>1, ObeyedCommand
  <2>3. WithCommand(s, command) \in SparkState
    BY <1>2 DEF SparkState, WithCommand
  <2>4. QED
    BY <1>2, <1>3, <2>2, <2>3
<1>5. CASE paramQueue[m] # <<>>
  <2>1. PICK q \in Seq(RevMessage) : q = paramQueue[m] /\ q # <<>>
    BY <1>1, <1>5 DEF RevInv, RevTyped
  <2>2. 1 \in 1 .. Len(q) /\ Head(q) = q[1] /\ q[1] \in RevMessage
    BY <2>1, FirstAndRest
  <2>3. \/ \E p \in Rev!PIDParameters : q[1].id = ParamId(p, m)
        \/ \E i \in 1 .. 5 : q[1].id = StatusId(i, m)
    BY <1>1, <2>1, <2>2 DEF RevInv, Known
  <2>4. message = q[1] /\ message.payload \in Int
    BY <1>3, <1>5, <2>1, <2>2 DEF Rev!createRevCanMessage, RevMessage
  <2>5. ASSUME NEW p \in Rev!PIDParameters, message.id = ParamId(p, m)
        PROVE  Rev!Obeyed(s, message) \in SparkState
    <3>1. Rev!Obeyed(s, message) = WithParameter(s, p, message.payload)
      BY <1>1, <2>5, ObeyedParameter
    <3>2. WithParameter(s, p, message.payload) \in SparkState
      BY <1>2, <2>4, Zenon DEF SparkState, WithParameter
    <3>3. QED
      BY <3>1, <3>2
  <2>6. ASSUME NEW i \in 1 .. 5, message.id = StatusId(i, m)
        PROVE  Rev!Obeyed(s, message) \in SparkState
    <3>1. Rev!Obeyed(s, message) = WithFrame(s, i)
      BY <1>1, <2>6, ObeyedFrame, Zenon
    <3>2. WithFrame(s, i) \in SparkState
      BY <1>2 DEF SparkState, WithFrame
    <3>3. QED
      BY <3>1, <3>2
  <2>7. QED
    BY <1>2, <1>3, <2>3, <2>4, <2>5, <2>6
<1>6. QED
  BY <1>4, <1>5

(* A queue of which nothing or the oldest message was taken. *)
LEMMA KnownStays ==
    ASSUME RevInv, NEW m \in RevMotors,
           \/ paramQueue'[m] = paramQueue[m]
           \/ paramQueue[m] # <<>> /\ paramQueue'[m] = Tail(paramQueue[m])
    PROVE  paramQueue'[m] \in Seq(RevMessage) /\ Known(m)'
<1>1. PICK q \in Seq(RevMessage) : q = paramQueue[m]
  BY DEF RevInv, RevTyped
<1>2. \A k \in 1 .. Len(q) :
          \/ \E p \in Rev!PIDParameters : q[k].id = ParamId(p, m)
          \/ \E i \in 1 .. 5 : q[k].id = StatusId(i, m)
  BY <1>1 DEF RevInv, Known
<1>3. PICK r : r = paramQueue'[m]
  OBVIOUS
<1>4. r \in Seq(RevMessage) /\ \A k \in 1 .. Len(r) : \E j \in 1 .. Len(q) : r[k] = q[j]
  <2>1. CASE r = q
    BY <2>1
  <2>2. CASE q # <<>> /\ r = Tail(q)
    <3>1. /\ Len(q) \in Nat \ {0} /\ r \in Seq(RevMessage) /\ Len(r) = Len(q) - 1
          /\ \A k \in 1 .. Len(q) - 1 : r[k] = q[k + 1]
      BY <2>2, FirstAndRest
    <3>2. ASSUME NEW k \in 1 .. Len(r) PROVE k + 1 \in 1 .. Len(q) /\ r[k] = q[k + 1]
      BY <3>1
    <3>3. QED
      BY <3>1, <3>2
  <2>3. QED
    BY <1>1, <1>3, <2>1, <2>2
<1>5. \A k \in 1 .. Len(r) :
          \/ \E p \in Rev!PIDParameters : r[k].id = ParamId(p, m)
          \/ \E i \in 1 .. 5 : r[k].id = StatusId(i, m)
  BY <1>2, <1>4
<1>6. Known(m)'
  BY ONLY <1>3, <1>5 DEF Known, ParamId, StatusId
<1>7. QED
  BY <1>3, <1>4, <1>6

(* A turn of the transmit handler: the motors that send, of which some
   messages are lost. *)
Turn(sending, dropped, mode) ==
    /\ paramQueue' = [m \in RevMotors |->
           IF m \in sending /\ paramQueue[m] # <<>>
           THEN Rev!Rest(paramQueue[m]) ELSE paramQueue[m]]
    /\ spark' = [m \in RevMotors |->
           LET senders == {n \in sending \ dropped :
                              /\ RevCanBus[n] = RevCanBus[m]
                              /\ Rev!Names(Rev!createRevCanMessage(n, mode), m)}
           IN  IF senders = {} \/ m \in failed THEN spark[m]
               ELSE Rev!Obeyed(spark[m],
                        Rev!createRevCanMessage(CHOOSE n \in senders : TRUE, mode))]
    /\ failed' = failed \union dropped
    /\ UNCHANGED <<managed, asked, requests>>

(* Nobody's message reaches the controller of another motor, so each has either
   its own oldest message, or a command, or nothing new. *)
LEMMA RevSends == RevInv /\ Rev!encodeAndSendCanData => RevInv'
<1> SUFFICES ASSUME RevInv, Rev!encodeAndSendCanData PROVE RevInv'
  OBVIOUS
<1>1. PICK ready \in SUBSET Rev!Buses, mode \in ControlModes :
          \E dropped \in SUBSET {m \in managed : RevCanBus[m] \in ready} :
              Turn({m \in managed : RevCanBus[m] \in ready}, dropped, mode)
  BY Zenon DEF Rev!encodeAndSendCanData, Turn
<1>2. PICK sending : sending = {m \in managed : RevCanBus[m] \in ready}
  BY Zenon
<1>3. PICK dropped \in SUBSET sending : Turn(sending, dropped, mode)
  BY <1>1, <1>2, Zenon
<1>4. sending \subseteq managed /\ managed \subseteq RevMotors
  BY <1>2 DEF RevInv, RevTyped
<1>5. ASSUME NEW m \in RevMotors, NEW n \in sending, RevCanBus[n] = RevCanBus[m],
             Rev!Names(Rev!createRevCanMessage(n, mode), m)
      PROVE  n = m
  <2>1. RevIdentifier[n] = RevIdentifier[m]
    BY <1>4, <1>5, OwnMessage DEF Rev!Names
  <2>2. QED
    BY <1>4, <1>5, <2>1, RevAssumption
<1>6. ASSUME NEW m \in sending
      PROVE  Rev!Names(Rev!createRevCanMessage(m, mode), m)
  BY <1>4, OwnMessage DEF Rev!Names
<1>7. ASSUME NEW m \in RevMotors
      PROVE  spark'[m] = IF m \in sending \ dropped /\ m \notin failed
                         THEN Rev!Obeyed(spark[m], Rev!createRevCanMessage(m, mode))
                         ELSE spark[m]
  <2> DEFINE senders == {n \in sending \ dropped :
                            /\ RevCanBus[n] = RevCanBus[m]
                            /\ Rev!Names(Rev!createRevCanMessage(n, mode), m)}
  <2>1. spark'[m] = IF senders = {} \/ m \in failed THEN spark[m]
                    ELSE Rev!Obeyed(spark[m],
                             Rev!createRevCanMessage(CHOOSE n \in senders : TRUE, mode))
    BY <1>3 DEF Turn
  <2>2. senders \subseteq {m}
    BY <1>5
  <2>3. m \in senders <=> m \in sending \ dropped
    BY <1>6
  <2> HIDE DEF senders
  <2>4. CASE m \in sending \ dropped
    <3>1. senders = {m} /\ senders # {} /\ (CHOOSE n \in senders : TRUE) = m
      BY <2>2, <2>3, <2>4
    <3>2. QED
      BY <2>1, <2>4, <3>1
  <2>5. CASE m \notin sending \ dropped
    BY <2>1, <2>2, <2>3, <2>5
  <2>6. QED
    BY <2>4, <2>5
<1>8. ASSUME NEW m \in RevMotors
      PROVE  paramQueue'[m] = IF m \in sending /\ paramQueue[m] # <<>>
                              THEN Tail(paramQueue[m]) ELSE paramQueue[m]
  BY <1>3 DEF Turn, Rev!Rest
<1>9. ASSUME NEW m \in RevMotors
      PROVE  paramQueue'[m] \in Seq(RevMessage) /\ Known(m)'
  BY <1>8, KnownStays
<1>10. ASSUME NEW m \in RevMotors PROVE spark'[m] \in SparkState
  <2>1. spark[m] \in SparkState
    BY DEF RevInv, RevTyped, SparkState
  <2>2. QED
    BY <1>4, <1>7, <2>1, ObeyedTyped
<1>11. RevTyped'
  <2>1. /\ paramQueue' = [m \in RevMotors |-> paramQueue'[m]]
        /\ spark' = [m \in RevMotors |-> spark'[m]]
    BY <1>3 DEF Turn
  <2>2. paramQueue' \in [RevMotors -> Seq(RevMessage)] /\ spark' \in [RevMotors -> SparkState]
    BY <1>9, <1>10, <2>1
  <2>3. QED
    BY <1>3, <2>2 DEF Turn, RevInv, RevTyped, SparkState
<1>12. ASSUME NEW m \in RevMotors, m \notin failed' PROVE LastAsked(m)' /\ Framed(m)'
  <2>1. m \notin failed /\ m \notin dropped
    BY <1>3, <1>12 DEF Turn
  <2>2. UNCHANGED <<managed, asked>>
    BY <1>3 DEF Turn
  <2>3. CASE m \notin sending
    <3>1. paramQueue'[m] = paramQueue[m] /\ spark'[m] = spark[m]
      BY <1>7, <1>8, <2>3
    <3>2. LastAsked(m) /\ Framed(m)
      BY <2>1 DEF RevInv
    <3>3. QED
      BY <2>2, <3>1, <3>2 DEF LastAsked, Framed, FramesUnderWay, ParamId, StatusId
  <2>4. CASE m \in sending /\ paramQueue[m] # <<>>
    <3>1. /\ paramQueue'[m] = Tail(paramQueue[m])
          /\ spark'[m] = Rev!Obeyed(spark[m], Head(paramQueue[m]))
      BY <1>7, <1>8, <2>1, <2>4, Zenon DEF Rev!createRevCanMessage
    <3>2. QED
      BY <2>1, <2>2, <2>4, <3>1, OldestDelivered
  <2>5. CASE m \in sending /\ paramQueue[m] = <<>>
    <3>1. PICK message : message = Rev!createRevCanMessage(m, mode)
      OBVIOUS
    <3>2. message.id = Rev!CreateArbitrationControlId(Rev!controlModeToAPI(mode), m)
      BY <2>5, <3>1 DEF Rev!createRevCanMessage
    <3>3. paramQueue'[m] = paramQueue[m] /\ spark'[m] = Rev!Obeyed(spark[m], message)
      BY <1>7, <1>8, <2>1, <2>5, <3>1
    <3>4. PICK command \in Int : Rev!Obeyed(spark[m], message) = WithCommand(spark[m], command)
      BY <3>2, ObeyedCommand
    <3>5. m \in managed /\ paramQueue[m] = <<>>
          /\ UNCHANGED <<managed, asked, paramQueue[m]>>
          /\ spark'[m] = WithCommand(spark[m], command)
      BY <1>4, <2>2, <2>5, <3>3, <3>4
    <3>6. QED
      BY <2>1, <3>5, CommandDelivered
  <2>6. QED
    BY <2>3, <2>4, <2>5
<1>13. QED
  BY <1>9, <1>11, <1>12 DEF RevInv

(* A motor that nothing of is touched. *)
LEMMA Untouched ==
    ASSUME RevInv, NEW m \in RevMotors, m \in managed' => m \in managed, failed' = failed,
           paramQueue'[m] = paramQueue[m], asked'[m] = asked[m], spark'[m] = spark[m]
    PROVE  Known(m)' /\ (m \notin failed' => LastAsked(m)' /\ Framed(m)')
<1>1. Known(m) /\ (m \notin failed => LastAsked(m) /\ Framed(m))
  BY DEF RevInv
<1>2. Known(m)'
  BY <1>1 DEF Known, ParamId, StatusId
<1>3. LastAsked(m) => LastAsked(m)'
  BY DEF LastAsked, ParamId
<1>4. Framed(m) => Framed(m)'
  BY SMTT(30) DEF Framed, FramesUnderWay, StatusId
<1>5. QED
  BY <1>1, <1>2, <1>3, <1>4

(* initialize() queues the frames of its motor. *)
LEMMA RevInitializes == RevInv /\ Rev!initialize => RevInv'
<1> SUFFICES ASSUME RevInv, Rev!initialize PROVE RevInv'
  OBVIOUS
<1>1. PICK m \in RevMotors :
          /\ requests' = requests + 1 /\ managed' = managed \union {m}
          /\ paramQueue' = [paramQueue EXCEPT ![m] =
                 @ \o [i \in 1 .. 5 |-> Rev!setPeriodicStatusFrame(Rev!Frames[i], m)]]
          /\ UNCHANGED <<asked, spark, failed>>
  BY Zenon DEF Rev!initialize
<1>2. paramQueue'[m] =
          paramQueue[m] \o [i \in 1 .. 5 |-> Rev!setPeriodicStatusFrame(Rev!Frames[i], m)]
  BY <1>1 DEF RevInv, RevTyped
<1>3. UNCHANGED <<asked, spark>>
  BY <1>1
<1>4. /\ paramQueue'[m] \in Seq(RevMessage) /\ Known(m)'
      /\ m \notin failed => LastAsked(m)' /\ Framed(m)'
  BY <1>2, <1>3, FramesAppended, Zenon
<1>5. \A n \in RevMotors : n # m => paramQueue'[n] = paramQueue[n]
  BY <1>1 DEF RevInv, RevTyped
<1>6. RevTyped'
  <2>1. PICK q : q = paramQueue'[m]
    OBVIOUS
  <2>2. paramQueue' = [paramQueue EXCEPT ![m] = q] /\ q \in Seq(RevMessage)
    BY <1>1, <1>2, <1>4, <2>1
  <2>3. paramQueue' \in [RevMotors -> Seq(RevMessage)]
    BY <2>2 DEF RevInv, RevTyped
  <2>4. QED
    BY <1>1, <2>3 DEF RevInv, RevTyped
<1>7. ASSUME NEW n \in RevMotors, n # m
      PROVE  Known(n)' /\ (n \notin failed' => LastAsked(n)' /\ Framed(n)')
  <2>1. /\ (n \in managed' => n \in managed) /\ failed' = failed
        /\ paramQueue'[n] = paramQueue[n] /\ asked'[n] = asked[n] /\ spark'[n] = spark[n]
    BY <1>1, <1>5, <1>7
  <2>2. QED
    BY <2>1, Untouched
<1>8. QED
  BY <1>1, <1>4, <1>6, <1>7 DEF RevInv

(* setMotorPID() queues the parameters of its slot. *)
LEMMA RevConfigures == RevInv /\ Rev!setMotorPID => RevInv'
<1> SUFFICES ASSUME RevInv, Rev!setMotorPID PROVE RevInv'
  OBVIOUS
<1>1. PICK m \in RevMotors, slot \in Slots :
          /\ requests' = requests + 1
          /\ paramQueue' = [paramQueue EXCEPT ![m] = @ \o Rev!Pushed(slot, requests', m)]
          /\ asked' = [asked EXCEPT ![m] = [p \in Rev!PIDParameters |->
                 IF p \in {Rev!Parameter(n, slot) : n \in DOMAIN Rev!ParameterIndex}
                 THEN requests' ELSE asked[m][p]]]
          /\ UNCHANGED <<managed, spark, failed>>
  BY Zenon DEF Rev!setMotorPID
<1>2. PICK value \in Int : value = requests'
  BY <1>1 DEF RevInv, RevTyped
<1>3. /\ paramQueue'[m] = paramQueue[m] \o Rev!Pushed(slot, value, m)
      /\ asked'[m] = [p \in Rev!PIDParameters |->
             IF p \in {Rev!Parameter(n, slot) : n \in DOMAIN Rev!ParameterIndex}
             THEN value ELSE asked[m][p]]
  BY <1>1, <1>2 DEF RevInv, RevTyped
<1>4. UNCHANGED <<managed, spark>>
  BY <1>1
<1>5. /\ paramQueue'[m] \in Seq(RevMessage) /\ Known(m)'
      /\ m \notin failed => LastAsked(m)' /\ Framed(m)'
  BY <1>3, <1>4, ParametersAppended, Zenon
<1>6. \A n \in RevMotors : n # m => paramQueue'[n] = paramQueue[n] /\ asked'[n] = asked[n]
  BY <1>1 DEF RevInv, RevTyped
<1>7. RevTyped'
  <2>1. PICK q : q = paramQueue'[m]
    OBVIOUS
  <2>2. PICK f : f = asked'[m]
    OBVIOUS
  <2>3. q \in Seq(RevMessage) /\ f \in [Rev!PIDParameters -> Int]
    <3>1. f \in [Rev!PIDParameters -> Int]
      BY <1>3, <2>2 DEF RevInv, RevTyped
    <3>2. QED
      BY <1>5, <2>1, <3>1
  <2>4. paramQueue' = [paramQueue EXCEPT ![m] = q] /\ asked' = [asked EXCEPT ![m] = f]
    BY <1>1, <1>2, <1>3, <2>1, <2>2
  <2>5. paramQueue' \in [RevMotors -> Seq(RevMessage)]
    BY <2>3, <2>4 DEF RevInv, RevTyped
  <2>6. asked' \in [RevMotors -> [Rev!PIDParameters -> Int]]
    BY <2>3, <2>4 DEF RevInv, RevTyped
  <2>7. QED
    BY <1>1, <2>5, <2>6 DEF RevInv, RevTyped
<1>8. ASSUME NEW n \in RevMotors, n # m
      PROVE  Known(n)' /\ (n \notin failed' => LastAsked(n)' /\ Framed(n)')
  <2>1. /\ (n \in managed' => n \in managed) /\ failed' = failed
        /\ paramQueue'[n] = paramQueue[n] /\ asked'[n] = asked[n] /\ spark'[n] = spark[n]
    BY <1>1, <1>6, <1>8
  <2>2. QED
    BY <2>1, Untouched
<1>9. QED
  BY <1>1, <1>5, <1>7, <1>8 DEF RevInv

(* Every step of the REV motors keeps the invariant. *)
LEMMA RevStep == RevInv /\ [Rev!Next]_revVars => RevInv'
<1> SUFFICES ASSUME RevInv, [Rev!Next]_revVars PROVE RevInv'
  OBVIOUS
<1>1. CASE /\ managed' \subseteq managed
           /\ UNCHANGED <<paramQueue, asked, spark, failed, requests>>
  <2>1. RevTyped'
    BY <1>1 DEF RevInv, RevTyped
  <2>2. ASSUME NEW m \in RevMotors
        PROVE  Known(m)' /\ (m \notin failed' => LastAsked(m)' /\ Framed(m)')
    <3>1. /\ (m \in managed' => m \in managed) /\ failed' = failed
          /\ paramQueue'[m] = paramQueue[m] /\ asked'[m] = asked[m] /\ spark'[m] = spark[m]
      BY <1>1
    <3>2. QED
      BY <3>1, Untouched
  <2>3. QED
    BY <2>1, <2>2 DEF RevInv
<1>2. CASE Rev!removeFromMotorManager
  BY <1>1, <1>2 DEF Rev!removeFromMotorManager
<1>3. CASE UNCHANGED revVars
  BY <1>1, <1>3 DEF revVars
<1>4. QED
  BY <1>2, <1>3, RevSends, RevInitializes, RevConfigures DEF Rev!Next

(* What a motor stores of a report is the frame of its own controller. *)
LEMMA StoresOwn == ASSUME RevInv PROVE Rev!StoresItsOwn
<1> SUFFICES ASSUME NEW bus \in Rev!Buses, NEW device \in {1, 7, 9},
                    NEW frame \in Rev!Range(Rev!Frames),
                    NEW s \in Rev!processMessage(bus, device, frame)
             PROVE  s[2] = frame /\ RevCanBus[s[1]] = bus /\ RevIdentifier[s[1]] = device
  BY DEF Rev!StoresItsOwn
<1>1. PICK id : id = Rev!SparkMax + Rev!APICommand[frame] * 64 + device
  OBVIOUS
<1>2. /\ s[1] \in RevMotors /\ s[2] \in Rev!Range(Rev!Frames)
      /\ RevCanBus[s[1]] = bus /\ Rev!FrameOf(s[2], id, s[1])
  BY <1>1 DEF Rev!processMessage, RevInv, RevTyped
<1>3. PICK api \in 96 .. 100 : api = Rev!APICommand[frame]
  BY Commands
<1>4. PICK own \in 96 .. 100 : own = Rev!APICommand[s[2]]
  BY <1>2, Commands
<1>5. id = IdOf(own, s[1])
  BY <1>2, <1>4, ControlIdentifier DEF Rev!FrameOf
<1>6. ApiOf(id) = own /\ DeviceOf(id) = RevIdentifier[s[1]]
  BY <1>2, <1>5, Fields, SMTT(30)
<1>7. ApiOf(id) = api /\ DeviceOf(id) = device
  BY <1>1, <1>3 DEF Rev!SparkMax, ApiOf, DeviceOf
<1>8. s[2] = frame
  <2>1. \A f, g \in Rev!Range(Rev!Frames) :
            Rev!APICommand[f] = Rev!APICommand[g] => f = g
    BY Commands
  <2>2. Rev!APICommand[s[2]] = Rev!APICommand[frame]
    BY <1>3, <1>4, <1>6, <1>7
  <2>3. QED
    BY <1>2, <2>1, <2>2
<1>9. QED
  BY <1>2, <1>6, <1>7, <1>8

(* Which says what the controllers hold and obey. *)
LEMMA RevObeys == RevInv => Rev!SparksConfigured
<1> SUFFICES ASSUME RevInv PROVE Rev!SparksConfigured
  OBVIOUS
<1>1. Rev!ConfiguredAsAsked
  <2> SUFFICES ASSUME NEW m \in RevMotors, m \notin failed, paramQueue[m] = <<>>
               PROVE  spark[m].held = asked[m]
    BY DEF Rev!ConfiguredAsAsked, Rev!Settled
  <2>1. Len(paramQueue[m]) = 0 /\ 1 .. Len(paramQueue[m]) = {}
    OBVIOUS
  <2>2. \A p \in Rev!PIDParameters : spark[m].held[p] = asked[m][p]
    BY <2>1 DEF RevInv, LastAsked
  <2>3. /\ spark[m].held \in [Rev!PIDParameters -> Int]
        /\ asked[m] \in [Rev!PIDParameters -> Int]
    BY DEF RevInv, RevTyped
  <2>4. QED
    BY <2>2, <2>3
<1>2. Rev!ConfiguredBeforeCommanded
  <2>1. {Rev!APICommand[f] : f \in Rev!Range(Rev!Frames)} = 96 .. 100
    BY Commands
  <2>2. \A m \in RevMotors \ failed : spark[m].command # 0 => spark[m].periods = 96 .. 100
    BY DEF RevInv, Framed
  <2>3. QED
    BY <2>1, <2>2 DEF Rev!ConfiguredBeforeCommanded
<1>3. QED
  BY <1>1, <1>2, StoresOwn DEF Rev!SparksConfigured

(* What restarts and runs out with the time since the last report. *)
RunsOut(left, passed) ==
    /\ left > 0 <=> passed < MOTOR_DISCONNECT_TIME
    /\ passed < MOTOR_DISCONNECT_TIME => left = MOTOR_DISCONNECT_TIME - passed

ReportsTyped ==
    /\ motorDisconnectTimeout \in [RevMotors -> Int]
    /\ encoderDisconnectTimeout \in [RevMotors -> Int]
    /\ silence \in [RevMotors -> [all : 0 .. MOTOR_DISCONNECT_TIME,
                                  shaft : 0 .. MOTOR_DISCONNECT_TIME]]

ReportInv ==
    /\ ReportsTyped
    /\ \A m \in managed : m \in RevMotors /\ RevIdentifier[m] < 8
    /\ \A m \in RevMotors :
           /\ RunsOut(motorDisconnectTimeout[m], silence[m].all)
           /\ RunsOut(encoderDisconnectTimeout[m], silence[m].shaft)
           /\ silence[m].all <= silence[m].shaft
    /\ Rev!HeartbeatsReachAll

LEMMA ReportStart == Rev!Init /\ Rev!ReportInit => ReportInv
BY RevAssumption
   DEF Rev!Init, Rev!ReportInit, Rev!Stopped, ReportInv, ReportsTyped, RunsOut, Rev!HeartbeatsReachAll

(* The commands are ten bits, and the two frames about the shaft are two of them. *)
LEMMA TenBits ==
    /\ \A command \in DOMAIN Rev!APICommand : Rev!APICommand[command] \in 0 .. 1023
    /\ \A command \in DOMAIN Rev!APICommand, f \in Rev!AboutShaft :
           /\ f \in DOMAIN Rev!APICommand
           /\ Rev!APICommand[command] = Rev!APICommand[f] => command = f
BY DEF Rev!APICommand, Rev!AboutShaft

(* The motors of the bin that a message of a controller comes to. *)
Reached(m, id) == {n \in managed : RevCanBus[n] = RevCanBus[m] /\ RevIdentifier[n] = id % 8}

(* A report reaches the motor of its controller, if it is in the table. *)
LEMMA ReportReaches ==
    ASSUME ReportInv, NEW m \in RevMotors, NEW answer \in DOMAIN Rev!APICommand, NEW id,
           id = Rev!CreateArbitrationControlId(Rev!APICommand[answer], m)
    PROVE  /\ Reached(m, id) = {m} \intersect managed
           /\ Rev!HandedOver(Reached(m, id), id)
                  = IF answer \in Rev!AboutShaft THEN {m} \intersect managed ELSE {}
<1>1. PICK api : api \in 0 .. 1023 /\ api = Rev!APICommand[answer]
  BY TenBits
<1>2. id = IdOf(api, m) /\ RevIdentifier[m] \in 1 .. 8
  BY <1>1, ControlIdentifier, RevAssumption
<1>3. id % 8 = RevIdentifier[m] % 8
  BY <1>1, <1>2 DEF IdOf, Rev!SparkMax
<1>4. ASSUME NEW n \in managed PROVE RevIdentifier[n] \in 1 .. 7 /\ n \in RevMotors
  BY RevAssumption DEF ReportInv
<1>5. Reached(m, id) = {m} \intersect managed
  <2>1. ASSUME NEW n \in Reached(m, id) PROVE n = m
    BY <1>2, <1>3, <1>4, RevAssumption DEF Reached
  <2>2. m \in managed => m \in Reached(m, id)
    BY <1>3, <1>4 DEF Reached
  <2>3. QED
    BY <2>1, <2>2 DEF Reached
<1>6. ASSUME NEW f \in Rev!AboutShaft
      PROVE  Rev!FrameOf(f, id, m) <=> answer = f
  <2>1. PICK own : own \in 0 .. 1023 /\ own = Rev!APICommand[f]
    BY TenBits
  <2>2. Rev!FrameOf(f, id, m) <=> IdOf(api, m) = IdOf(own, m)
    BY <1>2, <2>1, ControlIdentifier, SMTT(30) DEF Rev!FrameOf
  <2>3. ApiOf(IdOf(api, m)) = api
    BY <1>1, Fields, SMTT(30)
  <2>4. ApiOf(IdOf(own, m)) = own
    BY <2>1, Fields, SMTT(30)
  <2>5. IdOf(api, m) = IdOf(own, m) <=> api = own
    BY <2>3, <2>4, Zenon
  <2>6. Rev!APICommand[answer] = Rev!APICommand[f] => answer = f
    BY TenBits, Zenon
  <2>7. QED
    BY <1>1, <2>1, <2>2, <2>5, <2>6, Zenon
<1>7. Rev!HandedOver(Reached(m, id), id)
          = IF answer \in Rev!AboutShaft THEN {m} \intersect managed ELSE {}
  BY <1>5, <1>6 DEF Rev!HandedOver
<1>8. QED
  BY <1>5, <1>7

LEMMA Reports == ASSUME ReportInv, Rev!Report PROVE ReportInv'
<1>1. PICK m \in RevMotors, answer \in DOMAIN Rev!APICommand :
          LET id == Rev!CreateArbitrationControlId(Rev!APICommand[answer], m)
          IN  /\ motorDisconnectTimeout' = Rev!Restarted(motorDisconnectTimeout, Reached(m, id))
              /\ encoderDisconnectTimeout' =
                     Rev!Restarted(encoderDisconnectTimeout, Rev!HandedOver(Reached(m, id), id))
              /\ silence' = IF m \notin managed THEN silence ELSE
                     [silence EXCEPT ![m].all = 0,
                                     ![m].shaft = IF answer \in Rev!AboutShaft THEN 0 ELSE @]
              /\ managed' = managed /\ heartbeat' = heartbeat
  BY Zenon DEF Rev!Report, Rev!revVars, Reached
<1>2. PICK heard : heard = {m} \intersect managed
  BY Zenon
<1>3. /\ motorDisconnectTimeout' = Rev!Restarted(motorDisconnectTimeout, heard)
      /\ encoderDisconnectTimeout' = Rev!Restarted(encoderDisconnectTimeout,
             IF answer \in Rev!AboutShaft THEN heard ELSE {})
  <2>1. PICK id : id = Rev!CreateArbitrationControlId(Rev!APICommand[answer], m)
    OBVIOUS
  <2>2. /\ Reached(m, id) = heard
        /\ Rev!HandedOver(Reached(m, id), id) = IF answer \in Rev!AboutShaft THEN heard ELSE {}
    BY <1>2, <2>1, ReportReaches
  <2>3. QED
    BY <1>1, <2>1, <2>2
<1>4. /\ MOTOR_DISCONNECT_TIME \in Nat \ {0}
      /\ ReportsTyped /\ \A n \in managed : n \in RevMotors /\ RevIdentifier[n] < 8
  BY RevAssumption DEF ReportInv
<1>5. silence' = [n \in RevMotors |-> IF n \in heard
                     THEN [all |-> 0, shaft |-> IF answer \in Rev!AboutShaft THEN 0
                                                ELSE silence[n].shaft]
                     ELSE silence[n]]
  <2>1. silence \in [RevMotors -> [all : 0 .. MOTOR_DISCONNECT_TIME,
                                   shaft : 0 .. MOTOR_DISCONNECT_TIME]]
    BY <1>4 DEF ReportsTyped
  <2>2. CASE m \in managed
    <3>1. silence' = [silence EXCEPT ![m].all = 0,
                                     ![m].shaft = IF answer \in Rev!AboutShaft THEN 0 ELSE @]
      BY <1>1, <2>2
    <3>2. PICK before : before = silence[m] /\ before = [all |-> before.all, shaft |-> before.shaft]
      BY <2>1
    <3>3. PICK shaftNow : shaftNow = IF answer \in Rev!AboutShaft THEN 0 ELSE before.shaft
      OBVIOUS
    <3>4. silence'[m] = [all |-> 0, shaft |-> shaftNow]
      BY <2>1, <3>1, <3>2, <3>3, Zenon
    <3>5. /\ silence' = [n \in RevMotors |-> silence'[n]]
          /\ \A n \in RevMotors : n # m => silence'[n] = silence[n]
      BY <2>1, <3>1, Zenon
    <3>6. heard = {m}
      BY <1>2, <2>2
    <3>7. QED
      BY <3>2, <3>3, <3>4, <3>5, <3>6
  <2>3. CASE m \notin managed
    BY <1>1, <1>2, <2>1, <2>3
  <2>4. QED
    BY <2>2, <2>3
<1>6. ReportsTyped'
  BY <1>3, <1>4, <1>5 DEF ReportsTyped, Rev!Restarted
<1>7. ASSUME NEW n \in RevMotors
      PROVE  /\ RunsOut(motorDisconnectTimeout'[n], silence'[n].all)
             /\ RunsOut(encoderDisconnectTimeout'[n], silence'[n].shaft)
             /\ silence'[n].all <= silence'[n].shaft
  <2>1. /\ RunsOut(motorDisconnectTimeout[n], silence[n].all)
        /\ RunsOut(encoderDisconnectTimeout[n], silence[n].shaft)
        /\ silence[n].all <= silence[n].shaft
        /\ silence[n].all \in 0 .. MOTOR_DISCONNECT_TIME
        /\ silence[n].shaft \in 0 .. MOTOR_DISCONNECT_TIME
    BY DEF ReportInv, ReportsTyped
  <2>2. CASE n \in heard
    BY <1>3, <1>4, <1>5, <2>1, <2>2 DEF Rev!Restarted, RunsOut
  <2>3. CASE n \notin heard
    BY <1>3, <1>4, <1>5, <2>1, <2>3 DEF Rev!Restarted, RunsOut
  <2>4. QED
    BY <2>2, <2>3
<1>8. QED
  BY <1>1, <1>4, <1>6, <1>7, Zenon DEF ReportInv, Rev!HeartbeatsReachAll, RunsOut

LEMMA TimePassing == ASSUME ReportInv, Rev!TimePasses PROVE ReportInv'
<1>1. /\ motorDisconnectTimeout' = [m \in RevMotors |-> Rev!Sooner(motorDisconnectTimeout[m])]
      /\ encoderDisconnectTimeout' = [m \in RevMotors |-> Rev!Sooner(encoderDisconnectTimeout[m])]
      /\ silence' = [m \in RevMotors |-> [all |-> Rev!Later(silence[m].all),
                                          shaft |-> Rev!Later(silence[m].shaft)]]
      /\ managed' = managed /\ heartbeat' = heartbeat
  BY DEF Rev!TimePasses, Rev!revVars
<1>2. MOTOR_DISCONNECT_TIME \in Nat \ {0} /\ ReportsTyped
  BY RevAssumption DEF ReportInv
<1>3. ReportsTyped'
  BY <1>1, <1>2 DEF ReportsTyped, Rev!Sooner, Rev!Later
<1>4. ASSUME NEW n \in RevMotors
      PROVE  /\ RunsOut(motorDisconnectTimeout'[n], silence'[n].all)
             /\ RunsOut(encoderDisconnectTimeout'[n], silence'[n].shaft)
             /\ silence'[n].all <= silence'[n].shaft
  <2>1. /\ RunsOut(motorDisconnectTimeout[n], silence[n].all)
        /\ RunsOut(encoderDisconnectTimeout[n], silence[n].shaft)
        /\ silence[n].all <= silence[n].shaft
        /\ silence[n].all \in 0 .. MOTOR_DISCONNECT_TIME
        /\ silence[n].shaft \in 0 .. MOTOR_DISCONNECT_TIME
        /\ motorDisconnectTimeout[n] \in Int /\ encoderDisconnectTimeout[n] \in Int
    BY DEF ReportInv, ReportsTyped
  <2>2. QED
    BY <1>1, <1>2, <2>1, SMTT(30) DEF Rev!Sooner, Rev!Later, RunsOut
<1>5. QED
  BY <1>1, <1>3, <1>4 DEF ReportInv, Rev!HeartbeatsReachAll, RunsOut

LEMMA HeartBeats == ASSUME ReportInv, Rev!heartBeat PROVE ReportInv'
<1>1. PICK ready \in SUBSET Rev!Buses : \E missing \in SUBSET Rev!ToReach(ready) :
          /\ heartbeat' =
                 [due |-> {m \in managed \ missing : RevCanBus[m] \in ready},
                  heard |-> {m \in RevMotors : \E n \in Rev!ToReach(ready) \ missing :
                      /\ RevCanBus[n] = RevCanBus[m]
                      /\ Rev!Names(Rev!constructRevMotorHeartBeat(n), m)
                      /\ Rev!Api(Rev!constructRevMotorHeartBeat(n)) = Rev!APICommand["Heartbeat"]}]
          /\ managed' = managed
          /\ UNCHANGED <<motorDisconnectTimeout, encoderDisconnectTimeout, silence>>
  BY Zenon DEF Rev!heartBeat, Rev!revVars
<1>2. PICK missing \in SUBSET Rev!ToReach(ready) :
          heartbeat' =
                 [due |-> {m \in managed \ missing : RevCanBus[m] \in ready},
                  heard |-> {m \in RevMotors : \E n \in Rev!ToReach(ready) \ missing :
                      /\ RevCanBus[n] = RevCanBus[m]
                      /\ Rev!Names(Rev!constructRevMotorHeartBeat(n), m)
                      /\ Rev!Api(Rev!constructRevMotorHeartBeat(n)) = Rev!APICommand["Heartbeat"]}]
  BY <1>1, Zenon
<1>3. PICK beat : beat = Rev!APICommand["Heartbeat"] /\ beat = 146
  BY DEF Rev!APICommand
<1>4. ASSUME NEW n \in managed, NEW m \in RevMotors
      PROVE  /\ n \in RevMotors
             /\ Rev!Names(Rev!constructRevMotorHeartBeat(n), m) <=> RevIdentifier[n] = RevIdentifier[m]
             /\ Rev!Api(Rev!constructRevMotorHeartBeat(n)) = beat
  <2>1. n \in RevMotors
    BY DEF ReportInv
  <2>2. Rev!constructRevMotorHeartBeat(n).id = IdOf(146, n)
    BY <1>3, <2>1, ControlIdentifier DEF Rev!constructRevMotorHeartBeat
  <2>3. DeviceOf(IdOf(146, n)) = RevIdentifier[n] /\ ApiOf(IdOf(146, n)) = 146
    BY <2>1, Fields, SMTT(30)
  <2>4. QED
    BY <1>3, <2>1, <2>2, <2>3 DEF Rev!Names, Rev!Api, DeviceOf, ApiOf
<1>5. heartbeat'.heard = heartbeat'.due
  <2>1. ASSUME NEW m \in RevMotors, NEW n \in managed, RevCanBus[n] = RevCanBus[m],
               RevIdentifier[n] = RevIdentifier[m]
        PROVE  n = m
    BY <1>4, <2>1, RevAssumption
  <2>2. ASSUME NEW m \in heartbeat'.heard PROVE m \in heartbeat'.due
    BY <1>2, <1>3, <1>4, <2>1 DEF Rev!ToReach
  <2>3. ASSUME NEW m \in heartbeat'.due PROVE m \in heartbeat'.heard
    <3>1. m \in managed \ missing /\ RevCanBus[m] \in ready /\ m \in RevMotors
      BY <1>2, <2>3 DEF ReportInv
    <3>2. m \in Rev!ToReach(ready) \ missing
      BY <3>1 DEF Rev!ToReach
    <3>3. QED
      BY <1>2, <1>3, <1>4, <3>1, <3>2
  <2>4. QED
    BY <2>2, <2>3
<1>6. QED
  BY <1>1, <1>5 DEF ReportInv, ReportsTyped, Rev!HeartbeatsReachAll, RunsOut

(* Every step keeps who is online as it was reported. *)
LEMMA ReportStep ==
    ASSUME ReportInv,
           Rev!Listening \/ ([Rev!Next]_revVars /\ UNCHANGED reportVars)
    PROVE  ReportInv'
<1>1. CASE UNCHANGED reportVars /\ [Rev!Next]_revVars
  <2>1. \A m \in managed' : m \in managed \/ (m \in RevMotors /\ RevIdentifier[m] < 8)
    BY <1>1 DEF Rev!Next, revVars, Rev!initialize, Rev!setMotorPID, Rev!encodeAndSendCanData,
                Rev!removeFromMotorManager, Rev!Fits, Rev!REV_MOTORS_PER_CAN
  <2>2. QED
    BY <1>1, <2>1, SMTT(30) DEF reportVars, ReportInv, ReportsTyped, Rev!HeartbeatsReachAll, RunsOut
<1>2. Rev!initialize => Rev!Next
  BY DEF Rev!Next
<1>3. UNCHANGED Rev!reportVars => UNCHANGED reportVars
  BY DEF Rev!reportVars, reportVars
<1>4. QED
  BY <1>1, <1>2, <1>3, Reports, TimePassing, HeartBeats DEF Rev!Listening

LEMMA OnlineReported == ASSUME ReportInv PROVE Rev!OnlineAsReported /\ Rev!HeartbeatsReachAll
<1>1. ASSUME NEW m \in RevMotors
      PROVE  /\ Rev!isMotorOnline(m) <=> silence[m].all < MOTOR_DISCONNECT_TIME
             /\ Rev!isEncoderOnline(m) <=> silence[m].shaft < MOTOR_DISCONNECT_TIME
             /\ Rev!isEncoderOnline(m) => Rev!isMotorOnline(m)
  <2>1. /\ silence[m].all \in Int /\ silence[m].shaft \in Int /\ MOTOR_DISCONNECT_TIME \in Int
    BY RevAssumption DEF ReportInv, ReportsTyped
  <2>2. QED
    BY <2>1 DEF ReportInv, RunsOut, Rev!isMotorOnline, Rev!isEncoderOnline
<1>2. QED
  BY <1>1 DEF Rev!OnlineAsReported, ReportInv

-----------------------------------------------------------------------------
Sensor == INSTANCE Imu

imuVars == <<chip, broken, sensor, imuState, calibrationSample, raw, imuOffset, data, taken,
             ofPartialSum, calibrations>>

(* The IMU.  Its registers are typed, and none of its identifiers is ever
   written. *)
RegisterValues == {"garbage", "reset", "id", "on", "rate", "range", "normal", "clock", "all",
                   "filter", "spi"}
SensorStates == [held : [Sensor!Registers -> RegisterValues], spi : BOOLEAN]

SensorTyped ==
    /\ chip \in {"bmi088", "mpu6500"} /\ broken \subseteq Sensor!Registers
    /\ sensor \in SensorStates
    /\ \A r \in Sensor!Ids : sensor.held[r] = Sensor!PowerUp(r)

LEMMA RegisterNames ==
    /\ Sensor!Registers =
           {"ACC_CHIP_ID", "ACC_PWR_CTRL", "ACC_CONF", "ACC_RANGE",
            "GYRO_CHIP_ID", "GYRO_RANGE", "GYRO_BANDWIDTH", "GYRO_LPM1",
            "WHO_AM_I", "PWR_MGMT_1", "PWR_MGMT_2", "CONFIG", "GYRO_CONFIG", "ACCEL_CONFIG",
            "ACCEL_CONFIG_2", "USER_CTRL"}
    /\ Sensor!AccRegisters = {"ACC_CHIP_ID", "ACC_PWR_CTRL", "ACC_CONF", "ACC_RANGE"}
    /\ Sensor!GyroRegisters = {"GYRO_CHIP_ID", "GYRO_RANGE", "GYRO_BANDWIDTH", "GYRO_LPM1"}
    /\ DOMAIN Sensor!GyroWanted = {"GYRO_RANGE", "GYRO_BANDWIDTH", "GYRO_LPM1"}
    /\ DOMAIN Sensor!MpuWanted \subseteq Sensor!Registers
<1>1. /\ DOMAIN Sensor!AccWanted = {"ACC_PWR_CTRL", "ACC_CONF", "ACC_RANGE"}
      /\ DOMAIN Sensor!GyroWanted = {"GYRO_RANGE", "GYRO_BANDWIDTH", "GYRO_LPM1"}
      /\ DOMAIN Sensor!MpuWanted = {"PWR_MGMT_1", "PWR_MGMT_2", "CONFIG", "GYRO_CONFIG",
                                    "ACCEL_CONFIG", "ACCEL_CONFIG_2", "USER_CTRL"}
  BY DEF Sensor!AccWanted, Sensor!GyroWanted, Sensor!MpuWanted
<1>2. QED
  BY <1>1 DEF Sensor!Registers, Sensor!AccRegisters, Sensor!GyroRegisters, Sensor!MpuRegisters

(* What a register should hold is one of those; of an identifier it is "id". *)
LEMMA WantedTyped ==
    /\ Sensor!Wanted \in [Sensor!Registers -> RegisterValues]
    /\ \A r \in Sensor!Ids : r \in Sensor!Registers /\ Sensor!Wanted[r] = "id"
<1>1. ASSUME NEW r \in Sensor!Registers
      PROVE  Sensor!Wanted[r] \in RegisterValues
  <2>1. /\ DOMAIN Sensor!AccWanted = {"ACC_PWR_CTRL", "ACC_CONF", "ACC_RANGE"}
        /\ \A n \in DOMAIN Sensor!AccWanted : Sensor!AccWanted[n] \in RegisterValues
    BY DEF Sensor!AccWanted, RegisterValues
  <2>2. /\ DOMAIN Sensor!GyroWanted = {"GYRO_RANGE", "GYRO_BANDWIDTH", "GYRO_LPM1"}
        /\ \A n \in DOMAIN Sensor!GyroWanted : Sensor!GyroWanted[n] \in RegisterValues
    BY DEF Sensor!GyroWanted, RegisterValues
  <2>3. /\ DOMAIN Sensor!MpuWanted = {"PWR_MGMT_1", "PWR_MGMT_2", "CONFIG", "GYRO_CONFIG",
                                      "ACCEL_CONFIG", "ACCEL_CONFIG_2", "USER_CTRL"}
        /\ \A n \in DOMAIN Sensor!MpuWanted : Sensor!MpuWanted[n] \in RegisterValues
    BY DEF Sensor!MpuWanted, RegisterValues
  <2>4. \/ r \in Sensor!Ids \/ r \in DOMAIN Sensor!AccWanted
        \/ r \in DOMAIN Sensor!GyroWanted \/ r \in DOMAIN Sensor!MpuWanted
    BY <2>1, <2>2, <2>3, RegisterNames DEF Sensor!Ids
  <2>5. /\ r \in Sensor!Ids => Sensor!Wanted[r] = "id"
        /\ r \notin Sensor!Ids /\ r \in DOMAIN Sensor!AccWanted
               => Sensor!Wanted[r] = Sensor!AccWanted[r]
        /\ r \notin Sensor!Ids /\ r \notin DOMAIN Sensor!AccWanted
               => Sensor!Wanted[r] = IF r \in DOMAIN Sensor!GyroWanted THEN Sensor!GyroWanted[r]
                                    ELSE Sensor!MpuWanted[r]
    BY DEF Sensor!Wanted
  <2>6. "id" \in RegisterValues
    BY DEF RegisterValues
  <2>7. QED
    BY <2>1, <2>2, <2>3, <2>4, <2>5, <2>6
<1>2. ASSUME NEW r \in Sensor!Ids
      PROVE  r \in Sensor!Registers /\ Sensor!Wanted[r] = "id"
  <2>1. r \in Sensor!Registers
    BY RegisterNames DEF Sensor!Ids
  <2>2. QED
    BY <2>1 DEF Sensor!Wanted
<1>3. Sensor!Wanted = [r \in Sensor!Registers |-> Sensor!Wanted[r]]
  BY DEF Sensor!Wanted
<1>4. QED
  BY <1>1, <1>2, <1>3

LEMMA PowerUpTyped ==
    ASSUME NEW r PROVE Sensor!PowerUp(r) \in RegisterValues
  BY DEF Sensor!PowerUp, RegisterValues

(* The registers that are set and kept hold what is wanted. *)
LEMMA RegistersSet ==
    ASSUME NEW s \in SensorStates, NEW registers \in SUBSET Sensor!Registers
    PROVE  /\ Sensor!SetAndCheck(s, registers) \in SensorStates
           /\ Sensor!SetAndCheck(s, registers).spi
           /\ \A r \in Sensor!Registers :
                  Sensor!SetAndCheck(s, registers).held[r] =
                      IF r \in registers \ (broken \union Sensor!Ids) THEN Sensor!Wanted[r]
                      ELSE s.held[r]
BY WantedTyped DEF Sensor!SetAndCheck, SensorStates

(* The accelerometer is woken up, and listens to SPI. *)
LEMMA Wakes ==
    ASSUME NEW s \in SensorStates
    PROVE  /\ Sensor!Awake(s) \in SensorStates
           /\ Sensor!Awake(s).spi
           /\ \A r \in Sensor!Registers \ {"ACC_PWR_CTRL"} : Sensor!Awake(s).held[r] = s.held[r]
<1> DEFINE t == Sensor!Transferred(s)
           v == IF "ACC_PWR_CTRL" \in broken \/ "ACC_PWR_CTRL" \in Sensor!Ids
                THEN t.held["ACC_PWR_CTRL"] ELSE Sensor!Wanted["ACC_PWR_CTRL"]
<1>1. t \in SensorStates /\ t.spi /\ t.held = s.held
  BY Zenon DEF Sensor!Transferred, SensorStates
<1>2. Sensor!Transferred(t) = t
  BY <1>1, Zenon DEF Sensor!Transferred, SensorStates
<1>3. v \in RegisterValues
  BY <1>1, WantedTyped, RegisterNames DEF SensorStates
<1>4. Sensor!Awake(s) = [t EXCEPT !.held = [t.held EXCEPT !["ACC_PWR_CTRL"] = v]]
  BY <1>2 DEF Sensor!Awake, Sensor!bmi088WriteSingleReg
<1> HIDE DEF t, v
<1>5. QED
  BY <1>1, <1>3, <1>4 DEF SensorStates

(* A soft reset of the gyroscope. *)
GyroReset(s) ==
    [s EXCEPT !.held = [r \in Sensor!Registers |->
        IF r \in DOMAIN Sensor!GyroWanted THEN Sensor!PowerUp(r) ELSE @[r]]]

LEMMA Resets ==
    ASSUME NEW s \in SensorStates
    PROVE  /\ GyroReset(s) \in SensorStates
           /\ \A r \in Sensor!Registers :
                  GyroReset(s).held[r] = IF r \in DOMAIN Sensor!GyroWanted THEN Sensor!PowerUp(r)
                                         ELSE s.held[r]
BY PowerUpTyped DEF GyroReset, SensorStates

(* An accelerometer that is set up is configured if it answered; a healthy one
   answers.  The gyroscope is left alone. *)
LEMMA AccConnects ==
    ASSUME SensorTyped
    PROVE  LET acc == Sensor!initializeAcc(sensor)
           IN  /\ acc.sensor \in SensorStates /\ acc.sensor.spi
               /\ \A r \in Sensor!Ids : acc.sensor.held[r] = sensor.held[r]
               /\ acc.connected => /\ acc.sensor.held["ACC_CHIP_ID"] = "id"
                                   /\ \A r \in {"ACC_CONF", "ACC_RANGE"} :
                                          acc.sensor.held[r] = Sensor!Wanted[r]
               /\ broken = {} => acc.connected
<1> DEFINE awake == Sensor!Awake(sensor)
           both == {"ACC_CONF", "ACC_RANGE"}
           configured == Sensor!SetAndCheck(awake, both)
           acc == Sensor!initializeAcc(sensor)
<1>1. /\ sensor \in SensorStates /\ both \in SUBSET Sensor!Registers
      /\ both \subseteq Sensor!AccRegisters /\ both \intersect Sensor!Ids = {}
      /\ Sensor!Ids \subseteq Sensor!Registers \ {"ACC_PWR_CTRL"} /\ "ACC_CHIP_ID" \in Sensor!Ids
  BY RegisterNames DEF SensorTyped, Sensor!Ids
<1>2. /\ awake \in SensorStates /\ awake.spi
      /\ \A r \in Sensor!Ids : awake.held[r] = sensor.held[r]
  BY <1>1, Wakes
<1> HIDE DEF awake
<1>3. /\ configured \in SensorStates /\ configured.spi
      /\ \A r \in Sensor!Registers :
             configured.held[r] = IF r \in both \ (broken \union Sensor!Ids) THEN Sensor!Wanted[r]
                                  ELSE awake.held[r]
  BY <1>1, <1>2, RegistersSet
<1>4. /\ \A r \in Sensor!Ids : configured.held[r] = sensor.held[r]
      /\ broken = {} => \A r \in both : configured.held[r] = Sensor!Wanted[r]
  BY <1>1, <1>2, <1>3
<1> HIDE DEF configured
<1>5. Sensor!Checked(configured, both) <=> \A r \in both : configured.held[r] = Sensor!Wanted[r]
  BY <1>1, <1>3
     DEF Sensor!Checked, Sensor!bmi088AccReadSingleReg, Sensor!AccBytes
<1>6. Sensor!bmi088AccReadSingleReg(awake, "ACC_CHIP_ID") = awake.held["ACC_CHIP_ID"]
  BY <1>2 DEF Sensor!bmi088AccReadSingleReg, Sensor!AccBytes
<1>7. acc = IF awake.held["ACC_CHIP_ID"] # "id" THEN [sensor |-> awake, connected |-> FALSE]
            ELSE [sensor |-> configured, connected |-> Sensor!Checked(configured, both)]
  BY <1>6 DEF Sensor!initializeAcc, awake, configured
<1>8. broken = {} => awake.held["ACC_CHIP_ID"] = "id"
  BY <1>1, <1>2 DEF SensorTyped, Sensor!PowerUp
<1> HIDE DEF acc
<1>9. CASE awake.held["ACC_CHIP_ID"] # "id"
  <2>1. acc.sensor = awake /\ acc.connected = FALSE
    BY <1>7, <1>9
  <2>2. QED
    BY <1>2, <1>8, <1>9, <2>1 DEF acc
<1>10. CASE awake.held["ACC_CHIP_ID"] = "id"
  <2>1. acc.sensor = configured /\ acc.connected = Sensor!Checked(configured, both)
    BY <1>7, <1>10
  <2>2. configured.held["ACC_CHIP_ID"] = "id"
    BY <1>1, <1>2, <1>4, <1>10
  <2>3. QED
    BY <1>1, <1>3, <1>4, <1>5, <2>1, <2>2 DEF acc
<1>11. QED
  BY <1>9, <1>10

(* The same of the gyroscope. *)
LEMMA GyroConnects ==
    ASSUME SensorTyped, NEW s \in SensorStates, s.spi,
           \A r \in Sensor!Ids : s.held[r] = sensor.held[r]
    PROVE  LET gyro == Sensor!initializeGyro(s)
           IN  /\ gyro.sensor \in SensorStates /\ gyro.sensor.spi
               /\ \A r \in Sensor!Registers \ DOMAIN Sensor!GyroWanted :
                      gyro.sensor.held[r] = s.held[r]
               /\ gyro.connected => \A r \in Sensor!GyroRegisters :
                                        gyro.sensor.held[r] = Sensor!Wanted[r]
               /\ broken = {} => gyro.connected
<1> DEFINE reset == GyroReset(s)
           all == DOMAIN Sensor!GyroWanted
           configured == Sensor!SetAndCheck(reset, all)
           gyro == Sensor!initializeGyro(s)
<1>1. /\ all \in SUBSET Sensor!Registers /\ all \intersect Sensor!Ids = {}
      /\ all \intersect Sensor!AccRegisters = {}
      /\ "GYRO_CHIP_ID" \in Sensor!Ids /\ "GYRO_CHIP_ID" \in Sensor!Registers \ all
      /\ Sensor!GyroRegisters = all \union {"GYRO_CHIP_ID"}
  BY RegisterNames DEF Sensor!Ids
<1>2. /\ reset \in SensorStates
      /\ \A r \in Sensor!Registers :
             reset.held[r] = IF r \in all THEN Sensor!PowerUp(r) ELSE s.held[r]
  BY Resets
<1>3. reset = [s EXCEPT !.held = [r \in Sensor!Registers |->
                  IF r \in DOMAIN Sensor!GyroWanted THEN Sensor!PowerUp(r) ELSE s.held[r]]]
  BY DEF GyroReset, SensorStates
<1> HIDE DEF reset
<1>4. /\ configured \in SensorStates /\ configured.spi
      /\ \A r \in Sensor!Registers :
             configured.held[r] = IF r \in all \ (broken \union Sensor!Ids) THEN Sensor!Wanted[r]
                                  ELSE reset.held[r]
  BY <1>1, <1>2, RegistersSet
<1>5. gyro = [sensor |-> configured,
              connected |-> /\ Sensor!bmi088GyroReadSingleReg(reset, "GYRO_CHIP_ID") = "id"
                            /\ Sensor!Checked(configured, all)]
  BY <1>3 DEF Sensor!initializeGyro, SensorStates
<1>6. /\ \A r \in Sensor!Registers \ all : configured.held[r] = s.held[r]
      /\ broken = {} => \A r \in all : configured.held[r] = Sensor!Wanted[r]
  BY <1>1, <1>2, <1>4
<1> HIDE DEF configured, gyro, all
<1>7. Sensor!Checked(configured, all) <=> \A r \in all : configured.held[r] = Sensor!Wanted[r]
  BY <1>1 DEF Sensor!Checked, Sensor!bmi088GyroReadSingleReg, Sensor!GyroBytes
<1>8. /\ Sensor!bmi088GyroReadSingleReg(reset, "GYRO_CHIP_ID") = s.held["GYRO_CHIP_ID"]
      /\ configured.held["GYRO_CHIP_ID"] = s.held["GYRO_CHIP_ID"]
  BY <1>1, <1>2, <1>6 DEF Sensor!bmi088GyroReadSingleReg, Sensor!GyroBytes
<1>9. /\ gyro.sensor = configured
      /\ gyro.connected <=> /\ s.held["GYRO_CHIP_ID"] = "id"
                            /\ \A r \in all : configured.held[r] = Sensor!Wanted[r]
  BY <1>5, <1>7, <1>8
<1>10. broken = {} => s.held["GYRO_CHIP_ID"] = "id"
  BY <1>1 DEF SensorTyped, Sensor!PowerUp
<1>11. Sensor!Wanted["GYRO_CHIP_ID"] = "id"
  BY <1>1, WantedTyped
<1>12. QED
  BY <1>1, <1>4, <1>6, <1>8, <1>9, <1>10, <1>11 DEF gyro, all

(* So a Bmi088 is connected if and only if it is configured, and a healthy one
   is connected. *)
LEMMA BmiConnects ==
    ASSUME SensorTyped
    PROVE  LET done == Sensor!BmiInitialized
           IN  /\ done.sensor \in SensorStates
               /\ \A r \in Sensor!Ids : done.sensor.held[r] = sensor.held[r]
               /\ done.connected =>
                      \A r \in (Sensor!AccRegisters \union Sensor!GyroRegisters) \ {"ACC_PWR_CTRL"} :
                          done.sensor.held[r] = Sensor!Wanted[r]
               /\ broken = {} => done.connected
<1> DEFINE acc == Sensor!initializeAcc(sensor)
           gyro == Sensor!initializeGyro(acc.sensor)
           done == Sensor!BmiInitialized
<1>1. /\ acc.sensor \in SensorStates /\ acc.sensor.spi
      /\ \A r \in Sensor!Ids : acc.sensor.held[r] = sensor.held[r]
      /\ acc.connected => /\ acc.sensor.held["ACC_CHIP_ID"] = "id"
                          /\ \A r \in {"ACC_CONF", "ACC_RANGE"} :
                                 acc.sensor.held[r] = Sensor!Wanted[r]
      /\ broken = {} => acc.connected
  BY AccConnects
<1> HIDE DEF acc
<1>2. /\ gyro.sensor \in SensorStates /\ gyro.sensor.spi
      /\ \A r \in Sensor!Registers \ DOMAIN Sensor!GyroWanted :
             gyro.sensor.held[r] = acc.sensor.held[r]
      /\ gyro.connected => \A r \in Sensor!GyroRegisters :
                               gyro.sensor.held[r] = Sensor!Wanted[r]
      /\ broken = {} => gyro.connected
  BY <1>1, GyroConnects
<1>3. done = [sensor |-> gyro.sensor, connected |-> acc.connected /\ gyro.connected]
  BY DEF Sensor!BmiInitialized, acc
<1> HIDE DEF gyro, done
<1>4. done.sensor = gyro.sensor /\ (done.connected <=> acc.connected /\ gyro.connected)
  BY <1>3, Zenon
<1>5. /\ Sensor!Ids \subseteq Sensor!Registers \ DOMAIN Sensor!GyroWanted
      /\ (Sensor!AccRegisters \ {"ACC_PWR_CTRL"}) =
             {"ACC_CHIP_ID"} \union {"ACC_CONF", "ACC_RANGE"}
      /\ Sensor!AccRegisters \subseteq Sensor!Registers \ DOMAIN Sensor!GyroWanted
      /\ Sensor!Wanted["ACC_CHIP_ID"] = "id"
  BY RegisterNames, WantedTyped DEF Sensor!Ids
<1>6. done.connected => \A r \in Sensor!AccRegisters \ {"ACC_PWR_CTRL"} :
                            done.sensor.held[r] = Sensor!Wanted[r]
  BY <1>1, <1>2, <1>4, <1>5
<1>7. QED
  BY <1>1, <1>2, <1>4, <1>5, <1>6 DEF done

(* An Mpu6500 keeps its identifier. *)
LEMMA MpuKeepsIds ==
    ASSUME SensorTyped
    PROVE  LET done == Sensor!MpuInitialized
           IN  /\ done.sensor \in SensorStates
               /\ \A r \in Sensor!Ids : done.sensor.held[r] = Sensor!PowerUp(r)
<1> DEFINE reset == [sensor EXCEPT !.held = [r \in Sensor!Registers |-> Sensor!PowerUp(r)]]
           set == Sensor!SetAndCheck(reset, DOMAIN Sensor!MpuWanted)
           done == Sensor!MpuInitialized
<1>1. /\ reset \in SensorStates
      /\ \A r \in Sensor!Registers : reset.held[r] = Sensor!PowerUp(r)
  BY PowerUpTyped DEF SensorStates, SensorTyped
<1> HIDE DEF reset
<1>2. /\ set \in SensorStates
      /\ \A r \in Sensor!Ids : set.held[r] = reset.held[r]
  BY <1>1, RegisterNames, WantedTyped, RegistersSet
<1>3. done.sensor = IF reset.held["WHO_AM_I"] # "id" THEN reset ELSE set
  BY DEF Sensor!MpuInitialized, reset
<1> HIDE DEF set, done
<1>4. QED
  BY <1>1, <1>2, <1>3, WantedTyped DEF done

(* So a sensor is connected and configured after every step. *)
LEMMA SensorConnects ==
    ASSUME SensorTyped, Sensor!ConnectedIsConfigured, Sensor!Next \/ UNCHANGED imuVars
    PROVE  SensorTyped' /\ Sensor!ConnectedIsConfigured'
<1>1. ASSUME UNCHANGED <<chip, broken, sensor>>,
             imuState' # "IMU_NOT_CONNECTED" <=> imuState # "IMU_NOT_CONNECTED"
      PROVE  SensorTyped' /\ Sensor!ConnectedIsConfigured'
  BY <1>1 DEF SensorTyped, Sensor!ConnectedIsConfigured, Sensor!PowerUp
<1>2. CASE Sensor!initialize
  <2> DEFINE done == IF chip = "bmi088" THEN Sensor!BmiInitialized ELSE Sensor!MpuInitialized
  <2>1. /\ sensor' = done.sensor /\ UNCHANGED <<chip, broken>>
        /\ imuState' = IF done.connected THEN "IMU_NOT_CALIBRATED" ELSE "IMU_NOT_CONNECTED"
    BY <1>2 DEF Sensor!initialize
  <2>2. /\ done.sensor \in SensorStates
        /\ \A r \in Sensor!Ids : done.sensor.held[r] = Sensor!PowerUp(r)
    BY BmiConnects, MpuKeepsIds DEF SensorTyped
  <2>3. chip = "bmi088" =>
            /\ done.connected =>
                   \A r \in (Sensor!AccRegisters \union Sensor!GyroRegisters) \ {"ACC_PWR_CTRL"} :
                       done.sensor.held[r] = Sensor!Wanted[r]
            /\ broken = {} => done.connected
    BY BmiConnects
  <2> HIDE DEF done
  <2>4. SensorTyped'
    BY <2>1, <2>2 DEF SensorTyped, Sensor!PowerUp
  <2>5. Sensor!ConnectedIsConfigured'
    BY <2>1, <2>3 DEF Sensor!ConnectedIsConfigured
  <2>6. QED
    BY <2>4, <2>5
<1>3. CASE Sensor!requestCalibration
  BY <1>1, <1>3 DEF Sensor!requestCalibration
<1>4. CASE Sensor!periodicIMUUpdate
  BY <1>1, <1>4 DEF Sensor!periodicIMUUpdate, Sensor!computeOffsets
<1>5. CASE Sensor!read
  BY <1>1, <1>5 DEF Sensor!read
<1>6. CASE Sensor!setGyroOffset
  BY <1>1, <1>6 DEF Sensor!setGyroOffset
<1>7. CASE UNCHANGED imuVars
  BY <1>1, <1>7 DEF imuVars
<1>8. QED
  BY <1>2, <1>3, <1>4, <1>5, <1>6, <1>7 DEF Sensor!Next

-----------------------------------------------------------------------------
(* The sums of the first samples of a sequence. *)
PartialSums(f, s) ==
    /\ f \in [0 .. Len(s) -> Int] /\ f[0] = 0
    /\ \A n \in 1 .. Len(s) : f[n] = f[n - 1] + s[n]

(* The last of them is the total of Imu, which there is no other function for. *)
LEMMA TotalIsSum ==
    ASSUME NEW s \in Seq(Int), NEW f, PartialSums(f, s)
    PROVE  Sensor!Total(s) = f[Len(s)]
<1> DEFINE Is(g) == g = [n \in 0 .. Len(s) |-> IF n = 0 THEN 0 ELSE g[n - 1] + s[n]]
           sum == CHOOSE g : Is(g)
<1>1. Len(s) \in Nat /\ (\A n \in 1 .. Len(s) : s[n] \in Int) /\ Len(s) \in 0 .. Len(s)
  OBVIOUS
<1>2. Is(f)
  <2>1. \A n \in 0 .. Len(s) : f[n] = IF n = 0 THEN 0 ELSE f[n - 1] + s[n]
    BY <1>1 DEF PartialSums
  <2>2. QED
    BY <2>1 DEF PartialSums
<1>3. Is(sum)
  BY <1>2, Zenon
<1>4. Sensor!Total(s) = sum[Len(s)]
  BY DEF Sensor!Total
<1> HIDE DEF sum
<1>5. \A n \in 0 .. Len(s) : sum[n] = IF n = 0 THEN 0 ELSE sum[n - 1] + s[n]
  BY <1>3, Zenon
<1> DEFINE T == {n \in 0 .. Len(s) : sum[n] # f[n]}
<1>6. T \in SUBSET Nat
  BY <1>1
<1>7. \A n \in T : n \in 0 .. Len(s) /\ sum[n] # f[n]
  OBVIOUS
<1>8. \A n \in 0 .. Len(s) : n \notin T => sum[n] = f[n]
  OBVIOUS
<1> HIDE DEF T
<1>9. T = {}
  <2> SUFFICES ASSUME T # {} PROVE FALSE
    OBVIOUS
  <2>1. PICK x \in T : \A y \in T : x <= y
    BY <1>6, Least, Zenon
  <2>2. x # 0
    BY <1>1, <1>5, <1>7 DEF PartialSums
  <2>3. x - 1 \in 0 .. Len(s) /\ sum[x - 1] = f[x - 1]
    BY <1>1, <1>7, <1>8, <2>1, <2>2
  <2>4. x \in 0 .. Len(s) /\ x \in 1 .. Len(s) /\ x # 0 /\ sum[x] # f[x]
    BY <1>1, <1>7, <2>1, <2>2
  <2>5. sum[x] = sum[x - 1] + s[x]
    BY <1>5, <2>4
  <2>6. f[x] = f[x - 1] + s[x]
    BY <2>4 DEF PartialSums
  <2>7. QED
    BY <2>3, <2>4, <2>5, <2>6
<1>10. QED
  BY <1>1, <1>4, <1>8, <1>9

(* One sample more. *)
LEMMA OneSumMore ==
    ASSUME NEW s \in Seq(Int), NEW f, PartialSums(f, s), NEW x \in Int
    PROVE  \E g : PartialSums(g, Append(s, x)) /\ g[Len(s) + 1] = f[Len(s)] + x
<1> DEFINE g == [n \in 0 .. Len(s) + 1 |-> IF n = Len(s) + 1 THEN f[Len(s)] + x ELSE f[n]]
           t == Append(s, x)
<1>1. /\ Len(s) \in Nat /\ Len(t) = Len(s) + 1
      /\ \A n \in 1 .. Len(t) : t[n] = IF n = Len(s) + 1 THEN x ELSE s[n]
  OBVIOUS
<1>2. /\ f \in [0 .. Len(s) -> Int] /\ f[0] = 0
      /\ \A n \in 1 .. Len(s) : f[n] = f[n - 1] + s[n]
  BY DEF PartialSums
<1>3. g \in [0 .. Len(s) + 1 -> Int] /\ g[0] = 0 /\ g[Len(s) + 1] = f[Len(s)] + x
  BY <1>1, <1>2, SMTT(30)
<1>4. ASSUME NEW n \in 1 .. Len(s) + 1 PROVE g[n] = g[n - 1] + t[n]
  <2>1. CASE n = Len(s) + 1
    BY <1>1, <1>2, <2>1
  <2>2. CASE n # Len(s) + 1
    <3>1. n \in 1 .. Len(s) /\ n - 1 \in 0 .. Len(s) /\ n \in 0 .. Len(s)
      BY <1>1, <2>2
    <3>2. g[n] = f[n] /\ g[n - 1] = f[n - 1] /\ t[n] = s[n]
      BY <1>1, <2>2, <3>1
    <3>3. QED
      BY <1>2, <3>1, <3>2
  <2>3. QED
    BY <2>1, <2>2
<1> HIDE DEF g, t
<1>5. PartialSums(g, t)
  BY <1>1, <1>3, <1>4 DEF PartialSums
<1>6. QED
  BY <1>3, <1>5 DEF t

(* While an IMU is calibrated its offset is the sum of the samples it took. *)
SensorSums ==
    /\ raw \in Int /\ imuOffset \in Int /\ taken \in Seq(Int) /\ calibrations \in Nat
    /\ calibrations = 0 => imuState \in {"IMU_NOT_CONNECTED", "IMU_NOT_CALIBRATED"}
    /\ imuState = "IMU_CALIBRATING" =>
           /\ calibrationSample = Len(taken) /\ Len(taken) < offsetSampleCount
           /\ \E f : PartialSums(f, taken) /\ imuOffset = f[Len(taken)]
    /\ imuState = "IMU_CALIBRATED" =>
           /\ Len(taken) = offsetSampleCount
           /\ \E f : PartialSums(f, taken) /\ imuOffset = f[Len(taken)] \div offsetSampleCount

LEMMA SensorTakesSamples ==
    ASSUME SensorSums, Sensor!Next \/ UNCHANGED imuVars
    PROVE  SensorSums'
<1> USE ImuAssumption
<1>1. CASE Sensor!initialize /\ calibrations = 0
  BY <1>1 DEF Sensor!initialize, SensorSums
<1>2. CASE Sensor!requestCalibration
  <2>1. PartialSums([n \in 0 .. 0 |-> 0], <<>>)
    BY DEF PartialSums
  <2>2. /\ imuOffset' = 0 /\ calibrationSample' = 0 /\ imuState' = "IMU_CALIBRATING"
        /\ taken' = <<>> /\ calibrations' = calibrations + 1 /\ raw' = raw
    BY <1>2 DEF Sensor!requestCalibration, Sensor!resetOffsets
  <2>3. QED
    BY <2>1, <2>2 DEF SensorSums
<1>3. CASE Sensor!periodicIMUUpdate
  <2> DEFINE sum == imuOffset + raw
             full == calibrationSample + 1 >= offsetSampleCount
  <2>1. PICK f : PartialSums(f, taken) /\ imuOffset = f[Len(taken)]
    BY <1>3 DEF SensorSums, Sensor!periodicIMUUpdate
  <2>2. /\ taken' = Append(taken, raw) /\ raw' = raw /\ calibrations' = calibrations
        /\ calibrationSample' = (IF full THEN 0 ELSE calibrationSample + 1)
        /\ imuOffset' = (IF full THEN sum \div offsetSampleCount ELSE sum)
        /\ imuState' = IF full THEN "IMU_CALIBRATED" ELSE "IMU_CALIBRATING"
    BY <1>3 DEF Sensor!periodicIMUUpdate, Sensor!computeOffsets, Sensor!Enough
  <2>3. PICK g : PartialSums(g, taken') /\ g[Len(taken) + 1] = f[Len(taken)] + raw
    BY <2>1, <2>2, OneSumMore DEF SensorSums
  <2>4. /\ Len(taken) \in Nat /\ taken' \in Seq(Int) /\ Len(taken') = Len(taken) + 1
        /\ calibrationSample = Len(taken) /\ Len(taken) < offsetSampleCount
    BY <1>3, <2>2 DEF SensorSums, Sensor!periodicIMUUpdate
  <2>5. sum \in Int /\ sum \div offsetSampleCount \in Int /\ sum = g[Len(taken')]
    BY <2>1, <2>3, <2>4, SMTT(30) DEF SensorSums
  <2>6. calibrations # 0
    BY <1>3 DEF SensorSums, Sensor!periodicIMUUpdate
  <2> HIDE DEF sum
  <2>7. CASE full
    BY <2>2, <2>3, <2>4, <2>5, <2>6, <2>7 DEF SensorSums
  <2>8. CASE ~full
    BY <2>2, <2>3, <2>4, <2>5, <2>6, <2>8 DEF SensorSums
  <2>9. QED
    BY <2>7, <2>8
<1>4. CASE Sensor!read
  BY <1>4 DEF Sensor!read, SensorSums
<1>5. CASE Sensor!setGyroOffset
  <2>1. imuState \notin {"IMU_CALIBRATING", "IMU_CALIBRATED"}
    BY <1>5 DEF Sensor!setGyroOffset, SensorSums
  <2>2. /\ imuOffset' \in Int
        /\ UNCHANGED <<imuState, calibrationSample, raw, taken, calibrations>>
    BY <1>5 DEF Sensor!setGyroOffset
  <2>3. QED
    BY <2>1, <2>2 DEF SensorSums
<1>6. CASE UNCHANGED imuVars
  BY <1>6 DEF imuVars, SensorSums
<1>7. QED
  BY <1>1, <1>2, <1>3, <1>4, <1>5, <1>6 DEF Sensor!Next

(* The invariant of an IMU, and what it says. *)
SensorInv == SensorTyped /\ Sensor!ConnectedIsConfigured /\ SensorSums

LEMMA SensorStart == Sensor!Init => SensorInv
<1> SUFFICES ASSUME Sensor!Init PROVE SensorInv
  OBVIOUS
<1>1. sensor = [held |-> [r \in Sensor!Registers |-> Sensor!PowerUp(r)], spi |-> FALSE]
  BY DEF Sensor!Init
<1>2. SensorTyped
  <2>1. sensor \in SensorStates
    BY <1>1, PowerUpTyped DEF SensorStates
  <2>2. \A r \in Sensor!Ids : sensor.held[r] = Sensor!PowerUp(r)
    BY <1>1, RegisterNames DEF Sensor!Ids
  <2>3. chip \in {"bmi088", "mpu6500"} /\ broken \subseteq Sensor!Registers
    BY DEF Sensor!Init, Sensor!Registers
  <2>4. QED
    BY <2>1, <2>2, <2>3 DEF SensorTyped
<1>3. Sensor!ConnectedIsConfigured
  BY <1>1 DEF Sensor!Init, Sensor!ConnectedIsConfigured
<1>4. SensorSums
  BY DEF Sensor!Init, SensorSums
<1>5. QED
  BY <1>2, <1>3, <1>4 DEF SensorInv

LEMMA SensorStep ==
    SensorInv /\ (Sensor!Next \/ UNCHANGED imuVars) => SensorInv'
BY SensorConnects, SensorTakesSamples DEF SensorInv

LEMMA SensorCalibrates ==
    ASSUME SensorInv PROVE Sensor!ConnectedIsConfigured /\ Sensor!OffsetIsMean
<1>1. ASSUME imuState = "IMU_CALIBRATED"
      PROVE  imuOffset = Sensor!Total(taken) \div offsetSampleCount
  <2>1. PICK f : PartialSums(f, taken) /\ imuOffset = f[Len(taken)] \div offsetSampleCount
    BY <1>1 DEF SensorInv, SensorSums
  <2>2. Sensor!Total(taken) = f[Len(taken)]
    BY <2>1, TotalIsSum DEF SensorInv, SensorSums
  <2>3. QED
    BY <2>1, <2>2
<1>2. QED
  BY <1>1 DEF SensorInv, SensorSums, Sensor!OffsetIsMean

-----------------------------------------------------------------------------
Registers == INSTANCE ImuRegisters

registerVars == <<model, settings, written, applied, mounting, measured, imuData, calibratedAt,
                  reads>>

(* The bits of a number of four bits. *)
LEMMA FourBits ==
    ASSUME NEW n \in 0 .. 15
    PROVE  /\ Registers!Bits(n) \subseteq 0 .. 3
           /\ 0 \in Registers!Bits(n) <=> n % 2 = 1
           /\ 1 \in Registers!Bits(n) <=> (n \div 2) % 2 = 1
           /\ 2 \in Registers!Bits(n) <=> (n \div 4) % 2 = 1
           /\ 3 \in Registers!Bits(n) <=> (n \div 8) % 2 = 1
<1>1. /\ Registers!PowerOf2[0 + 1] = 1 /\ Registers!PowerOf2[1 + 1] = 2
      /\ Registers!PowerOf2[2 + 1] = 4 /\ Registers!PowerOf2[3 + 1] = 8
      /\ Registers!PowerOf2[4 + 1] = 16 /\ Registers!PowerOf2[5 + 1] = 32
      /\ Registers!PowerOf2[6 + 1] = 64 /\ Registers!PowerOf2[7 + 1] = 128
  BY DEF Registers!PowerOf2
<1>2. n \div 16 = 0 /\ n \div 32 = 0 /\ n \div 64 = 0 /\ n \div 128 = 0 /\ 0 % 2 = 0
  OBVIOUS
<1>3. n \div 1 = n
  OBVIOUS
<1>4. ASSUME NEW i \in Registers!Bits(n) PROVE i \in 0 .. 3
  <2>1. i \in 0 .. 7 /\ (n \div Registers!PowerOf2[i + 1]) % 2 = 1
    BY DEF Registers!Bits
  <2>2. i # 4 /\ i # 5 /\ i # 6 /\ i # 7
    BY <1>1, <1>2, <2>1
  <2>3. QED
    BY <2>1, <2>2
<1>5. \A i \in 0 .. 7 : i \in Registers!Bits(n) <=> (n \div Registers!PowerOf2[i + 1]) % 2 = 1
  BY DEF Registers!Bits
<1>6. /\ 0 \in Registers!Bits(n) <=> (n \div 1) % 2 = 1
      /\ 1 \in Registers!Bits(n) <=> (n \div 2) % 2 = 1
      /\ 2 \in Registers!Bits(n) <=> (n \div 4) % 2 = 1
      /\ 3 \in Registers!Bits(n) <=> (n \div 8) % 2 = 1
  BY <1>1, <1>5
<1>7. QED
  BY <1>3, <1>4, <1>6

(* Four bits of a register, from one of its bits on, are a number of four
   bits, or of as many fewer as it needs. *)
LEMMA FieldOf ==
    ASSUME NEW n \in 0 .. 15, NEW bits, NEW from \in 0 .. 4, NEW to \in 0 .. 7,
           to = from + 3 \/ (to = from + 2 /\ n < 8),
           \A i \in 0 .. to - from : from + i \in bits <=> i \in Registers!Bits(n)
    PROVE  Registers!Field(bits, from, to) = n
<1> DEFINE b0 == n % 2
           b1 == (n \div 2) % 2
           b2 == (n \div 4) % 2
           b3 == (n \div 8) % 2
<1>1. /\ b0 \in 0 .. 1 /\ b1 \in 0 .. 1 /\ b2 \in 0 .. 1 /\ b3 \in 0 .. 1
      /\ n = b0 + 2 * b1 + 4 * b2 + 8 * b3
      /\ n < 8 => b3 = 0
  OBVIOUS
<1>2. /\ 0 \in Registers!Bits(n) <=> b0 = 1
      /\ 1 \in Registers!Bits(n) <=> b1 = 1
      /\ 2 \in Registers!Bits(n) <=> b2 = 1
      /\ 3 \in Registers!Bits(n) <=> b3 = 1
  BY FourBits
<1> HIDE DEF b0, b1, b2, b3
<1>3. /\ Registers!PowerOf2[0 + 1] = 1 /\ Registers!PowerOf2[1 + 1] = 2
      /\ Registers!PowerOf2[2 + 1] = 4 /\ Registers!PowerOf2[3 + 1] = 8
  BY DEF Registers!PowerOf2
<1>4. /\ (from + 0 \in bits /\ from + 0 <= to) <=> b0 = 1
      /\ (from + 1 \in bits /\ from + 1 <= to) <=> b1 = 1
      /\ (from + 2 \in bits /\ from + 2 <= to) <=> b2 = 1
      /\ (from + 3 \in bits /\ from + 3 <= to) <=> b3 = 1
  BY <1>1, <1>2
<1>5. QED
  BY <1>1, <1>3, <1>4 DEF Registers!Field

Settings == [accOversampling : DOMAIN Registers!AccBandwidth,
             accOutputRate : DOMAIN Registers!AccOutputRate,
             gyroOutputRate : DOMAIN Registers!GyroBandwidth]

LEMMA SettingsAreNumbers ==
    ASSUME NEW s \in Settings
    PROVE  /\ Registers!AccBandwidth[s.accOversampling] \in 0 .. 15
           /\ Registers!AccOutputRate[s.accOutputRate] \in 0 .. 15
           /\ Registers!GyroBandwidth[s.gyroOutputRate] \in 0 .. 7
<1>1. \A x \in DOMAIN Registers!AccBandwidth : Registers!AccBandwidth[x] \in 0 .. 15
  BY DEF Registers!AccBandwidth
<1>2. \A x \in DOMAIN Registers!AccOutputRate : Registers!AccOutputRate[x] \in 0 .. 15
  BY DEF Registers!AccOutputRate
<1>3. \A x \in DOMAIN Registers!GyroBandwidth : Registers!GyroBandwidth[x] \in 0 .. 7
  BY DEF Registers!GyroBandwidth
<1>4. QED
  BY <1>1, <1>2, <1>3 DEF Settings

(* The registers of a Bmi088 hold what was chosen, in their fields. *)
LEMMA BmiFields ==
    ASSUME NEW s \in Settings
    PROVE  LET w == Registers!BmiWrites(s)
           IN  /\ Registers!Field(w.acc["ACC_CONF"], 4, 7)
                      = Registers!AccBandwidth[s.accOversampling]
               /\ Registers!Field(w.acc["ACC_CONF"], 0, 3)
                      = Registers!AccOutputRate[s.accOutputRate]
               /\ Registers!Field(w.gyro["GYRO_BANDWIDTH"], 0, 2)
                      = Registers!GyroBandwidth[s.gyroOutputRate]
               /\ Registers!Field(w.acc["ACC_RANGE"], 0, 1) = 0
               /\ Registers!Field(w.gyro["GYRO_RANGE"], 0, 2) = 0
<1> DEFINE k == Registers!AccBandwidth[s.accOversampling]
           j == Registers!AccOutputRate[s.accOutputRate]
           g == Registers!GyroBandwidth[s.gyroOutputRate]
           w == Registers!BmiWrites(s)
           conf == {i + 4 : i \in Registers!Bits(k)} \union Registers!Bits(j)
           bandwidth == Registers!Bits(g) \union {7}
<1>1. k \in 0 .. 15 /\ j \in 0 .. 15 /\ g \in 0 .. 7
  BY SettingsAreNumbers
<1>2. /\ w.acc["ACC_CONF"] = conf
      /\ w.acc["ACC_RANGE"] = Registers!Bits(0)
      /\ w.gyro["GYRO_BANDWIDTH"] = bandwidth
      /\ w.gyro["GYRO_RANGE"] = Registers!Bits(0)
  BY DEF Registers!BmiWrites, Registers!AccConf, Registers!BIT_SHIFT, Registers!AccRange,
         Registers!GyroRange
<1> HIDE DEF k, j, g, w
<1>3. Registers!Bits(k) \subseteq 0 .. 3 /\ Registers!Bits(j) \subseteq 0 .. 3
      /\ Registers!Bits(g) \subseteq 0 .. 3
  BY <1>1, FourBits
<1>4. /\ \A i \in 0 .. 3 : 4 + i \in conf <=> i \in Registers!Bits(k)
      /\ \A i \in 0 .. 3 : 0 + i \in conf <=> i \in Registers!Bits(j)
      /\ \A i \in 0 .. 2 : 0 + i \in bandwidth <=> i \in Registers!Bits(g)
  BY <1>3
<1> HIDE DEF conf, bandwidth
<1>5. Registers!Field(conf, 4, 7) = k
  BY <1>1, <1>4, FieldOf
<1>6. Registers!Field(conf, 0, 3) = j
  BY <1>1, <1>4, FieldOf
<1>7. Registers!Field(bandwidth, 0, 2) = g
  BY <1>1, <1>4, FieldOf
<1>8. ASSUME NEW i PROVE i \notin Registers!Bits(0)
  <2>1. Registers!Bits(0) \subseteq 0 .. 3
    BY FourBits
  <2>2. 0 % 2 = 0 /\ 0 \div 2 = 0 /\ 0 \div 4 = 0 /\ 0 \div 8 = 0
    OBVIOUS
  <2>3. /\ 0 \notin Registers!Bits(0) /\ 1 \notin Registers!Bits(0)
        /\ 2 \notin Registers!Bits(0) /\ 3 \notin Registers!Bits(0)
    BY <2>2, FourBits
  <2>4. QED
    BY <2>1, <2>3
<1>9. /\ Registers!Field(Registers!Bits(0), 0, 1) = 0
      /\ Registers!Field(Registers!Bits(0), 0, 2) = 0
  BY <1>8 DEF Registers!Field
<1>10. QED
  BY <1>2, <1>5, <1>6, <1>7, <1>9 DEF k, j, g, w

(* And those of an Mpu6500 what its scales are made for. *)
LEMMA MpuFields ==
    LET w == Registers!MpuWrites
    IN  /\ Registers!Field(w.ACCEL_CONFIG, 3, 4) = 2
        /\ Registers!Field(w.GYRO_CONFIG, 3, 4) = 3
        /\ Registers!Field(w.GYRO_CONFIG, 0, 1) = 0
        /\ Registers!Field(w.CONFIG, 0, 2) = 2
<1> DEFINE w == Registers!MpuWrites
<1>1. /\ w.ACCEL_CONFIG = Registers!MPU6500_ACCEL_CONFIG_DATA
      /\ w.GYRO_CONFIG = Registers!MPU6500_GYRO_CONFIG_DATA
      /\ w.CONFIG = Registers!MPU6500_CONFIG_DATA
  BY DEF Registers!MpuWrites
<1>2. ASSUME NEW i
      PROVE  /\ i \in Registers!Bits(2) <=> i = 1
             /\ i \in Registers!Bits(3) <=> i = 0 \/ i = 1
             /\ i \notin Registers!Bits(0)
  <2>1. /\ Registers!Bits(2) \subseteq 0 .. 3 /\ Registers!Bits(3) \subseteq 0 .. 3
        /\ Registers!Bits(0) \subseteq 0 .. 3
    BY FourBits
  <2>2. /\ 0 \notin Registers!Bits(2) /\ 1 \in Registers!Bits(2)
        /\ 2 \notin Registers!Bits(2) /\ 3 \notin Registers!Bits(2)
    BY FourBits
  <2>3. /\ 0 \in Registers!Bits(3) /\ 1 \in Registers!Bits(3)
        /\ 2 \notin Registers!Bits(3) /\ 3 \notin Registers!Bits(3)
    BY FourBits
  <2>4. /\ 0 \notin Registers!Bits(0) /\ 1 \notin Registers!Bits(0)
        /\ 2 \notin Registers!Bits(0) /\ 3 \notin Registers!Bits(0)
    BY FourBits
  <2>5. QED
    BY <2>1, <2>2, <2>3, <2>4
<1>3. \A i \in 0 .. 7 : i \in w.ACCEL_CONFIG <=> i = 4
  BY <1>1, <1>2
     DEF Registers!MPU6500_ACCEL_CONFIG_DATA, Registers!BIT_MASK, Registers!BIT_SHIFT
<1>4. \A i \in 0 .. 7 : i \in w.GYRO_CONFIG <=> i = 3 \/ i = 4
  BY <1>1, <1>2
     DEF Registers!MPU6500_GYRO_CONFIG_DATA, Registers!BIT_MASK, Registers!BIT_SHIFT
<1>5. \A i \in 0 .. 7 : i \in w.CONFIG <=> i = 1
  BY <1>1, <1>2
     DEF Registers!MPU6500_CONFIG_DATA, Registers!BIT_MASK, Registers!BIT_SHIFT
<1> HIDE DEF w
<1>6. /\ Registers!PowerOf2[0 + 1] = 1 /\ Registers!PowerOf2[1 + 1] = 2
  BY DEF Registers!PowerOf2
<1>7. Registers!Field(w.ACCEL_CONFIG, 3, 4) = 2
  BY <1>3, <1>6 DEF Registers!Field
<1>8. Registers!Field(w.GYRO_CONFIG, 3, 4) = 3 /\ Registers!Field(w.GYRO_CONFIG, 0, 1) = 0
  BY <1>4, <1>6 DEF Registers!Field
<1>9. Registers!Field(w.CONFIG, 0, 2) = 2
  BY <1>5, <1>6 DEF Registers!Field
<1>10. QED
  BY <1>7, <1>8, <1>9 DEF w

(* What was written to the chip follows from what was chosen before. *)
RegistersWritten ==
    /\ model \in {"bmi088", "mpu6500"} /\ settings \in Settings
    /\ written # <<>> =>
           /\ applied \in Settings
           /\ written = IF model = "bmi088" THEN Registers!BmiWrites(applied)
                        ELSE Registers!MpuWrites

LEMMA WrittenFits ==
    ASSUME RegistersWritten PROVE Registers!RangesFitScales
<1> SUFFICES ASSUME written # <<>> PROVE Registers!RangesFitScales
  BY DEF Registers!RangesFitScales
<1>1. /\ Registers!PowerOf2[0 + 1] = 1 /\ Registers!PowerOf2[2 + 1] = 4
      /\ Registers!PowerOf2[3 + 1] = 8
  BY DEF Registers!PowerOf2
<1>2. CASE model = "bmi088"
  <2>1. applied \in Settings /\ written = Registers!BmiWrites(applied)
    BY <1>2 DEF RegistersWritten
  <2>2. /\ Registers!Field(written.acc["ACC_CONF"], 4, 7)
               = Registers!AccBandwidth[applied.accOversampling]
        /\ Registers!Field(written.acc["ACC_CONF"], 0, 3)
               = Registers!AccOutputRate[applied.accOutputRate]
        /\ Registers!Field(written.gyro["GYRO_BANDWIDTH"], 0, 2)
               = Registers!GyroBandwidth[applied.gyroOutputRate]
        /\ Registers!Field(written.acc["ACC_RANGE"], 0, 1) = 0
        /\ Registers!Field(written.gyro["GYRO_RANGE"], 0, 2) = 0
    BY <2>1, BmiFields
  <2>3. 2000 \div 1 = 2000
    OBVIOUS
  <2>4. QED
    BY <1>1, <1>2, <2>2, <2>3 DEF Registers!RangesFitScales
<1>3. CASE model # "bmi088"
  <2>1. written = Registers!MpuWrites
    BY <1>3 DEF RegistersWritten
  <2>2. /\ Registers!Field(written.ACCEL_CONFIG, 3, 4) = 2
        /\ Registers!Field(written.GYRO_CONFIG, 3, 4) = 3
        /\ Registers!Field(written.GYRO_CONFIG, 0, 1) = 0
        /\ Registers!Field(written.CONFIG, 0, 2) = 2
    BY <2>1, MpuFields
  <2>3. (8 * 250 * 16384) \div 1000 = 32768 /\ 4 * 2 * 4096 = 32768
    OBVIOUS
  <2>4. QED
    BY <1>1, <1>3, <2>2, <2>3 DEF Registers!RangesFitScales
<1>4. QED
  BY <1>2, <1>3

LEMMA RegistersWrittenStep ==
    ASSUME RegistersWritten, Registers!Next \/ UNCHANGED registerVars
    PROVE  RegistersWritten'
<1>1. ASSUME NEW s, NEW x \in DOMAIN Registers!AccBandwidth, s = [settings EXCEPT !.accOversampling = x]
      PROVE  s \in Settings
  BY <1>1 DEF RegistersWritten, Settings
<1>2. ASSUME NEW s, NEW x \in DOMAIN Registers!AccOutputRate, s = [settings EXCEPT !.accOutputRate = x]
      PROVE  s \in Settings
  BY <1>2 DEF RegistersWritten, Settings
<1>3. ASSUME NEW s, NEW x \in DOMAIN Registers!GyroBandwidth, s = [settings EXCEPT !.gyroOutputRate = x]
      PROVE  s \in Settings
  BY <1>3 DEF RegistersWritten, Settings
<1>4. CASE Registers!setSettings
  <2>1. settings' \in Settings /\ UNCHANGED <<model, written, applied>>
    BY <1>1, <1>2, <1>3, <1>4 DEF Registers!setSettings
  <2>2. QED
    BY <2>1 DEF RegistersWritten
<1>5. CASE Registers!initialize
  BY <1>5 DEF Registers!initialize, RegistersWritten
<1>6. CASE Registers!Mount
  BY <1>6 DEF Registers!Mount, RegistersWritten
<1>7. CASE Registers!read
  BY <1>7 DEF Registers!read, RegistersWritten
<1>8. CASE Registers!calibrate
  BY <1>8 DEF Registers!calibrate, RegistersWritten
<1>9. CASE UNCHANGED registerVars
  BY <1>9 DEF registerVars, RegistersWritten
<1>10. QED
  BY <1>4, <1>5, <1>6, <1>7, <1>8, <1>9 DEF Registers!Next

-----------------------------------------------------------------------------
(* The two bytes of a word are read as that word, with its sign. *)
LEMMA BytesOfWord ==
    ASSUME NEW w \in Int, -32768 <= w, w <= 32767
    PROVE  Registers!Int16(Registers!Low(w), Registers!High(w)) = w
<1> DEFINE u == w % 65536
           l == w % 256
           h == u \div 256
           k == u % 256
           q == w \div 65536
           p == w \div 256
<1>1. q \in Int /\ u \in Int /\ 0 <= u /\ u < 65536 /\ w = 65536 * q + u
  BY Division
<1>2. p \in Int /\ l \in Int /\ 0 <= l /\ l < 256 /\ w = 256 * p + l
  BY Division
<1> HIDE DEF u, l, q, p
<1>3. h \in Int /\ k \in Int /\ 0 <= k /\ k < 256 /\ u = 256 * h + k
  BY <1>1, Division
<1> HIDE DEF h, k
<1>4. l - k = 256 * (256 * q + h - p)
  BY <1>1, <1>2, <1>3
<1>5. l = k
  BY <1>1, <1>2, <1>3, <1>4
<1>6. u = IF w >= 0 THEN w ELSE w + 65536
  BY <1>1
<1>7. Registers!Low(w) = l /\ Registers!High(w) = h
  BY DEF Registers!Low, Registers!High, l, h, u
<1>8. QED
  BY <1>3, <1>5, <1>6, <1>7 DEF Registers!Int16

(* The temperature of a Bmi088: eleven bits in two bytes. *)
LEMMA BytesOfTemperature ==
    ASSUME NEW t \in Int, -1024 <= t, t <= 1023
    PROVE  Registers!parseTemp((t % 2048) \div 8, ((t % 2048) % 8) * 32) = t
<1> DEFINE u == t % 2048
           h == u \div 8
           l == u % 8
           q == t \div 2048
           n == l * 32
           m == n % 32
           k == n \div 32
<1>1. q \in Int /\ u \in Int /\ 0 <= u /\ u < 2048 /\ t = 2048 * q + u
  BY Division
<1> HIDE DEF u, q
<1>2. h \in Int /\ l \in 0 .. 7 /\ u = 8 * h + l
  BY <1>1, Division
<1> HIDE DEF h, l
<1>3. k \in Int /\ m \in 0 .. 31 /\ n = 32 * k + m
  BY <1>2, Division
<1> HIDE DEF k, m
<1>4. k = l
  BY <1>2, <1>3
<1>5. u = IF t >= 0 THEN t ELSE t + 2048
  BY <1>1
<1>6. Registers!parseTemp(h, n) = t
  BY <1>2, <1>4, <1>5 DEF Registers!parseTemp, k
<1>7. QED
  BY <1>6 DEF h, l, u, n

(* The registers of the chips, and a burst of them. *)
LEMMA AccRegisters ==
    ASSUME NEW m
    PROVE  LET at == Registers!AccMemory(m)
               u == m.temperature % 2048
           IN  /\ at[18] = Registers!Low(m.acc[1]) /\ at[19] = Registers!High(m.acc[1])
               /\ at[20] = Registers!Low(m.acc[2]) /\ at[21] = Registers!High(m.acc[2])
               /\ at[22] = Registers!Low(m.acc[3]) /\ at[23] = Registers!High(m.acc[3])
               /\ at[34] = u \div 8 /\ at[35] = (u % 8) * 32
<1>1. Registers!AccRegister["ACC_X_LSB"] = 18 /\ Registers!AccRegister["TEMP_MSB"] = 34
  BY DEF Registers!AccRegister
<1> DEFINE u == m.temperature % 2048
           at == Registers!AccMemory(m)
<1>2. \A a \in 18 .. 35 :
          at[a] = IF a - 18 < 6
                  THEN IF (a - 18) % 2 = 0 THEN Registers!Low(m.acc[(a - 18) \div 2 + 1])
                       ELSE Registers!High(m.acc[(a - 18) \div 2 + 1])
                  ELSE IF a = 34 THEN u \div 8 ELSE (u % 8) * 32
  BY <1>1 DEF Registers!AccMemory
<1> HIDE DEF at, u
<1>3. /\ at[18] = Registers!Low(m.acc[1]) /\ at[19] = Registers!High(m.acc[1])
      /\ at[20] = Registers!Low(m.acc[2]) /\ at[21] = Registers!High(m.acc[2])
  BY <1>2
<1>4. /\ at[22] = Registers!Low(m.acc[3]) /\ at[23] = Registers!High(m.acc[3])
      /\ at[34] = u \div 8 /\ at[35] = (u % 8) * 32
  BY <1>2
<1>5. QED
  BY <1>3, <1>4 DEF at, u

LEMMA GyroRegisters ==
    ASSUME NEW m
    PROVE  LET at == Registers!GyroMemory(m)
           IN  /\ at[2] = Registers!Low(m.gyro[1]) /\ at[3] = Registers!High(m.gyro[1])
               /\ at[4] = Registers!Low(m.gyro[2]) /\ at[5] = Registers!High(m.gyro[2])
               /\ at[6] = Registers!Low(m.gyro[3]) /\ at[7] = Registers!High(m.gyro[3])
<1>1. Registers!GyroRegister["RATE_X_LSB"] = 2
  BY DEF Registers!GyroRegister
<1> DEFINE at == Registers!GyroMemory(m)
<1>2. \A a \in 2 .. 7 :
          at[a] = IF (a - 2) % 2 = 0 THEN Registers!Low(m.gyro[(a - 2) \div 2 + 1])
                  ELSE Registers!High(m.gyro[(a - 2) \div 2 + 1])
  BY <1>1 DEF Registers!GyroMemory
<1> HIDE DEF at
<1>3. QED
  BY <1>2 DEF at

LEMMA MpuRegisters ==
    ASSUME NEW m
    PROVE  LET at == Registers!MpuMemory(m)
           IN  /\ at[59] = Registers!High(m.acc[1]) /\ at[60] = Registers!Low(m.acc[1])
               /\ at[61] = Registers!High(m.acc[2]) /\ at[62] = Registers!Low(m.acc[2])
               /\ at[63] = Registers!High(m.acc[3]) /\ at[64] = Registers!Low(m.acc[3])
               /\ at[65] = Registers!High(m.temperature) /\ at[66] = Registers!Low(m.temperature)
               /\ at[67] = Registers!High(m.gyro[1]) /\ at[68] = Registers!Low(m.gyro[1])
               /\ at[69] = Registers!High(m.gyro[2]) /\ at[70] = Registers!Low(m.gyro[2])
               /\ at[71] = Registers!High(m.gyro[3]) /\ at[72] = Registers!Low(m.gyro[3])
<1>1. Registers!MpuRegister["ACCEL_XOUT_H"] = 59 /\ Registers!MpuRegister["GYRO_XOUT_H"] = 67
  BY DEF Registers!MpuRegister
<1> DEFINE at == Registers!MpuMemory(m)
           Word(a) == IF (a - 59) \div 2 < 3 THEN m.acc[(a - 59) \div 2 + 1]
                      ELSE IF a < 67 THEN m.temperature ELSE m.gyro[(a - 59) \div 2 - 3]
<1>2. \A a \in 59 .. 72 :
          at[a] = IF (a - 59) % 2 = 0 THEN Registers!High(Word(a)) ELSE Registers!Low(Word(a))
  BY <1>1 DEF Registers!MpuMemory
<1> HIDE DEF at
<1>3. /\ Word(59) = m.acc[1] /\ Word(60) = m.acc[1] /\ Word(61) = m.acc[2]
      /\ Word(62) = m.acc[2] /\ Word(63) = m.acc[3] /\ Word(64) = m.acc[3]
      /\ Word(65) = m.temperature /\ Word(66) = m.temperature
  OBVIOUS
<1>4. /\ Word(67) = m.gyro[1] /\ Word(68) = m.gyro[1] /\ Word(69) = m.gyro[2]
      /\ Word(70) = m.gyro[2] /\ Word(71) = m.gyro[3] /\ Word(72) = m.gyro[3]
  OBVIOUS
<1> HIDE DEF Word
<1>5. /\ at[59] = Registers!High(m.acc[1]) /\ at[60] = Registers!Low(m.acc[1])
      /\ at[61] = Registers!High(m.acc[2]) /\ at[62] = Registers!Low(m.acc[2])
      /\ at[63] = Registers!High(m.acc[3]) /\ at[64] = Registers!Low(m.acc[3])
      /\ at[65] = Registers!High(m.temperature) /\ at[66] = Registers!Low(m.temperature)
  BY <1>2, <1>3
<1>6. /\ at[67] = Registers!High(m.gyro[1]) /\ at[68] = Registers!Low(m.gyro[1])
      /\ at[69] = Registers!High(m.gyro[2]) /\ at[70] = Registers!Low(m.gyro[2])
      /\ at[71] = Registers!High(m.gyro[3]) /\ at[72] = Registers!Low(m.gyro[3])
  BY <1>2, <1>4
<1>7. QED
  BY <1>5, <1>6 DEF at

(* What is measured: words, and a temperature of eleven bits. *)
IsWord(w) == w \in Int /\ -32768 <= w /\ w <= 32767

IsMeasured(m) ==
    /\ IsWord(m.acc[1]) /\ IsWord(m.acc[2]) /\ IsWord(m.acc[3])
    /\ IsWord(m.gyro[1]) /\ IsWord(m.gyro[2]) /\ IsWord(m.gyro[3])
    /\ m.temperature \in Int /\ -1024 <= m.temperature /\ m.temperature <= 1023

Axes(v) == <<v[1], v[2], v[3]>>

(* Both sensors read what is measured, but for a temperature below zero. *)
LEMMA BmiReadsMeasured ==
    ASSUME NEW m, IsMeasured(m)
    PROVE  /\ Registers!BmiRead(m).acc = Axes(m.acc)
           /\ Registers!BmiRead(m).gyro = Axes(m.gyro)
           /\ Registers!BmiRead(m).temperature = m.temperature
<1> DEFINE acc == Registers!AccMemory(m)
           gyro == Registers!GyroMemory(m)
<1>1. /\ Registers!AccRegister["ACC_X_LSB"] = 18 /\ Registers!AccRegister["TEMP_MSB"] = 34
      /\ Registers!GyroRegister["RATE_X_LSB"] = 2
  BY DEF Registers!AccRegister, Registers!GyroRegister
<1> HIDE DEF acc, gyro
<1>2. Registers!BmiRead(m) =
          [acc |-> <<Registers!Int16(acc[18], acc[19]), Registers!Int16(acc[20], acc[21]),
                     Registers!Int16(acc[22], acc[23])>>,
           gyro |-> <<Registers!Int16(gyro[2], gyro[3]), Registers!Int16(gyro[4], gyro[5]),
                      Registers!Int16(gyro[6], gyro[7])>>,
           temperature |-> Registers!parseTemp(acc[34], acc[35])]
  BY <1>1 DEF Registers!BmiRead, Registers!Burst, Registers!bigEndianInt16ToFloat, acc, gyro
<1>3. /\ Registers!Int16(acc[18], acc[19]) = m.acc[1]
      /\ Registers!Int16(acc[20], acc[21]) = m.acc[2]
      /\ Registers!Int16(acc[22], acc[23]) = m.acc[3]
  BY AccRegisters, BytesOfWord DEF acc, IsMeasured, IsWord
<1>4. /\ Registers!Int16(gyro[2], gyro[3]) = m.gyro[1]
      /\ Registers!Int16(gyro[4], gyro[5]) = m.gyro[2]
      /\ Registers!Int16(gyro[6], gyro[7]) = m.gyro[3]
  BY GyroRegisters, BytesOfWord DEF gyro, IsMeasured, IsWord
<1>5. Registers!parseTemp(acc[34], acc[35]) = m.temperature
  BY AccRegisters, BytesOfTemperature DEF acc, IsMeasured
<1>6. QED
  BY <1>2, <1>3, <1>4, <1>5 DEF Axes

LEMMA MpuReadsMeasured ==
    ASSUME NEW m, IsMeasured(m)
    PROVE  /\ Registers!MpuRead(m).acc = Axes(m.acc)
           /\ Registers!MpuRead(m).gyro = Axes(m.gyro)
           /\ m.temperature >= 0 => Registers!MpuRead(m).temperature = m.temperature
<1> DEFINE at == Registers!MpuMemory(m)
<1>1. Registers!MpuRegister["ACCEL_XOUT_H"] = 59
  BY DEF Registers!MpuRegister
<1> HIDE DEF at
<1>2. Registers!MpuRead(m) =
          [acc |-> <<Registers!Int16(at[60], at[59]), Registers!Int16(at[62], at[61]),
                     Registers!Int16(at[64], at[63])>>,
           gyro |-> <<Registers!Int16(at[68], at[67]), Registers!Int16(at[70], at[69]),
                      Registers!Int16(at[72], at[71])>>,
           temperature |-> at[65] * 256 + at[66]]
  BY <1>1 DEF Registers!MpuRead, Registers!Burst, Registers!LITTLE_ENDIAN_INT16_TO_FLOAT, at
<1>3. /\ Registers!Int16(at[60], at[59]) = m.acc[1]
      /\ Registers!Int16(at[62], at[61]) = m.acc[2]
      /\ Registers!Int16(at[64], at[63]) = m.acc[3]
  BY MpuRegisters, BytesOfWord DEF at, IsMeasured, IsWord
<1>4. /\ Registers!Int16(at[68], at[67]) = m.gyro[1]
      /\ Registers!Int16(at[70], at[69]) = m.gyro[2]
      /\ Registers!Int16(at[72], at[71]) = m.gyro[3]
  BY MpuRegisters, BytesOfWord DEF at, IsMeasured, IsWord
<1>5. ASSUME m.temperature >= 0 PROVE at[65] * 256 + at[66] = m.temperature
  <2>1. at[65] = Registers!High(m.temperature) /\ at[66] = Registers!Low(m.temperature)
    BY MpuRegisters DEF at
  <2> DEFINE t == m.temperature
  <2>2. t \in Int /\ 0 <= t /\ t <= 1023
    BY <1>5 DEF IsMeasured
  <2> HIDE DEF t
  <2>3. /\ t \div 256 \in Int /\ t % 256 \in Int
        /\ t = 256 * (t \div 256) + (t % 256)
    BY <2>2, Division
  <2>4. t % 65536 = t
    BY <2>2
  <2>5. QED
    BY <2>1, <2>3, <2>4 DEF Registers!High, Registers!Low, t
<1>6. QED
  BY <1>2, <1>3, <1>4, <1>5 DEF Axes

(* The transform is a rotation, which is applied as it was given: its inverse
   turns the axes, and the reading back. *)
Mounted == \E r : mounting = Registers!Frames!StaticTransform(Registers!Frames!Zero, r)

LEMMA MountingTurns ==
    ASSUME Mounted, NEW v, NEW w, w = Axes(v)
    PROVE  Registers!applyMountingTransformToRaw(w)
               = Registers!Frames!On(mounting.rotation, v)
<1>1. PICK r : mounting = Registers!Frames!StaticTransform(Registers!Frames!Zero, r)
  BY DEF Mounted
<1> DEFINE t == Registers!Frames!transpose(r)
           n == Registers!Frames!Negative(Registers!Frames!On(t, Registers!Frames!Zero))
<1>2. /\ mounting.dynamic = FALSE /\ mounting.rotation = r /\ mounting.tRotation = t
      /\ mounting.translation = Registers!Frames!Zero
  BY <1>1 DEF Registers!Frames!StaticTransform, Registers!Frames!Record
<1>3. Registers!setMountingTransform(mounting) = Registers!Frames!StaticTransform(n, t)
  BY <1>2 DEF Registers!setMountingTransform, Registers!Frames!getInverse
<1>4. Registers!setMountingTransform(mounting).tRotation = Registers!Frames!transpose(t)
  BY <1>3 DEF Registers!Frames!StaticTransform, Registers!Frames!Record
<1>5. Registers!applyMountingTransformToRaw(w)
          = Registers!Frames!On(Registers!Frames!transpose(t), w)
  BY <1>4 DEF Registers!applyMountingTransformToRaw
<1>6. w[1] = v[1] /\ w[2] = v[2] /\ w[3] = v[3]
  BY DEF Axes
<1>7. ASSUME NEW i \in 1 .. 3, NEW j \in 1 .. 3
      PROVE  Registers!Frames!transpose(t)[i][j] = r[i][j]
  BY DEF Registers!Frames!transpose
<1> HIDE DEF t
<1>8. QED
  BY <1>2, <1>5, <1>6, <1>7 DEF Registers!Frames!On, Registers!Frames!dot

RegistersRead ==
    /\ imuData = [accRaw |-> imuData.accRaw, gyroRaw |-> imuData.gyroRaw,
                  accOffsetRaw |-> imuData.accOffsetRaw, accCorrected |-> imuData.accCorrected,
                  temperature |-> imuData.temperature]
    /\ Mounted /\ reads \in Nat
    /\ model \in {"bmi088", "mpu6500"}
    /\ Registers!ReadsWhatIsMeasured

(* The offset of an Mpu6500 that was calibrated level is none, and what it
   corrects is nothing. *)
RegistersLevel ==
    model = "mpu6500" /\ calibratedAt = <<0, 0, 4096>> =>
        /\ imuData.accOffsetRaw = <<0, 0, 0>>
        /\ \/ imuData.accCorrected = <<0, 0, 4096>>
           \/ imuData.accCorrected = Registers!Frames!Minus(imuData.accRaw, <<0, 0, 0>>)

LEMMA MinusNothing ==
    /\ Registers!Frames!Minus(<<0, 0, 4096>>, <<0, 0, 0>>) = <<0, 0, 4096>>
    /\ Registers!Frames!Minus(<<0, 0, 4096>>, <<0, 0, 4096>>) = <<0, 0, 0>>
BY DEF Registers!Frames!Minus, Registers!Frames!Plus, Registers!Frames!Negative,
       Registers!Frames!Scaled

(* One read. *)
LEMMA RegistersReadStep ==
    ASSUME RegistersRead, RegistersLevel, Registers!read
    PROVE  RegistersRead' /\ RegistersLevel'
<1> DEFINE raws == IF model = "bmi088" THEN Registers!BmiRead(measured')
                   ELSE Registers!MpuRead(measured')
           accRaw == Registers!applyMountingTransformToRaw(raws.acc)
           gyroRaw == Registers!applyMountingTransformToRaw(raws.gyro)
           corrected == Registers!Frames!Minus(accRaw, imuData.accOffsetRaw)
<1>1. /\ reads' = reads + 1 /\ UNCHANGED <<model, mounting, calibratedAt>>
      /\ \E acc, gyro \in Readings, t \in Temperatures :
             measured' = [acc |-> acc, gyro |-> gyro, temperature |-> t]
      /\ imuData' = [imuData EXCEPT !.accRaw = accRaw, !.gyroRaw = gyroRaw,
                                    !.accCorrected = corrected,
                                    !.temperature = raws.temperature]
  BY DEF Registers!read
<1>2. IsMeasured(measured')
  BY <1>1, RegisterAssumption DEF IsMeasured, IsWord
<1>3. /\ raws.acc = Axes(measured'.acc) /\ raws.gyro = Axes(measured'.gyro)
      /\ model = "bmi088" \/ measured'.temperature >= 0
             => raws.temperature = measured'.temperature
  BY <1>2, BmiReadsMeasured, MpuReadsMeasured
<1> HIDE DEF raws
<1>4. /\ accRaw = Registers!Frames!On(mounting.rotation, measured'.acc)
      /\ gyroRaw = Registers!Frames!On(mounting.rotation, measured'.gyro)
  BY <1>3, MountingTurns DEF RegistersRead
<1> HIDE DEF accRaw, gyroRaw, corrected
<1>5. imuData' = [accRaw |-> accRaw, gyroRaw |-> gyroRaw, accOffsetRaw |-> imuData.accOffsetRaw,
                  accCorrected |-> corrected, temperature |-> raws.temperature]
  BY <1>1, Zenon DEF RegistersRead
<1>6. RegistersRead'
  <2>1. /\ imuData'.accRaw = accRaw /\ imuData'.gyroRaw = gyroRaw
        /\ imuData'.accOffsetRaw = imuData.accOffsetRaw /\ imuData'.accCorrected = corrected
        /\ imuData'.temperature = raws.temperature
    BY <1>5
  <2>2. imuData' = [accRaw |-> imuData'.accRaw, gyroRaw |-> imuData'.gyroRaw,
                    accOffsetRaw |-> imuData'.accOffsetRaw,
                    accCorrected |-> imuData'.accCorrected, temperature |-> imuData'.temperature]
    BY <1>5, <2>1
  <2>3. Mounted' /\ reads' \in Nat /\ model' \in {"bmi088", "mpu6500"}
    BY <1>1 DEF RegistersRead, Mounted
  <2>4. Registers!ReadsWhatIsMeasured'
    BY <1>1, <1>3, <1>4, <2>1 DEF Registers!ReadsWhatIsMeasured
  <2>5. QED
    BY <2>2, <2>3, <2>4 DEF RegistersRead
<1>7. RegistersLevel'
  BY <1>1, <1>5 DEF RegistersLevel, corrected
<1>8. QED
  BY <1>6, <1>7

(* And every other step. *)
LEMMA RegistersStay ==
    ASSUME RegistersRead, RegistersLevel, Registers!Next \/ UNCHANGED registerVars
    PROVE  RegistersRead' /\ RegistersLevel'
<1>1. ASSUME UNCHANGED <<model, mounting, measured, imuData, calibratedAt, reads>>
      PROVE  RegistersRead' /\ RegistersLevel'
  BY <1>1 DEF RegistersRead, RegistersLevel, Mounted, Registers!ReadsWhatIsMeasured
<1>2. CASE Registers!setSettings
  BY <1>1, <1>2 DEF Registers!setSettings
<1>3. CASE Registers!initialize
  BY <1>1, <1>3 DEF Registers!initialize
<1>4. CASE UNCHANGED registerVars
  BY <1>1, <1>4 DEF registerVars
<1>5. CASE Registers!read
  BY <1>5, RegistersReadStep
<1>6. CASE Registers!Mount
  <2>1. /\ Mounted' /\ reads = 0
        /\ UNCHANGED <<model, measured, imuData, calibratedAt, reads>>
    BY <1>6 DEF Registers!Mount, Mounted
  <2>2. QED
    BY <2>1 DEF RegistersRead, RegistersLevel, Registers!ReadsWhatIsMeasured
<1>7. CASE Registers!calibrate
  <2> DEFINE one1 == Registers!getAccelerationSensitivity
             level == <<0, 0, one1>>
             offs == Registers!Frames!Minus(imuData.accRaw, level)
  <2>1. /\ calibratedAt' = imuData.accRaw
        /\ imuData' = [imuData EXCEPT !.accOffsetRaw = offs, !.accCorrected = level]
        /\ UNCHANGED <<model, mounting, measured, reads>>
    BY <1>7 DEF Registers!calibrate
  <2> HIDE DEF one1, offs
  <2>2. imuData' = [accRaw |-> imuData.accRaw, gyroRaw |-> imuData.gyroRaw,
                    accOffsetRaw |-> offs, accCorrected |-> level,
                    temperature |-> imuData.temperature]
    BY <2>1, Zenon DEF RegistersRead
  <2>3. RegistersRead'
    BY <2>1, <2>2, Zenon DEF RegistersRead, Mounted, Registers!ReadsWhatIsMeasured
  <2>4. ASSUME model = "mpu6500", calibratedAt' = <<0, 0, 4096>>
        PROVE  imuData'.accOffsetRaw = <<0, 0, 0>> /\ imuData'.accCorrected = <<0, 0, 4096>>
    <3>1. one1 = 4096
      BY <2>4 DEF Registers!getAccelerationSensitivity, one1
    <3>2. offs = <<0, 0, 0>>
      BY <2>1, <2>4, <3>1, MinusNothing DEF offs
    <3>3. QED
      BY <2>2, <3>1, <3>2
  <2>5. QED
    BY <2>1, <2>3, <2>4 DEF RegistersLevel
<1>8. QED
  BY <1>2, <1>3, <1>4, <1>5, <1>6, <1>7 DEF Registers!Next

(* The invariant of the registers, and what it says. *)
RegistersInv == RegistersWritten /\ RegistersRead /\ RegistersLevel

LEMMA RegistersStart == Registers!Init => RegistersInv
<1> SUFFICES ASSUME Registers!Init PROVE RegistersInv
  OBVIOUS
<1>1. settings \in Settings
  BY DEF Registers!Init, Registers!DefaultSettings, Settings, Registers!AccBandwidth,
         Registers!AccOutputRate, Registers!GyroBandwidth
<1>2. Mounted
  BY DEF Registers!Init, Mounted, Registers!Frames!identity
<1>3. calibratedAt # <<0, 0, 4096>>
  BY DEF Registers!Init, Registers!Frames!Zero
<1>4. imuData = [accRaw |-> imuData.accRaw, gyroRaw |-> imuData.gyroRaw,
                 accOffsetRaw |-> imuData.accOffsetRaw, accCorrected |-> imuData.accCorrected,
                 temperature |-> imuData.temperature]
  BY DEF Registers!Init, Registers!Nothing
<1>5. QED
  BY <1>1, <1>2, <1>3, <1>4 DEF Registers!Init, RegistersInv, RegistersWritten, RegistersRead,
     RegistersLevel, Registers!ReadsWhatIsMeasured

LEMMA RegistersStep ==
    RegistersInv /\ (Registers!Next \/ UNCHANGED registerVars) => RegistersInv'
BY RegistersWrittenStep, RegistersStay DEF RegistersInv

LEMMA RegistersSay ==
    ASSUME RegistersInv
    PROVE  /\ Registers!RangesFitScales
           /\ Registers!ReadsWhatIsMeasured
           /\ Registers!WeightIsLeftByMpu
<1>1. Registers!RangesFitScales
  BY WrittenFits DEF RegistersInv
<1>2. ASSUME model = "mpu6500", calibratedAt = <<0, 0, 4096>>, imuData.accRaw = calibratedAt
      PROVE  imuData.accCorrected = <<0, 0, 4096>>
  BY <1>2, MinusNothing DEF RegistersInv, RegistersLevel
<1>3. Registers!WeightIsLeftByMpu
  BY <1>2 DEF Registers!WeightIsLeftByMpu, Registers!WeightIsLeft, Registers!Counts1G
<1>4. QED
  BY <1>1, <1>3 DEF RegistersInv, RegistersRead

-----------------------------------------------------------------------------
Loop == INSTANCE Controllers

loopVars == <<runs, config, pid, filter, steady, fed, predictor, rate, fuzzy,
              limiter, referee, ratio, account, tracker, chassis, lost, origin, servo, course,
              now>>

(* What is used in every loop.  A value that is limited is within the limits. *)
LEMMA LimitHolds ==
    ASSUME NEW val \in Int, NEW most \in Nat
    PROVE  /\ Loop!limitVal(val, -most, most) \in Int
           /\ Loop!Abs(Loop!limitVal(val, -most, most)) <= most
BY DEF Loop!limitVal, Loop!Abs

PidTyped ==
    /\ config \in PidConfigs
    /\ pid \in [p : Int, i : Int, output : Int, prevError : Int]
    /\ Loop!StaysWithinLimits

(* The controller computes integers, and what it returns is limited. *)
LEMMA ControllerRuns ==
    ASSUME PidTyped, NEW error \in Int, NEW dt \in Nat
    PROVE  LET run == Loop!runControllerDerivateError(config, pid, error, dt)
           IN  /\ run \in [p : Int, i : Int, output : Int, prevError : Int]
               /\ Loop!Abs(run.output) <= config.maxOutput
               /\ Loop!Abs(run.i) <= config.maxICumulative
<1> DEFINE length == IF dt = 0 THEN 1 ELSE dt
           derivative == (error - pid.prevError) \div length
           begun == [pid EXCEPT !.prevError = error]
           e == Loop!Deadened(config, error)
           p == config.kp * e
           i == IF Loop!Integrates(config, begun)
                THEN Loop!limitVal(begun.i + config.ki * e * length,
                                   -config.maxICumulative, config.maxICumulative)
                ELSE begun.i
           d == IF Loop!Abs(e) < config.errorDerivativeFloor THEN 0 ELSE -config.kd * derivative
           output == Loop!limitVal(p + i + d, -config.maxOutput, config.maxOutput)
           run == Loop!runControllerDerivateError(config, pid, error, dt)
<1>1. /\ config.kp \in Int /\ config.ki \in Int /\ config.kd \in Int
      /\ config.maxICumulative \in Nat /\ config.maxOutput \in Nat
      /\ config.errDeadzone \in Int
  BY LoopAssumption DEF PidTyped
<1>2. length \in Int /\ derivative \in Int
  <2>1. length \in Nat \ {0}
    OBVIOUS
  <2>2. error - pid.prevError \in Int
    BY DEF PidTyped
  <2> HIDE DEF length
  <2>3. derivative \in Int
    BY <2>1, <2>2, Division, Zenon
  <2>4. QED
    BY <2>1, <2>3
<1> HIDE DEF length, derivative
<1>3. /\ begun \in [p : Int, i : Int, output : Int, prevError : Int]
      /\ begun.i = pid.i
  BY DEF PidTyped
<1>4. e \in Int
  BY <1>1 DEF Loop!Deadened
<1>5. run = [begun EXCEPT !.p = p, !.i = i, !.output = output]
  BY DEF Loop!runControllerDerivateError, Loop!runController, length, derivative
<1> HIDE DEF begun, e
<1>6. /\ p \in Int /\ config.ki * e * length \in Int /\ -config.kd * derivative \in Int
  BY <1>1, <1>2, <1>4
<1>7. i \in Int /\ Loop!Abs(i) <= config.maxICumulative
  <2>1. CASE Loop!Integrates(config, begun)
    <3>1. begun.i + config.ki * e * length \in Int
      BY <1>3, <1>6
    <3> DEFINE sum == begun.i + config.ki * e * length
    <3>2. i = Loop!limitVal(sum, -config.maxICumulative, config.maxICumulative)
      BY <2>1
    <3>3. sum \in Int
      BY <3>1
    <3> HIDE DEF sum, i
    <3>4. QED
      BY <1>1, <3>2, <3>3, LimitHolds
  <2>2. CASE ~Loop!Integrates(config, begun)
    BY <1>3, <2>2 DEF PidTyped, Loop!StaysWithinLimits
  <2>3. QED
    BY <2>1, <2>2
<1> HIDE DEF i
<1>8. d \in Int
  BY <1>6
<1> HIDE DEF p, d
<1>9. p + i + d \in Int
  BY <1>6, <1>7, <1>8 DEF p
<1>10. Loop!Abs(output) <= config.maxOutput /\ output \in Int
  <2> DEFINE sum == p + i + d
  <2>1. sum \in Int
    BY <1>9
  <2> HIDE DEF sum
  <2>2. QED
    BY <1>1, <2>1, LimitHolds, Zenon DEF sum
<1> HIDE DEF output
<1>11. run.output = output /\ run.i = i
       /\ run \in [p : Int, i : Int, output : Int, prevError : Int]
  BY <1>3, <1>5, <1>6, <1>7, <1>10, Zenon
<1>12. QED
  BY <1>7, <1>10, <1>11

LEMMA PidStep ==
    ASSUME PidTyped, Loop!Next \/ UNCHANGED loopVars
    PROVE  PidTyped'
<1>1. CASE Loop!RunPid
  <2>1. PICK error \in PidErrors, dt \in 0 .. 2 :
            pid' = Loop!runControllerDerivateError(config, pid, error, dt)
    BY <1>1 DEF Loop!RunPid
  <2>2. error \in Int /\ dt \in Nat /\ config' = config
    BY <1>1, LoopAssumption DEF Loop!RunPid
  <2>3. QED
    BY <2>1, <2>2, ControllerRuns DEF PidTyped, Loop!StaysWithinLimits
<1>2. CASE Loop!ResetPid
  <2>1. config' = config /\ pid' = [p |-> 0, i |-> 0, output |-> 0, prevError |-> 0]
    BY <1>2 DEF Loop!ResetPid, Loop!reset, Loop!FreshPid
  <2>2. config.maxICumulative \in Nat /\ config.maxOutput \in Nat
    BY LoopAssumption DEF PidTyped
  <2>3. QED
    BY <2>1, <2>2 DEF PidTyped, Loop!StaysWithinLimits, Loop!Abs
<1>3. CASE UNCHANGED <<config, pid>>
  BY <1>3 DEF PidTyped, Loop!StaysWithinLimits
<1>4. Loop!RunPid \/ Loop!ResetPid \/ UNCHANGED <<config, pid>>
  BY DEF Loop!Next, Loop!UseServo, Loop!Tick, Loop!UsePid, Loop!UsePredictor, Loop!UseFuzzy,
         Loop!UseLimiter, Loop!UseOdometry, Loop!Filter, Loop!setSteadyState, Loop!update,
         Loop!resetPredictor, Loop!controllerVars, loopVars
<1>5. QED
  BY <1>1, <1>2, <1>3, <1>4

(* The books of the power limiter. *)
LimiterInv ==
    /\ limiter \in [energyBuffer : Int, consumedPower : Int, prevTime : Int,
                    prevRobotDataReceivedTimestamp : Int]
    /\ referee \in [receiving : BOOLEAN, robotDataReceivedTimestamp : Int, powerBuffer : Int]
    /\ account \in [heard : Int, used : Int]
    /\ now \in Int
    /\ Loop!BufferIsBalanced

LEMMA LimiterCharges ==
    ASSUME LimiterInv, NEW power \in Int, Loop!updatePowerAndEnergyBuffer(power),
           UNCHANGED <<referee, now>>
    PROVE  LimiterInv'
<1> USE LoopAssumption
<1> DEFINE isNew == referee.robotDataReceivedTimestamp # limiter.prevRobotDataReceivedTimestamp
           charged == (limiter.consumedPower - PowerLimit) * (now - limiter.prevTime)
           left == IF isNew THEN referee.powerBuffer ELSE limiter.energyBuffer - charged
<1>1. /\ limiter' = [energyBuffer |-> left, consumedPower |-> power, prevTime |-> now,
                     prevRobotDataReceivedTimestamp |-> referee.robotDataReceivedTimestamp]
      /\ account' = IF isNew THEN [heard |-> referee.powerBuffer, used |-> 0] ELSE account
  BY DEF Loop!updatePowerAndEnergyBuffer, Loop!Charged
<1>2. charged \in Int /\ PowerLimit \in Int
  BY DEF LimiterInv
<1>3. left = account'.heard - account'.used
  BY <1>1, <1>2 DEF LimiterInv, Loop!BufferIsBalanced
<1>4. left \in Int
  BY <1>2 DEF LimiterInv
<1> HIDE DEF left, charged, isNew
<1>5. /\ limiter'.energyBuffer = left /\ limiter'.consumedPower = power
      /\ limiter'.prevTime = now
  BY <1>1
<1>6. (limiter'.consumedPower - PowerLimit) * (now' - limiter'.prevTime) = 0
  <2>1. now' - limiter'.prevTime = 0
    BY <1>5 DEF LimiterInv
  <2>2. limiter'.consumedPower - PowerLimit \in Int
    BY <1>2, <1>5
  <2>3. QED
    BY <2>1, <2>2
<1>7. Loop!BufferIsBalanced'
  BY <1>3, <1>4, <1>5, <1>6 DEF Loop!BufferIsBalanced
<1>8. account' \in [heard : Int, used : Int]
  BY <1>1 DEF LimiterInv
<1>9. QED
  BY <1>1, <1>4, <1>7, <1>8 DEF LimiterInv

LEMMA LimiterStep ==
    ASSUME LimiterInv, Loop!Next \/ UNCHANGED loopVars
    PROVE  LimiterInv'
<1>1. CASE UNCHANGED <<limiter, referee, account, now>>
  BY <1>1 DEF LimiterInv, Loop!BufferIsBalanced
<1>2. CASE Loop!Tick
  <2> DEFINE over == limiter.consumedPower - PowerLimit
             since == now - limiter.prevTime
  <2>1. /\ now' = now + 1 /\ UNCHANGED <<limiter, referee>>
        /\ account' = [account EXCEPT !.used = account.used + limiter.consumedPower - PowerLimit]
    BY <1>2 DEF Loop!Tick
  <2>2. account' \in [heard : Int, used : Int]
        /\ account'.heard = account.heard /\ account'.used = account.used + over
    BY <2>1, LoopAssumption DEF LimiterInv
  <2>3. over \in Int /\ since \in Int /\ now' - limiter'.prevTime = since + 1
    BY <2>1, LoopAssumption DEF LimiterInv
  <2>4. limiter.energyBuffer - over * since = account.heard - account.used
    BY DEF LimiterInv, Loop!BufferIsBalanced
  <2>5. limiter'.consumedPower - PowerLimit = over /\ limiter'.energyBuffer = limiter.energyBuffer
    BY <2>1
  <2>6. /\ limiter.energyBuffer \in Int /\ account.heard \in Int /\ account.used \in Int
    BY DEF LimiterInv
  <2> HIDE DEF over, since
  <2>7. over * (since + 1) = over * since + over /\ over * since \in Int
    BY <2>3
  <2>8. Loop!BufferIsBalanced'
    <3>1. limiter.energyBuffer - over * (since + 1) = account.heard - (account.used + over)
      BY <2>3, <2>4, <2>6, <2>7
    <3>2. QED
      BY <2>2, <2>3, <2>5, <3>1 DEF Loop!BufferIsBalanced
  <2>9. QED
    BY <2>1, <2>2, <2>8 DEF LimiterInv
<1>3. CASE Loop!UseLimiter /\ Loop!getPowerLimitRatio
  <2>1. CASE ~referee.receiving
    BY <1>1, <1>3, <2>1 DEF Loop!UseLimiter, Loop!getPowerLimitRatio
  <2>2. CASE referee.receiving
    <3>1. PICK power \in Powers : Loop!updatePowerAndEnergyBuffer(power)
      BY <1>3, <2>2 DEF Loop!getPowerLimitRatio
    <3>2. power \in Int /\ UNCHANGED <<referee, now>>
      BY <1>3, LoopAssumption DEF Loop!UseLimiter, Loop!getPowerLimitRatio
    <3>3. QED
      BY <3>1, <3>2, LimiterCharges
  <2>3. QED
    BY <2>1, <2>2
<1>4. CASE Loop!UseLimiter /\ Loop!Referee
  <2>1. UNCHANGED <<limiter, account, now>>
    BY <1>4 DEF Loop!UseLimiter, Loop!Referee
  <2>2. referee' \in [receiving : BOOLEAN, robotDataReceivedTimestamp : Int, powerBuffer : Int]
    <3>1. CASE \E powerBuffer \in PowerBuffers :
                   referee' = [receiving |-> TRUE, robotDataReceivedTimestamp |-> now,
                               powerBuffer |-> powerBuffer]
      BY <3>1, LoopAssumption DEF LimiterInv
    <3>2. CASE referee' = [referee EXCEPT !.receiving = ~referee.receiving]
      BY <3>2, Zenon DEF LimiterInv
    <3>3. QED
      BY <1>4, <3>1, <3>2 DEF Loop!Referee
  <2>3. QED
    BY <2>1, <2>2 DEF LimiterInv, Loop!BufferIsBalanced
<1>5. \/ Loop!Tick
      \/ Loop!UseLimiter /\ Loop!getPowerLimitRatio
      \/ Loop!UseLimiter /\ Loop!Referee
      \/ UNCHANGED <<limiter, referee, account, now>>
  BY DEF Loop!Next, Loop!UseServo, Loop!UsePid, Loop!UsePredictor, Loop!UseFuzzy,
         Loop!UseLimiter, Loop!UseOdometry, Loop!limiterVars, loopVars
<1>6. QED
  BY <1>1, <1>2, <1>3, <1>4, <1>5

(* A turn of a sum is the sum of the turns. *)
LEMMA TurnedAdds ==
    ASSUME NEW v \in Int \X Int, NEW w \in Int \X Int, NEW yaw \in 0 .. 3
    PROVE  /\ Loop!Turned(v, yaw) \in Int \X Int
           /\ Loop!Turned(Loop!Plus(v, w), yaw) = Loop!Plus(Loop!Turned(v, yaw), Loop!Turned(w, yaw))
           /\ Loop!Turned(<<0, 0>>, yaw) = <<0, 0>>
<1>1. CASE yaw = 0
  BY <1>1 DEF Loop!Turned, Loop!Plus
<1>2. CASE yaw = 1
  BY <1>2 DEF Loop!Turned, Loop!Plus
<1>3. CASE yaw = 2
  BY <1>3 DEF Loop!Turned, Loop!Plus
<1>4. CASE yaw = 3
  BY <1>4 DEF Loop!Turned, Loop!Plus
<1>5. QED
  BY <1>1, <1>2, <1>3, <1>4

(* Displacements are added like numbers. *)
LEMMA Displacements ==
    ASSUME NEW u \in Int \X Int, NEW v \in Int \X Int, NEW w \in Int \X Int
    PROVE  /\ Loop!Plus(u, v) \in Int \X Int /\ Loop!Minus(u, v) \in Int \X Int
           /\ Loop!Plus(u, v) = Loop!Plus(v, u) /\ Loop!Plus(u, <<0, 0>>) = u
           /\ Loop!Plus(Loop!Plus(u, v), w) = Loop!Plus(u, Loop!Plus(v, w))
           /\ Loop!Minus(u, u) = <<0, 0>> /\ Loop!Plus(Loop!Minus(u, v), v) = u
           /\ Loop!Minus(Loop!Plus(u, v), w) = Loop!Plus(Loop!Minus(u, w), v)
BY DEF Loop!Plus, Loop!Minus

(* The tracker and the chassis: where the tracking has not begun nothing is
   lost. *)
Places == Int \X Int

OdometryInv ==
    /\ tracker \in [displacementPrimed : BOOLEAN, prevChassisAbsoluteDisplacement : Places,
                    chassisYaw : 0 .. 3, location : Places, velocity : Places]
    /\ chassis \in [position : Places, displacement : Places, velocity : Places, yaw : 0 .. 3]
    /\ lost \in Places /\ origin \in Places
    /\ ~tracker.displacementPrimed => lost = <<0, 0>>
    /\ Loop!TracksChassis

LEMMA VelocityTyped ==
    ASSUME NEW v \in Places, NEW yaw \in 0 .. 3
    PROVE  Loop!getVelocityWorldRelative(v, yaw) \in Places
<1>1. Loop!Cos(yaw) \in Int /\ Loop!Sin(yaw) \in Int
  BY DEF Loop!Cos, Loop!Sin
<1>2. QED
  BY <1>1 DEF Loop!getVelocityWorldRelative, Places

LEMMA OdometryUpdates == ASSUME OdometryInv, Loop!UpdateOdometry PROVE OdometryInv'
<1> DEFINE Tracker == [displacementPrimed : BOOLEAN, prevChassisAbsoluteDisplacement : Places,
                       chassisYaw : 0 .. 3, location : Places, velocity : Places]
           behind == Loop!Turned(Loop!Driven, chassis.yaw)
<1>1. PICK validDisplacement \in BOOLEAN, validOrientation \in BOOLEAN :
          /\ Loop!updateOdometry(validDisplacement, validOrientation)
          /\ origin' = IF validDisplacement /\ ~tracker.displacementPrimed
                       THEN Loop!Minus(chassis.position, tracker.location) ELSE origin
          /\ lost' = IF validDisplacement /\ tracker.displacementPrimed /\ ~validOrientation
                     THEN Loop!Plus(lost, behind) ELSE lost
          /\ UNCHANGED chassis
  BY DEF Loop!UpdateOdometry
<1> DEFINE read == IF validOrientation THEN [tracker EXCEPT !.chassisYaw = chassis.yaw]
                   ELSE tracker
           moved == IF read.displacementPrimed /\ validOrientation THEN Loop!Moved(read) ELSE read
<1>2. Loop!Driven \in Places /\ behind \in Places
  <2>1. Loop!Driven \in Places
    BY DEF OdometryInv, Places, Loop!Driven, Loop!Minus
  <2>2. QED
    BY <2>1, TurnedAdds DEF OdometryInv, Places
<1>3. /\ read \in Tracker /\ read.displacementPrimed = tracker.displacementPrimed
      /\ read.location = tracker.location
      /\ read.prevChassisAbsoluteDisplacement = tracker.prevChassisAbsoluteDisplacement
      /\ validOrientation => read.chassisYaw = chassis.yaw
  BY DEF OdometryInv
<1>4. tracker' = IF ~validDisplacement THEN read
                 ELSE [moved EXCEPT !.displacementPrimed = TRUE,
                                    !.prevChassisAbsoluteDisplacement = chassis.displacement]
  BY <1>1 DEF Loop!updateOdometry
<1> HIDE DEF read, behind
<1>5. /\ moved \in Tracker
      /\ moved.location = IF read.displacementPrimed /\ validOrientation
                          THEN Loop!Plus(tracker.location, behind) ELSE tracker.location
  <2>1. CASE read.displacementPrimed /\ validOrientation
    <3> DEFINE velocity == Loop!getVelocityWorldRelative(chassis.velocity, read.chassisYaw)
               location == Loop!Plus(tracker.location, behind)
    <3>1. velocity \in Places
      BY <1>3, VelocityTyped DEF OdometryInv
    <3>2. location \in Places
      BY <1>2, Displacements DEF OdometryInv, Places
    <3>3. moved = [read EXCEPT !.location = location, !.velocity = velocity]
      BY <1>3, <2>1, Zenon DEF Loop!Moved, behind
    <3> HIDE DEF velocity, location
    <3>4. QED
      BY <1>3, <2>1, <3>1, <3>2, <3>3, Zenon DEF location
  <2>2. CASE ~(read.displacementPrimed /\ validOrientation)
    BY <1>3, <2>2
  <2>3. QED
    BY <2>1, <2>2
<1> HIDE DEF moved
<1>6. /\ lost' \in Places /\ origin' \in Places /\ chassis' = chassis
  BY <1>1, <1>2, Displacements DEF OdometryInv, Places
<1>7. CASE ~validDisplacement
  <2>1. UNCHANGED <<lost, origin>>
    BY <1>1, <1>7
  <2>2. Loop!Driven' = Loop!Driven
    BY <1>3, <1>4, <1>6, <1>7 DEF Loop!Driven
  <2>3. QED
    BY <1>3, <1>4, <1>6, <1>7, <2>1, <2>2 DEF OdometryInv, Loop!TracksChassis
<1>8. CASE validDisplacement
  <2>1. /\ tracker' \in Tracker /\ tracker'.displacementPrimed
        /\ tracker'.location = moved.location
        /\ tracker'.prevChassisAbsoluteDisplacement = chassis.displacement
    BY <1>4, <1>5, <1>8, Zenon DEF OdometryInv
  <2>2. Loop!Driven' = <<0, 0>>
    BY <1>6, <2>1, Displacements DEF OdometryInv, Places, Loop!Driven
  <2>3. Loop!Turned(Loop!Driven, chassis.yaw)' = <<0, 0>>
    BY <1>6, <2>2, TurnedAdds DEF OdometryInv, Places
  <2>4. chassis.position = Loop!Plus(Loop!Plus(origin', tracker'.location), lost')
    <3>1. CASE ~tracker.displacementPrimed
      <4>1. tracker'.location = tracker.location /\ lost' = <<0, 0>>
            /\ origin' = Loop!Minus(chassis.position, tracker.location)
        BY <1>1, <1>3, <1>5, <1>8, <2>1, <3>1 DEF OdometryInv
      <4>2. QED
        BY <4>1, Displacements DEF OdometryInv, Places
    <3>2. CASE tracker.displacementPrimed /\ validOrientation
      <4>1. tracker'.location = Loop!Plus(tracker.location, behind)
            /\ lost' = lost /\ origin' = origin
        BY <1>1, <1>3, <1>5, <1>8, <2>1, <3>2
      <4>2. chassis.position = Loop!Plus(Loop!Plus(origin, tracker.location), Loop!Plus(lost, behind))
        BY <3>2 DEF OdometryInv, Loop!TracksChassis, behind
      <4>3. QED
        BY <1>2, <4>1, <4>2 DEF OdometryInv, Places, Loop!Plus
    <3>3. CASE tracker.displacementPrimed /\ ~validOrientation
      <4>1. tracker'.location = tracker.location
            /\ lost' = Loop!Plus(lost, behind) /\ origin' = origin
        BY <1>1, <1>3, <1>5, <1>8, <2>1, <3>3
      <4>2. QED
        BY <3>3, <4>1 DEF OdometryInv, Loop!TracksChassis, behind
    <3>4. QED
      BY <3>1, <3>2, <3>3
  <2>5. lost' = Loop!Plus(lost', <<0, 0>>)
    BY <1>6, Displacements DEF Places
  <2>6. QED
    BY <1>6, <2>1, <2>3, <2>4, <2>5 DEF OdometryInv, Loop!TracksChassis
<1>9. QED
  BY <1>7, <1>8

LEMMA ChassisDrives == ASSUME OdometryInv, Loop!Chassis PROVE OdometryInv'
<1>1. UNCHANGED <<tracker, lost, origin>>
  BY Zenon DEF Loop!Chassis
<1>2. CASE \E drive \in Drives :
               chassis' = [chassis EXCEPT
                   !.displacement = Loop!Plus(chassis.displacement, drive), !.velocity = drive,
                   !.position = Loop!Plus(chassis.position, Loop!Turned(drive, chassis.yaw))]
  <2>1. PICK drive \in Int \X Int :
            chassis' = [chassis EXCEPT
                !.displacement = Loop!Plus(chassis.displacement, drive), !.velocity = drive,
                !.position = Loop!Plus(chassis.position, Loop!Turned(drive, chassis.yaw))]
    BY <1>2, LoopAssumption, Zenon
  <2> DEFINE turned == Loop!Turned(drive, chassis.yaw)
             behind == Loop!Turned(Loop!Driven, chassis.yaw)
             displacement == Loop!Plus(chassis.displacement, drive)
             position == Loop!Plus(chassis.position, turned)
  <2>2. Loop!Driven \in Places
    BY DEF OdometryInv, Places, Loop!Driven, Loop!Minus
  <2>3. turned \in Places /\ behind \in Places
    BY <2>2, TurnedAdds DEF OdometryInv, Places
  <2>4. displacement \in Places /\ position \in Places
    BY <2>3, Displacements, Zenon DEF OdometryInv, Places
  <2>5. chassis' = [chassis EXCEPT !.displacement = displacement, !.velocity = drive,
                                   !.position = position]
    BY <2>1
  <2> HIDE DEF displacement, position, turned, behind
  <2>6. /\ chassis' \in [position : Places, displacement : Places, velocity : Places, yaw : 0 .. 3]
        /\ chassis'.displacement = displacement /\ chassis'.position = position
        /\ chassis'.yaw = chassis.yaw
    BY <2>4, <2>5, Zenon DEF OdometryInv, Places
  <2>7. Loop!Driven' = Loop!Plus(Loop!Driven, drive)
    BY <1>1, <2>6, Displacements DEF OdometryInv, Places, Loop!Driven, displacement
  <2>8. Loop!Turned(Loop!Driven, chassis.yaw)' = Loop!Plus(behind, turned)
    BY <2>2, <2>6, <2>7, TurnedAdds DEF OdometryInv, Places, behind, turned
  <2>9. tracker.displacementPrimed =>
            position = Loop!Plus(Loop!Plus(origin, tracker.location),
                                 Loop!Plus(lost, Loop!Plus(behind, turned)))
    <3> SUFFICES ASSUME tracker.displacementPrimed
                 PROVE  position = Loop!Plus(Loop!Plus(origin, tracker.location),
                                             Loop!Plus(lost, Loop!Plus(behind, turned)))
      OBVIOUS
    <3>1. chassis.position = Loop!Plus(Loop!Plus(origin, tracker.location), Loop!Plus(lost, behind))
      BY DEF OdometryInv, Loop!TracksChassis, behind
    <3>2. QED
      BY <2>3, <3>1 DEF OdometryInv, Places, Loop!Plus, position
  <2>10. QED
    BY <1>1, <2>6, <2>8, <2>9 DEF OdometryInv, Loop!TracksChassis
<1>3. CASE Loop!Driven = <<0, 0>> /\ chassis' = [chassis EXCEPT !.yaw = (chassis.yaw + 1) % 4]
  <2>1. /\ chassis' \in [position : Places, displacement : Places, velocity : Places, yaw : 0 .. 3]
        /\ chassis'.displacement = chassis.displacement /\ chassis'.position = chassis.position
    BY <1>3 DEF OdometryInv
  <2>2. Loop!Driven' = <<0, 0>>
    BY <1>1, <1>3, <2>1 DEF Loop!Driven
  <2>3. Loop!Turned(Loop!Driven, chassis.yaw)' = Loop!Turned(Loop!Driven, chassis.yaw)
    <3>1. chassis.yaw \in 0 .. 3 /\ chassis'.yaw \in 0 .. 3 /\ <<0, 0>> \in Int \X Int
      BY <2>1 DEF OdometryInv
    <3>2. QED
      BY <1>3, <2>2, <3>1, TurnedAdds, Zenon
  <2>4. QED
    BY <1>1, <2>1, <2>3 DEF OdometryInv, Loop!TracksChassis
<1>4. QED
  BY <1>2, <1>3, Zenon DEF Loop!Chassis

LEMMA OdometryOverridden ==
    ASSUME OdometryInv, Loop!overrideOdometryPosition PROVE OdometryInv'
<1>1. /\ tracker' = [tracker EXCEPT !.location = Override]
      /\ origin' = Loop!Plus(origin, Loop!Minus(tracker.location, Override))
      /\ UNCHANGED <<chassis, lost>>
  BY DEF Loop!overrideOdometryPosition
<1>2. Override \in Places
  BY LoopAssumption DEF Places
<1>3. /\ tracker' \in [displacementPrimed : BOOLEAN, prevChassisAbsoluteDisplacement : Places,
                       chassisYaw : 0 .. 3, location : Places, velocity : Places]
      /\ tracker'.displacementPrimed = tracker.displacementPrimed
      /\ tracker'.prevChassisAbsoluteDisplacement = tracker.prevChassisAbsoluteDisplacement
      /\ tracker'.location = Override
  BY <1>1, <1>2 DEF OdometryInv
<1>4. Loop!Driven' = Loop!Driven
  BY <1>1, <1>3 DEF Loop!Driven
<1>5. origin' \in Places /\ Loop!Plus(origin', Override) = Loop!Plus(origin, tracker.location)
  BY <1>1, <1>2 DEF OdometryInv, Places, Loop!Plus, Loop!Minus
<1>6. QED
  BY <1>1, <1>3, <1>4, <1>5 DEF OdometryInv, Loop!TracksChassis

LEMMA OdometryStep ==
    ASSUME OdometryInv, Loop!Next \/ UNCHANGED loopVars
    PROVE  OdometryInv'
<1>1. CASE UNCHANGED <<tracker, chassis, lost, origin>>
  BY <1>1 DEF OdometryInv, Loop!TracksChassis, Loop!Driven
<1>2. \/ Loop!UpdateOdometry \/ Loop!overrideOdometryPosition \/ Loop!Chassis
      \/ UNCHANGED <<tracker, chassis, lost, origin>>
  BY DEF Loop!Next, Loop!UseServo, Loop!Tick, Loop!UsePid, Loop!UsePredictor, Loop!UseFuzzy,
         Loop!UseLimiter, Loop!UseOdometry, Loop!odometryVars, loopVars
<1>3. QED
  BY <1>1, <1>2, OdometryUpdates, OdometryOverridden, ChassisDrives

(* The servo.  What one update does to the value of its ramp, where `gone' of
   the distance lies behind it. *)
StepTowards(target, value, step) ==
    IF Loop!Abs(target - value) <= step THEN target
    ELSE IF target < value THEN value - step ELSE value + step

OnItsWay(from, target, value, gone) ==
    /\ Loop!Abs(value - from) = Loop!Least(gone, Loop!Abs(target - from))
    /\ Loop!Abs(target - value)
           = Loop!Abs(target - from) - Loop!Least(gone, Loop!Abs(target - from))

LEMMA RampMoves ==
    ASSUME NEW from \in Int, NEW target \in Int, NEW value \in Int, NEW gone \in Nat,
           NEW step \in Nat, OnItsWay(from, target, value, gone)
    PROVE  /\ StepTowards(target, value, step) \in Int
           /\ OnItsWay(from, target, StepTowards(target, value, step), gone + step)
<1>1. CASE Loop!Abs(target - value) <= step
  BY <1>1 DEF OnItsWay, Loop!Abs, Loop!Least, StepTowards
<1>2. CASE ~(Loop!Abs(target - value) <= step) /\ target < value
  BY <1>2 DEF OnItsWay, Loop!Abs, Loop!Least, StepTowards
<1>3. CASE ~(Loop!Abs(target - value) <= step) /\ ~(target < value)
  BY <1>3 DEF OnItsWay, Loop!Abs, Loop!Least, StepTowards
<1>4. QED
  BY <1>1, <1>2, <1>3

PwmRamps == [target : Int, value : Int, targetReached : BOOLEAN]

ServoInv ==
    /\ servo \in [pwmOutputRamp : PwmRamps, currentPwm : Int \union {"unset"}, maxPwm : Int,
                  minPwm : Int, pwmRampSpeed : Nat, prevTime : Nat]
    /\ servo.minPwm <= servo.maxPwm
    /\ course \in [from : Int, at : Nat] /\ now \in Nat
    /\ course.at <= servo.prevTime /\ servo.prevTime <= now
    /\ Loop!ServoMovesSteadily

LEMMA ServoConstructed ==
    ASSUME NEW c \in Servos
    PROVE  /\ Loop!Servo(c) \in [pwmOutputRamp : PwmRamps, currentPwm : Int \union {"unset"},
                                 maxPwm : Int, minPwm : Int, pwmRampSpeed : Nat, prevTime : Nat]
           /\ Loop!Servo(c).minPwm <= Loop!Servo(c).maxPwm /\ Loop!Servo(c).prevTime = 0
           /\ Loop!Servo(c).pwmOutputRamp = [target |-> 0, value |-> 0, targetReached |-> TRUE]
<1> DEFINE max == Loop!limitVal(c.maximumPwm, 0, FullPwm)
           min == Loop!limitVal(c.minimumPwm, 0, FullPwm)
<1>1. c.maximumPwm \in Int /\ c.minimumPwm \in Int /\ c.pwmRampSpeed \in Nat /\ FullPwm \in Nat
  BY LoopAssumption
<1>2. max \in Int /\ min \in Int
  BY <1>1 DEF Loop!limitVal
<1> HIDE DEF max, min
<1>3. Loop!Servo(c) =
          [pwmOutputRamp |-> [target |-> 0, value |-> 0, targetReached |-> TRUE],
           currentPwm |-> "unset",
           maxPwm |-> IF max < min THEN FullPwm ELSE max, minPwm |-> IF max < min THEN 0 ELSE min,
           pwmRampSpeed |-> c.pwmRampSpeed, prevTime |-> 0]
  BY DEF Loop!Servo, Loop!Ramp!RampAt, max, min
<1>4. QED
  BY <1>1, <1>2, <1>3 DEF PwmRamps

LEMMA ServoAimed ==
    ASSUME ServoInv, NEW pwm \in PwmTargets, Loop!setTargetPwm(pwm), now' = now
    PROVE  ServoInv'
<1> DEFINE ramp == servo.pwmOutputRamp
           aim == Loop!limitVal(pwm, servo.minPwm, servo.maxPwm)
           aimed == Loop!Ramp!setTarget(ramp, aim)
<1>1. /\ ramp \in PwmRamps
      /\ servo.minPwm \in Int /\ servo.maxPwm \in Int /\ servo.minPwm <= servo.maxPwm
      /\ now \in Nat
  BY DEF ServoInv
<1>2. aim \in Int /\ servo.minPwm <= aim /\ aim <= servo.maxPwm
  BY <1>1, LoopAssumption DEF Loop!limitVal
<1>3. /\ servo' = [servo EXCEPT !.pwmOutputRamp = aimed, !.prevTime = now]
      /\ course' = [from |-> ramp.value, at |-> now]
  BY DEF Loop!setTargetPwm
<1> HIDE DEF ramp, aim
<1>4. /\ aimed \in PwmRamps /\ aimed.target = aim /\ aimed.value = ramp.value
      /\ aimed.targetReached => ramp.targetReached /\ aimed.target = ramp.target
  <2>1. Loop!Ramp!compareClose(aim, ramp.target, 0) <=> aim = ramp.target
    BY <1>1, <1>2 DEF PwmRamps, Loop!Ramp!compareClose, Loop!Ramp!Distance
  <2>2. aimed = IF aim = ramp.target THEN ramp
                ELSE [ramp EXCEPT !.target = aim, !.targetReached = FALSE]
    BY <2>1 DEF Loop!Ramp!setTarget
  <2> HIDE DEF aimed
  <2>3. CASE aim = ramp.target
    BY <1>1, <2>2, <2>3
  <2>4. CASE aim # ramp.target
    BY <1>1, <1>2, <2>2, <2>4, Zenon DEF PwmRamps
  <2>5. QED
    BY <2>3, <2>4
<1>5. ramp.targetReached => ramp.value = ramp.target
  BY DEF ServoInv, Loop!ServoMovesSteadily, ramp
<1> HIDE DEF aimed
<1>6. /\ servo' \in [pwmOutputRamp : PwmRamps, currentPwm : Int \union {"unset"}, maxPwm : Int,
                     minPwm : Int, pwmRampSpeed : Nat, prevTime : Nat]
      /\ servo'.pwmOutputRamp = aimed /\ servo'.prevTime = now
      /\ servo'.minPwm = servo.minPwm /\ servo'.maxPwm = servo.maxPwm
      /\ servo'.pwmRampSpeed \in Nat
      /\ course'.from = ramp.value /\ course'.at = now
      /\ course' \in [from : Int, at : Nat]
  BY <1>1, <1>3, <1>4, Zenon DEF ServoInv, PwmRamps
<1>7. Loop!ServoMovesSteadily'
  <2>1. servo'.pwmRampSpeed * (servo'.prevTime - course'.at) = 0
    BY <1>1, <1>6
  <2>2. ramp.value \in Int /\ aimed.target \in Int /\ aimed.value \in Int
    BY <1>1, <1>4 DEF PwmRamps
  <2>3. /\ Loop!Abs(aimed.value - course'.from) = Loop!Least(0, Loop!Abs(aimed.target - course'.from))
        /\ Loop!Abs(aimed.target - aimed.value)
               = Loop!Abs(aimed.target - course'.from) - Loop!Least(0, Loop!Abs(aimed.target - course'.from))
    BY <1>4, <1>6, <2>2 DEF Loop!Abs, Loop!Least
  <2>4. aimed.targetReached => aimed.value = aimed.target
    BY <1>4, <1>5
  <2>5. aimed.target \in servo'.minPwm .. servo'.maxPwm
    BY <1>1, <1>2, <1>4, <1>6
  <2>6. ~(servo'.prevTime > course'.at)
    BY <1>1, <1>6
  <2>7. QED
    BY <1>6, <2>1, <2>3, <2>4, <2>5, <2>6 DEF Loop!ServoMovesSteadily
<1>8. QED
  BY <1>1, <1>6, <1>7 DEF ServoInv

LEMMA ServoUpdated ==
    ASSUME ServoInv, Loop!updateSendPwmRamp, now' = now PROVE ServoInv'
<1> DEFINE ramp == servo.pwmOutputRamp
           speed == servo.pwmRampSpeed
           step == speed * (now - servo.prevTime)
           gone == speed * (servo.prevTime - course.at)
           moved == StepTowards(ramp.target, ramp.value, step)
           stepped == Loop!Ramp!update(ramp, step)
<1>1. /\ ramp.target \in Int /\ ramp.value \in Int /\ ramp \in PwmRamps
      /\ speed \in Nat /\ now \in Nat /\ servo.prevTime \in Nat
      /\ course.at \in Nat /\ course.from \in Int
      /\ course.at <= servo.prevTime /\ servo.prevTime <= now
  BY DEF ServoInv, PwmRamps
<1>2. /\ servo' = [servo EXCEPT !.pwmOutputRamp = stepped, !.currentPwm = stepped.value,
                                !.prevTime = now]
      /\ UNCHANGED course
  BY DEF Loop!updateSendPwmRamp, Loop!Stepped
<1>3. /\ Loop!Abs(ramp.value - course.from) = Loop!Least(gone, Loop!Abs(ramp.target - course.from))
      /\ Loop!Abs(ramp.target - ramp.value)
             = Loop!Abs(ramp.target - course.from) - Loop!Least(gone, Loop!Abs(ramp.target - course.from))
      /\ course.at > 0 => ramp.target \in servo.minPwm .. servo.maxPwm
  BY DEF ServoInv, Loop!ServoMovesSteadily
<1> HIDE DEF speed
<1>4. step \in Nat /\ gone \in Nat /\ speed * (now - course.at) = gone + step
  <2> DEFINE a == now - servo.prevTime
             b == servo.prevTime - course.at
  <2>1. a \in Nat /\ b \in Nat /\ now - course.at = b + a
    BY <1>1
  <2> HIDE DEF a, b
  <2>2. speed * a \in Nat /\ speed * b \in Nat /\ speed * (b + a) = speed * b + speed * a
    BY <1>1, <2>1
  <2>3. QED
    BY <2>1, <2>2 DEF a, b
<1> HIDE DEF step, gone, ramp
<1>5. Loop!Ramp!Distance(step, 0) = step
      /\ Loop!Ramp!Distance(ramp.target, ramp.value) = Loop!Abs(ramp.target - ramp.value)
  BY <1>1, <1>4 DEF Loop!Ramp!Distance, Loop!Abs
<1>6. stepped = [ramp EXCEPT !.value = moved,
                             !.targetReached = Loop!Ramp!compareClose(moved, ramp.target, 0)]
  BY <1>5, Zenon DEF Loop!Ramp!update, StepTowards
<1>7. /\ moved \in Int
      /\ Loop!Abs(moved - course.from) = Loop!Least(gone + step, Loop!Abs(ramp.target - course.from))
      /\ Loop!Abs(ramp.target - moved)
             = Loop!Abs(ramp.target - course.from)
                   - Loop!Least(gone + step, Loop!Abs(ramp.target - course.from))
  <2>1. OnItsWay(course.from, ramp.target, ramp.value, gone)
    BY <1>3 DEF OnItsWay
  <2>2. moved \in Int /\ OnItsWay(course.from, ramp.target, moved, gone + step)
    BY <1>1, <1>4, <2>1, RampMoves, Zenon
  <2>3. QED
    BY <2>2 DEF OnItsWay
<1> HIDE DEF moved, stepped
<1>8. Loop!Ramp!compareClose(moved, ramp.target, 0) <=> moved = ramp.target
  BY <1>1, <1>7 DEF Loop!Ramp!compareClose, Loop!Ramp!Distance
<1>9. /\ stepped \in PwmRamps /\ stepped.value = moved /\ stepped.target = ramp.target
      /\ stepped.targetReached <=> moved = ramp.target
  <2>1. Loop!Ramp!compareClose(moved, ramp.target, 0) \in BOOLEAN
    BY DEF Loop!Ramp!compareClose
  <2>2. QED
    BY <1>1, <1>6, <1>7, <1>8, <2>1, Zenon DEF PwmRamps
<1>10. /\ servo' \in [pwmOutputRamp : PwmRamps, currentPwm : Int \union {"unset"}, maxPwm : Int,
                      minPwm : Int, pwmRampSpeed : Nat, prevTime : Nat]
       /\ servo'.pwmOutputRamp = stepped /\ servo'.prevTime = now
       /\ servo'.currentPwm = moved
       /\ servo'.minPwm = servo.minPwm /\ servo'.maxPwm = servo.maxPwm
       /\ servo'.pwmRampSpeed = speed
  BY <1>1, <1>2, <1>7, <1>9, Zenon DEF ServoInv, speed
<1>11. Loop!ServoMovesSteadily'
  BY <1>2, <1>3, <1>4, <1>7, <1>9, <1>10 DEF Loop!ServoMovesSteadily
<1>12. QED
  BY <1>1, <1>2, <1>10, <1>11 DEF ServoInv

LEMMA ServoStep ==
    ASSUME ServoInv, Loop!Next \/ UNCHANGED loopVars
    PROVE  ServoInv'
<1>1. CASE UNCHANGED <<servo, course>> /\ (now' = now \/ now' = now + 1)
  <2>1. Loop!ServoMovesSteadily'
    BY <1>1 DEF ServoInv, Loop!ServoMovesSteadily
  <2>2. now' \in Nat /\ now <= now'
    BY <1>1 DEF ServoInv
  <2>3. QED
    BY <1>1, <2>1, <2>2 DEF ServoInv
<1>2. CASE Loop!UseServo
  <2>1. now' = now
    BY <1>2 DEF Loop!UseServo
  <2>2. QED
    BY <1>2, <2>1, ServoAimed, ServoUpdated DEF Loop!UseServo
<1>3. Loop!UseServo \/ (UNCHANGED <<servo, course>> /\ (now' = now \/ now' = now + 1))
  BY DEF Loop!Next, Loop!Tick, Loop!UsePid, Loop!UsePredictor, Loop!UseFuzzy,
         Loop!UseLimiter, Loop!UseOdometry, Loop!servoVars, loopVars
<1>4. QED
  BY <1>1, <1>2, <1>3

(* So what is used in every loop keeps to its limits and its books. *)
LoopInv == PidTyped /\ LimiterInv /\ OdometryInv /\ ServoInv

LEMMA LoopStart == Loop!Init => LoopInv
<1> SUFFICES ASSUME Loop!Init PROVE LoopInv
  OBVIOUS
<1>1. PidTyped
  <2>1. config \in PidConfigs /\ pid = [p |-> 0, i |-> 0, output |-> 0, prevError |-> 0]
    BY DEF Loop!Init, Loop!FreshPid
  <2>2. config.maxICumulative \in Nat /\ config.maxOutput \in Nat
    BY <2>1, LoopAssumption
  <2>3. QED
    BY <2>1, <2>2 DEF PidTyped, Loop!StaysWithinLimits, Loop!Abs
<1>2. LimiterInv
  <2>1. /\ limiter = [energyBuffer |-> LimitThreshold, consumedPower |-> 0, prevTime |-> 0,
                      prevRobotDataReceivedTimestamp |-> 0]
        /\ referee = [receiving |-> FALSE, robotDataReceivedTimestamp |-> 0, powerBuffer |-> 0]
        /\ account = [heard |-> LimitThreshold, used |-> 0] /\ now = 0
    BY DEF Loop!Init, Loop!FreshLimiter
  <2>2. Loop!BufferIsBalanced
    BY <2>1, LoopAssumption DEF Loop!BufferIsBalanced
  <2>3. QED
    BY <2>1, <2>2, LoopAssumption DEF LimiterInv
<1>3. OdometryInv
  BY DEF Loop!Init, OdometryInv, Places, Loop!TracksChassis
<1>4. ServoInv
  <2>1. PICK c \in Servos : servo = Loop!Servo(c)
    BY DEF Loop!Init
  <2>2. course = [from |-> 0, at |-> 0] /\ now = 0
    BY DEF Loop!Init
  <2>3. /\ servo.prevTime = 0 /\ servo.pwmRampSpeed \in Nat
        /\ servo.pwmOutputRamp = [target |-> 0, value |-> 0, targetReached |-> TRUE]
    BY <2>1, ServoConstructed
  <2>4. Loop!ServoMovesSteadily
    BY <2>2, <2>3 DEF Loop!ServoMovesSteadily, Loop!Abs, Loop!Least
  <2>5. QED
    BY <2>1, <2>2, <2>3, <2>4, ServoConstructed DEF ServoInv
<1>5. QED
  BY <1>1, <1>2, <1>3, <1>4 DEF LoopInv

LEMMA LoopStep ==
    ASSUME LoopInv, Loop!Next \/ UNCHANGED loopVars PROVE LoopInv'
BY PidStep, LimiterStep, OdometryStep, ServoStep DEF LoopInv

LEMMA LoopSays == LoopInv => Loop!LoopKeeps
BY DEF LoopInv, Loop!LoopKeeps, PidTyped, LimiterInv, OdometryInv, ServoInv

-----------------------------------------------------------------------------
(* All of them together. *)
Frames == INSTANCE Transforms
Code == INSTANCE Crc WITH message <- sentMessage, received <- receivedMessage

transformVars == <<transform, updates>>
codeVars == <<sentMessage, receivedMessage>>
smallVars == <<timerVars, controllerVars, floatVars, imuVars>>
motorVars == <<encoderVars, multiVars, djiVars, sparkVars>>
computeVars == <<registerVars, transformVars, codeVars, loopVars>>
devicesVars == <<used, vars, smallVars, motorVars, computeVars>>

DevicesInit ==
    /\ used \in {"handler", "periodic timer", "conditional timer", "profiler",
                 "error controller", "float", "encoder", "multi encoder", "dji motors",
                 "dji reports", "rev motors", "rev reports", "imu", "registers", "frames", "code",
                 "loop"}
    /\ Init
    /\ Timer!Init
    /\ (used # "periodic timer" => period = 1) /\ (used # "conditional timer" => timeout = 1)
    /\ Controller!Init
    /\ Floats!Init /\ (used # "float" => float.lower = 0)
    /\ Encoder!Init /\ (used # "encoder" => ~inverted /\ ~rev)
    /\ Multi!Init /\ Dji!Init /\ Rev!Init /\ Rev!ReportInit
    /\ Sensor!Init /\ (used # "imu" => chip = "bmi088" /\ broken = {})
    /\ Registers!Init /\ (used # "registers" => model = "bmi088")
    /\ Frames!Init /\ (used # "frames" => transform = Frames!identity)
    /\ Code!Init
    /\ Loop!Init /\ (used # "loop" => runs = "fuzzy")

UseHandler == used = "handler" /\ Next /\ UNCHANGED <<used, smallVars, motorVars, computeVars>>

UseSmall ==
    /\ UNCHANGED <<used, vars, motorVars, computeVars>>
    /\ \/ /\ used = "periodic timer" /\ (Timer!Tick \/ Timer!Periodic)
          /\ UNCHANGED <<controllerVars, floatVars, imuVars>>
       \/ /\ used = "conditional timer" /\ (Timer!Tick \/ Timer!Conditional)
          /\ UNCHANGED <<controllerVars, floatVars, imuVars>>
       \/ /\ used = "profiler" /\ ((time < ProfilingEnd /\ Timer!Tick) \/ Timer!Profiling)
          /\ UNCHANGED <<controllerVars, floatVars, imuVars>>
       \/ /\ used = "error controller" /\ Controller!Next
          /\ UNCHANGED <<timerVars, floatVars, imuVars>>
       \/ /\ used = "float" /\ Floats!Next
          /\ UNCHANGED <<timerVars, controllerVars, imuVars>>
       \/ /\ used = "imu" /\ Sensor!Next
          /\ UNCHANGED <<timerVars, controllerVars, floatVars>>

UseMotors ==
    /\ UNCHANGED <<used, vars, smallVars, computeVars>>
    /\ \/ used = "encoder" /\ Encoder!Next /\ UNCHANGED <<multiVars, djiVars, sparkVars>>
       \/ used = "multi encoder" /\ Multi!Next /\ UNCHANGED <<encoderVars, djiVars, sparkVars>>
       \/ used = "dji motors" /\ Dji!Transmit /\ UNCHANGED <<encoderVars, multiVars, sparkVars>>
       \/ /\ used = "dji reports"
          /\ Dji!setDoubleOutput \/ \E m \in Doubled : Dji!initialize(m) \/ Dji!Report(m)
          /\ UNCHANGED <<encoderVars, multiVars, sparkVars>>
       \/ /\ used = "rev motors" /\ Rev!Next /\ UNCHANGED reportVars
          /\ UNCHANGED <<encoderVars, multiVars, djiVars>>
       \/ used = "rev reports" /\ Rev!Listening /\ UNCHANGED <<encoderVars, multiVars, djiVars>>

UseComputing ==
    /\ UNCHANGED <<used, vars, smallVars, motorVars>>
    /\ \/ used = "registers" /\ Registers!Next /\ UNCHANGED <<transformVars, codeVars, loopVars>>
       \/ used = "frames" /\ Frames!Next /\ UNCHANGED <<registerVars, codeVars, loopVars>>
       \/ used = "code" /\ Code!Next /\ UNCHANGED <<registerVars, transformVars, loopVars>>
       \/ used = "loop" /\ Loop!Next /\ UNCHANGED <<registerVars, transformVars, codeVars>>

DevicesNext == UseHandler \/ UseSmall \/ UseMotors \/ UseComputing

DevicesSpec == DevicesInit /\ [][DevicesNext]_devicesVars

-----------------------------------------------------------------------------
(* An IMU is what its state says: connected, configured, calibrated; and its
   bytes are read as what was measured, in the units of its settings. *)
ImuCalibrates ==
    /\ used = "imu" => Sensor!ConnectedIsConfigured /\ Sensor!OffsetIsMean
    /\ used = "registers" =>
           Registers!RangesFitScales /\ Registers!ReadsWhatIsMeasured /\ Registers!WeightIsLeftByMpu

(* What the smaller parts promise: a periodic timer fires once in each of its
   periods but the first, and a conditional timer returns true after its
   condition held long enough; the list of errors keeps their order and its
   bound, and loses no other; a number on a circle obeys the laws of a circle,
   however it was computed; what is used in every loop keeps to its limits and
   its books; an IMU is what its state says. *)
PromisesKept ==
    /\ Timer!OncePerPeriod /\ Timer!HeldLongEnough /\ Timer!ProfilesTimes
    /\ Controller!OldestFirst
    /\ used = "float" => Floats!CircleLaws
    /\ used = "loop" => Loop!LoopKeeps
    /\ ImuCalibrates

(* A transform and its inverse agree about a frame that moves, the overlap of
   two ranges is what they share, what a loop computes solves its equations, and
   the codes of a message see what is damaged, up to a burst of their length. *)
ComputesRightly ==
    /\ used = "frames" => Frames!FramesAgree
    /\ used = "code" => Code!DamageIsSeen
    /\ used = "float" => Floats!OverlapIsShared
    /\ used = "loop" => Loop!LoopComputes

(* An encoder reports the turns of its shaft, and their speed; several
   encoders of one shaft agree whenever their mean is taken, unless what came
   and went mixed them. *)
EncodersFollow ==
    Encoder!FollowsShaft /\ Encoder!VelocityIsOfShaft /\ Multi!EncodersAgree

(* The mean continues as long as one of the encoders it was of is there, unless
   they are mixed. *)
PositionContinues ==
    [][ seenEncoders \intersect online # {} =>
            positions' \subseteq positions \/ positions = {} \/ mixed' ]_devicesVars

(* The motors of both kinds get what they were asked for, and two that drive
   one axle answer as one. *)
MotorsObey ==
    /\ used = "dji motors" => Dji!MotorsObey
    /\ used = "dji reports" => Dji!DoubleSpeaksForBoth
    /\ used = "rev motors" => Rev!SparksConfigured
    /\ used = "rev reports" => Rev!OnlineAsReported /\ Rev!HeartbeatsReachAll

(* An aligned encoder goes on with the position it was aligned to. *)
StaysAligned == Encoder!StaysAligned

-----------------------------------------------------------------------------
(* Of all objects together: a step of one leaves the others as they are. *)
DevicesInv ==
    /\ EncoderInv
    /\ DjiTyped /\ Dji!MotorsObey /\ DjiReported
    /\ RevInv /\ ReportInv
    /\ SensorInv /\ RegistersInv
    /\ LoopInv /\ ErrorInv /\ FloatInv /\ TimerInv

(* The invariant holds of what is constructed. *)
LEMMA DevicesStart == DevicesInit => DevicesInv /\ MultiInv
BY EncoderInit, MultiInit, DjiTypedInit, DjiReportedInit, RevInit, ReportStart, SensorStart,
   RegistersStart, LoopStart, ErrorStart, FloatStart, TimerStart, Zenon
   DEF DevicesInit, DevicesInv

(* What a step is to each of the objects. *)
LEMMA StepOfEach ==
    ASSUME [DevicesNext]_devicesVars
    PROVE  /\ Encoder!Next \/ UNCHANGED encoderVars
           /\ Multi!Next \/ UNCHANGED multiVars
           /\ [Rev!Next]_revVars
           /\ Rev!Listening \/ UNCHANGED reportVars
           /\ \/ Dji!Transmit
              \/ (\E m \in Motors : Dji!Report(m)) /\ UNCHANGED Dji!transmitVars
              \/ UNCHANGED djiVars
           /\ Sensor!Next \/ UNCHANGED imuVars
           /\ Registers!Next \/ UNCHANGED registerVars
           /\ Loop!Next \/ UNCHANGED loopVars
           /\ Controller!Next \/ UNCHANGED controllerVars
           /\ Floats!Next \/ UNCHANGED floatVars
           /\ Timer!Next \/ UNCHANGED timerVars
<1>1. CASE UNCHANGED devicesVars
  BY <1>1 DEF devicesVars, motorVars, encoderVars, multiVars, sparkVars, djiVars, smallVars,
             computeVars
<1>2. CASE UseHandler
  BY <1>2 DEF UseHandler, motorVars, sparkVars, smallVars, computeVars
<1>3. CASE UseSmall
  <2>1. Timer!Tick \/ Timer!Periodic \/ Timer!Conditional \/ Timer!Profiling <=> Timer!Next
    BY DEF Timer!Next
  <2>2. QED
    BY <1>3, <2>1, Zenon DEF UseSmall, motorVars, sparkVars, computeVars
<1>4. CASE UseComputing
  BY <1>4 DEF UseComputing, motorVars, sparkVars, smallVars
<1>5. CASE UseMotors
  <2> /\ UNCHANGED imuVars /\ UNCHANGED registerVars /\ UNCHANGED loopVars
      /\ UNCHANGED controllerVars /\ UNCHANGED floatVars /\ UNCHANGED timerVars
    BY <1>5, Zenon DEF UseMotors, smallVars, computeVars
  <2>1. CASE used = "encoder" /\ Encoder!Next /\ UNCHANGED <<multiVars, djiVars, sparkVars>>
    BY <2>1 DEF sparkVars
  <2>2. CASE used = "multi encoder" /\ Multi!Next /\ UNCHANGED <<encoderVars, djiVars, sparkVars>>
    BY <2>2, Zenon DEF sparkVars
  <2>3. CASE used = "dji motors" /\ Dji!Transmit /\ UNCHANGED <<encoderVars, multiVars, sparkVars>>
    BY <2>3, Zenon DEF sparkVars
  <2>4. CASE /\ used = "dji reports"
             /\ Dji!setDoubleOutput \/ \E m \in Doubled : Dji!initialize(m) \/ Dji!Report(m)
             /\ UNCHANGED <<encoderVars, multiVars, sparkVars>>
    <3>1. ASSUME NEW m \in Doubled, Dji!Report(m)
          PROVE  m \in Motors /\ UNCHANGED Dji!transmitVars
      BY <3>1, MotorAssumption DEF Dji!Report, Dji!processMessage, Dji!Disconnect, Dji!transmitVars
    <3>2. ASSUME NEW m \in Doubled, Dji!initialize(m) PROVE Dji!Transmit
      BY <3>2, MotorAssumption DEF Dji!Transmit
    <3>3. Dji!setDoubleOutput => Dji!Transmit
      BY DEF Dji!Transmit
    <3>4. QED
      BY <2>4, <3>1, <3>2, <3>3, Zenon DEF sparkVars
  <2>5. CASE /\ used = "rev motors" /\ Rev!Next /\ UNCHANGED reportVars
             /\ UNCHANGED <<encoderVars, multiVars, djiVars>>
    BY <2>5, Zenon
  <2>6. CASE used = "rev reports" /\ Rev!Listening /\ UNCHANGED <<encoderVars, multiVars, djiVars>>
    <3>1. Rev!initialize => Rev!Next
      BY DEF Rev!Next
    <3>2. UNCHANGED Rev!revVars => UNCHANGED revVars
      BY DEF Rev!revVars, revVars
    <3>3. Rev!Listening => Rev!Next \/ UNCHANGED revVars
      BY <3>1, <3>2, Zenon DEF Rev!Listening, Rev!Report, Rev!TimePasses, Rev!heartBeat
    <3>4. QED
      BY <2>6, <3>3, Zenon
  <2>7. QED
    BY <1>5, <2>1, <2>2, <2>3, <2>4, <2>5, <2>6, Zenon DEF UseMotors, sparkVars
<1>6. QED
  BY <1>1, <1>2, <1>3, <1>4, <1>5 DEF DevicesNext

(* And every step keeps it. *)
LEMMA DevicesStep == DevicesInv /\ [DevicesNext]_devicesVars => DevicesInv'
<1> SUFFICES ASSUME DevicesInv, [DevicesNext]_devicesVars PROVE DevicesInv'
  OBVIOUS
<1>1. EncoderInv'
  BY StepOfEach, EncoderStep DEF DevicesInv
<1>2. RevInv'
  BY StepOfEach, RevStep DEF DevicesInv
<1>3. DjiTyped' /\ Dji!MotorsObey'
  <2>1. Dji!Transmit \/ UNCHANGED Dji!transmitVars
    BY StepOfEach DEF djiVars, Dji!transmitVars
  <2>2. QED
    BY <2>1, DjiTransmits DEF DevicesInv
<1>4. DjiReported'
  <2>1. Dji!Transmit => UNCHANGED Dji!reportVars
    BY DEF Dji!Transmit, Dji!initialize, Dji!Destruct, Dji!setDesiredOutput,
           Dji!setDoubleOutput, Dji!SetOutputs, Dji!encodeAndSendCanData
  <2>2. UNCHANGED djiVars => UNCHANGED Dji!reportVars
    BY DEF djiVars, Dji!reportVars
  <2>3. (\E m \in Motors : Dji!Report(m)) \/ UNCHANGED Dji!reportVars
    BY <2>1, <2>2, StepOfEach
  <2>4. QED
    BY <2>3, DjiReports DEF DevicesInv
<1>5. ReportInv'
  BY StepOfEach, ReportStep DEF DevicesInv
<1>6. SensorInv' /\ RegistersInv'
  BY StepOfEach, SensorStep, RegistersStep DEF DevicesInv
<1>7. LoopInv' /\ ErrorInv'
  BY StepOfEach, LoopStep, ErrorStep DEF DevicesInv
<1>8. FloatInv' /\ TimerInv'
  BY StepOfEach, FloatStep, TimerStep DEF DevicesInv
<1>9. QED
  BY <1>1, <1>2, <1>3, <1>4, <1>5, <1>6, <1>7, <1>8 DEF DevicesInv

(* So it holds always, of any number of encoders. *)
LEMMA DevicesInvariant == DevicesSpec => []DevicesInv
BY DevicesStart, DevicesStep, PTL DEF DevicesSpec

LEMMA MultiInvariant == DevicesSpec => []MultiInv /\ [][MultiContinues]_devicesVars
<1>1. MultiInv /\ [DevicesNext]_devicesVars => MultiInv' /\ MultiContinues
  BY StepOfEach, MultiStep
<1>2. MultiInv /\ [DevicesNext]_devicesVars => [MultiContinues]_devicesVars
  BY <1>1
<1>3. QED
  BY <1>1, <1>2, DevicesStart, PTL DEF DevicesSpec

(* For any resolution, home positions, offsets and words: an encoder reports the
   turns of its shaft and their speed (wrapped_encoder.cpp), and of up to three
   encoders of one shaft, null ones among them or not, those that are there
   agree whenever their mean is taken, unless they were mixed since the last
   reset (multi_encoder.hpp). *)
THEOREM EncodersFollowShaft == DevicesSpec => []EncodersFollow
<1>1. DevicesInv /\ MultiInv => EncodersFollow
  BY EncoderReports, MultiAgrees DEF DevicesInv, EncodersFollow
<1>2. QED
  BY <1>1, DevicesInvariant, MultiInvariant, PTL

(* The mean of up to three encoders goes on when one of them comes or goes, as
   long as one that it was of is still there and they are not mixed
   (multi_encoder.hpp). *)
THEOREM MeanContinues == DevicesSpec => PositionContinues
BY MultiInvariant, PTL DEF PositionContinues, MultiContinues

(* Two encoders, the others being null, are never mixed: a double motor without
   an external encoder (double_dji_motor.cpp.in:60-64). *)
THEOREM TwoNeverMix ==
    ASSUME OneBeside
    PROVE  DevicesSpec => []~mixed
<1>1. DevicesInit => ~mixed
  BY DEF DevicesInit, Multi!Init
<1>2. MultiInv /\ ~mixed /\ [DevicesNext]_devicesVars => ~mixed'
  BY StepOfEach, NeverMixed
<1>3. QED
  BY <1>1, <1>2, MultiInvariant, PTL DEF DevicesSpec

(* For any motors, outputs and configurations: a frame carries to each DJI motor
   what it was given, in its quarter of the frame; two motors of one axle answer
   as one; a Spark Max holds what it was asked to, after the last message of its
   queue, and obeys no command before its frames are configured; a REV motor is
   online as long as its own controller reported, and heartbeats reach them all
   (dji_motor_tx_handler.cpp, double_dji_motor.cpp, rev_motor.cpp). *)
THEOREM MotorsAlwaysObey == DevicesSpec => []MotorsObey
<1>1. DevicesInv => MotorsObey
  BY DoubleSpeaks, RevObeys, OnlineReported DEF DevicesInv, MotorsObey
<1>2. QED
  BY <1>1, DevicesInvariant, PTL

(* For any samples and readings: an IMU that says it is connected is configured;
   one that is calibrated subtracts the mean of exactly the samples of its last
   calibration; its registers hold the settings that were chosen, and its bytes
   are read as what was measured, turned into the frame of the robot
   (abstract_imu.cpp, bmi088.cpp, mpu6500.cpp). *)
THEOREM ImuAlwaysCalibrates == DevicesSpec => []ImuCalibrates
<1>1. DevicesInv => ImuCalibrates
  BY SensorCalibrates, RegistersSay DEF DevicesInv, ImuCalibrates
<1>2. QED
  BY <1>1, DevicesInvariant, PTL

(* What the smaller parts promise holds for any periods, timeouts, names, sizes,
   bounds, readings and gains: a periodic timer fires once in each of its periods
   but the first, a conditional one after its condition held long enough, and the
   profiler keeps the shortest and the longest call; the list of errors keeps
   their order; a number on a circle is where its steps led it; a control loop
   keeps its limits and its books; and the IMU calibrates (periodic_timer.hpp,
   conditional_timer.hpp, profiler.cpp, error_controller.cpp, wrapped_float.cpp,
   smooth_pid.cpp, power_limiter.cpp, odometry_2d_tracker.cpp, servo.cpp). *)
THEOREM SmallPartsKeepPromises == DevicesSpec => []PromisesKept
<1>1. DevicesInv => PromisesKept
  <2>1. DevicesInv => ImuCalibrates
    BY SensorCalibrates, RegistersSay DEF DevicesInv, ImuCalibrates
  <2>2. QED
    BY <2>1, TimersKeepTime, ErrorsInOrder, FloatObeys, LoopSays DEF DevicesInv, PromisesKept
<1>2. QED
  BY <1>1, DevicesInvariant, PTL

-----------------------------------------------------------------------------
CONSTANTS dji1, dji1Again, dji8, rev1, rev8, other

MCCanIdentifier ==
    (dji1 :> 513) @@ (dji1Again :> 513) @@ (dji8 :> 520)
        @@ (rev1 :> 1) @@ (rev8 :> 8) @@ (other :> 513)

MCCanBus ==
    (dji1 :> 1) @@ (dji1Again :> 1) @@ (dji8 :> 1)
        @@ (rev1 :> 1) @@ (rev8 :> 1) @@ (other :> 2)

Frame(bus, identifier, extended) ==
    [bus |-> bus, identifier |-> identifier, extended |-> extended]

MCMessages == {Frame(1, 513, FALSE), Frame(1, 1, TRUE), Frame(1, 8, TRUE),
               Frame(2, 513, FALSE)}

MCOutputs == {-5, 2, 9}
MCTorques == {-4, -3, 3}
MCMotorTemperatures == {-1, 40}

MCLowers == {0, -3, 2}
MCAmounts == {-9, -3, -1, 0, 1, 2, 3, 5, 8}

MCMountings == {<<0, 0, 1>>, <<1, 2, 3>>}
MCReadings == {<<0, 0, 0>>, <<0, 0, 4096>>, <<-1, 300, -32768>>}
MCTemperatures == {-1024, -1, 700}

MCVectors == {<<0, 0, 0>>, <<1, 0, -2>>}
MCTurns == {<<0, 0, 0>>, <<0, 0, 1>>, <<1, 2, 3>>, <<0, 1, 1>>}
MCAngularVelocities == {<<0, 0, 0>>, <<0, 0, 1>>, <<-1, 0, 0>>}

(* One with a derivative, and one whose integral could go far beyond. *)
MCPidConfigs ==
    {[kp |-> 1, ki |-> 1, kd |-> 1, maxICumulative |-> 9, maxOutput |-> 20, errDeadzone |-> 1,
      errorDerivativeFloor |-> 3, smoothDeadzone |-> TRUE, antiSaturation |-> FALSE],
     [kp |-> 1, ki |-> 4, kd |-> 0, maxICumulative |-> 200, maxOutput |-> 10, errDeadzone |-> 1,
      errorDerivativeFloor |-> 0, smoothDeadzone |-> FALSE, antiSaturation |-> TRUE]}
MCPidErrors == {-2, 0, 4}
MCFilterCoefficients ==
    {[natural |-> <<2, -2, 4>>, forced |-> <<2, 4, -2>>],
     [natural |-> <<1, 1, -1>>, forced |-> <<1, 3, -3>>]}
MCFilterInputs == {-1, 2}
MCRates == {-2, 0, 3}
MCFuzzyParams == <<1, 2, 5>>
MCDrives == {<<1, 0>>}
MCOverride == <<0, 1>>
MCServos ==
    {[maximumPwm |-> 5, minimumPwm |-> 1, pwmRampSpeed |-> 1],
     [maximumPwm |-> 1, minimumPwm |-> 3, pwmRampSpeed |-> 2]}

CONSTANTS one, two, three, four, seven

MCMotorIdentifier == (one :> 513) @@ (two :> 516) @@ (three :> 517) @@ (four :> 520)
MCMotorCanBus == (one :> 1) @@ (two :> 1) @@ (three :> 1) @@ (four :> 2)
MCRevIdentifier == (one :> 1) @@ (seven :> 7)
MCRevCanBus == (one :> 1) @@ (seven :> 1)
=============================================================================
