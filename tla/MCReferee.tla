----------------------------- MODULE MCReferee -----------------------------
(***************************************************************************)
(* The robot and the referee system: what the messages of the referee say, *)
(* the damage that is made of them, the graphics a program configures, and *)
(* the senders of messages and of the indicators on the operator's screen. *)
(* They share nothing but the port, so one run uses one of them, chosen in *)
(* the initial state; the others stay as they are constructed.             *)
(***************************************************************************)
EXTENDS Integers, Sequences, TLC, SequenceTheorems, FiniteSetTheorems, TLAPS

CONSTANTS
    MaxHp, DPS_TRACKER_DEQUE_SIZE, Second, Horizon, MaxHits,
    OtherLengths, MsgIds, Handlers, MaxMessages,
    Transmitters, Indicators, Delay, GraphicWait, MIN_UPDATE_PERIOD, MsgLens, States,
    InitialState, Drawings, MaxConfigs

ASSUME TrackerAssumption == {DPS_TRACKER_DEQUE_SIZE, Second} \subseteq Nat \ {0}

VARIABLES
    used,  \* the part that is used
    time, previousHp, receivedDps, receivedDpsTracker, hits, overflowed, upToDate,
    buffer, count, fields, msgIdToRobotToRobotHandlerMap, called, latest, heard,
    robotId, transmissionDelayTimer, waiting, wire, sinceWrite, gap,
    pc, operation, shown, indicatorState, indicatorChanged, delayTimeout,
    minUpdatePeriodTimeout, display, lost,
    graphicData, drawn, generics, configs

Damage == INSTANCE RefSerial
Messages == INSTANCE RefSerialMessages
Screen == INSTANCE StateHUDIndicator
Graphics == INSTANCE RefSerialGraphics

ASSUME ScreenAssumption == Screen!ScreenAssumption
ASSUME OtherLengthsAssumption == Messages!OtherLengthsAssumption
ASSUME DrawingsAssumption == Graphics!DrawingsAssumption

damageVars == <<time, previousHp, receivedDps, receivedDpsTracker, hits, overflowed, upToDate>>
messagesVars == <<buffer, count, fields, msgIdToRobotToRobotHandlerMap, called, latest,
                 heard>>
screenVars == <<robotId, transmissionDelayTimer, waiting, wire, sinceWrite, gap, pc,
                operation, shown, indicatorState, indicatorChanged, delayTimeout,
                minUpdatePeriodTimeout, display, lost>>
graphicVars == <<graphicData, drawn, generics, configs>>
vars == <<used, damageVars, messagesVars, screenVars, graphicVars>>

Init ==
    /\ used \in {"damage", "messages", "screen", "graphics"}
    /\ Damage!Init /\ Messages!Init /\ Screen!Init /\ Graphics!Init

UseDamage ==
    /\ used = "damage"
    /\ Damage!Next
    /\ UNCHANGED <<used, messagesVars, screenVars, graphicVars>>

UseMessages ==
    /\ used = "messages"
    /\ Messages!Next
    /\ UNCHANGED <<used, damageVars, screenVars, graphicVars>>

UseGraphics ==
    /\ used = "graphics"
    /\ Graphics!Next
    /\ UNCHANGED <<used, damageVars, messagesVars, screenVars>>

OnlyScreen == used = "screen" /\ UNCHANGED <<used, damageVars, messagesVars, graphicVars>>

Next == UseDamage \/ UseMessages \/ UseGraphics \/ (Screen!Next /\ OnlyScreen)

(* The main loop runs every thread, and the clock does not stand still. *)
Fairness ==
    /\ WF_vars(Screen!Tick /\ OnlyScreen)
    /\ \A i \in Indicators : WF_vars(Screen!Indicator(i) /\ OnlyScreen)
    /\ \A t \in Transmitters \ Indicators : WF_vars(Screen!OtherThread(t) /\ OnlyScreen)

Spec == Init /\ [][Next]_vars /\ Fairness

(* The damage per second is that of the last second. *)
DpsIsRecentDamage == Damage!DpsIsRecentDamage

(* What robot and referee system say arrives as it was said: the data of the
   referee are those of the last message of each type, of which each has a
   decoder that reads every field from bits of its own; what is written is one
   frame, as its receiver counts it; and a graphic shows what it was last
   configured as. *)
SaidIsUnderstood ==
    /\ used = "messages" => /\ Messages!FieldsUpToDate /\ Messages!HandlersUpToDate
                           /\ Messages!DecodersServe
    /\ used = "screen" => Screen!WritesWholeFrames
    /\ used = "graphics" => Graphics!ShowsLastDrawing

(* All senders together keep to the rate of the referee system. *)
MessagesSpaced == Screen!MessagesSpaced

(* An indicator that has nothing to draw shows its state. *)
ShownIsCurrent == Screen!ShownIsCurrent

(* Of the threads that wait to send, one goes on. *)
NotAllWait == Screen!NotAllWait

-----------------------------------------------------------------------------
(* A behaviour of the robot is one of the senders, or leaves them as they are. *)
LEMMA RunsScreen == Spec => Screen!Spec
<1>1. Init => Screen!Init
  BY DEF Init
<1>2. [Next]_vars => [Screen!Next]_Screen!vars
  <2> SUFFICES ASSUME [Next]_vars
               PROVE  [Screen!Next]_Screen!vars
    OBVIOUS
  <2>1. CASE UNCHANGED screenVars
    BY <2>1 DEF screenVars, Screen!vars, Screen!transmitterVars, Screen!indicatorVars
  <2>2. CASE Screen!Next
    BY <2>2
  <2>3. QED
    BY <2>1, <2>2 DEF Next, UseDamage, UseMessages, UseGraphics, vars
<1>3. QED
  BY <1>1, <1>2, PTL DEF Spec, Screen!Spec

(***************************************************************************)
(* The rate of the messages to the referee system is kept, for any         *)
(* transmitters, indicators and delays (ref_serial_data.hpp:646-649).      *)
(***************************************************************************)
THEOREM RateKept == Spec => []MessagesSpaced
<1>1. Screen!ScreenAssumption
  BY ScreenAssumption
<1>2. Screen!Spec => []Screen!MessagesSpaced
  BY <1>1, Screen!RateKept
<1>3. QED
  BY <1>2, RunsScreen, PTL DEF MessagesSpaced

(***************************************************************************)
(* The operator sees the state of every indicator that has nothing left to *)
(* draw, for any indicators, states and other senders, unless a message    *)
(* was dropped or overtaken (state_hud_indicator.hpp:36-45).               *)
(***************************************************************************)
THEOREM StateShown == Spec => []ShownIsCurrent
<1>1. Screen!ScreenAssumption
  BY ScreenAssumption
<1>2. Screen!Spec => []Screen!ShownIsCurrent
  BY <1>1, Screen!StateShown
<1>3. QED
  BY <1>2, RunsScreen, PTL DEF ShownIsCurrent

-----------------------------------------------------------------------------
(***************************************************************************)
(* Why the damage per second is that of the last second.  The tracker has  *)
(* the hits but the first ones, and those are too old for ever: hits are   *)
(* noted in the order of their times.  What it has adds up to receivedDps. *)
(***************************************************************************)
Event == [damage : Int, timestamp : Int]

(* The first hits have left the tracker, or it has lost some. *)
Tracks(from) ==
    /\ Len(receivedDpsTracker) = Len(hits) - from
    /\ \A k \in 1 .. Len(receivedDpsTracker) : receivedDpsTracker[k] = hits[from + k]
    /\ \A k \in 1 .. from : ~Damage!Recent(hits[k])
    /\ upToDate => \A k \in from + 1 .. Len(hits) : Damage!Recent(hits[k])

DamageInv ==
    /\ {time, previousHp, receivedDps} \subseteq Int
    /\ overflowed \in BOOLEAN
    /\ hits \in Seq(Event) /\ receivedDpsTracker \in Seq(Event)
    /\ \A k \in 1 .. Len(hits) : hits[k].timestamp <= time
    /\ \A j, k \in 1 .. Len(hits) : j <= k => hits[j].timestamp <= hits[k].timestamp
    /\ ~overflowed => /\ \E from \in 0 .. Len(hits) : Tracks(from)
                      /\ receivedDps = Damage!Damage(receivedDpsTracker)

(* Induction over the numbers, for a set of them: otherwise its complement below
   some m would have a function to fewer elements that is one to one. *)
LEMMA Induction ==
    ASSUME NEW S, 0 \in S, \A n \in Nat : n \in S => n + 1 \in S
    PROVE  Nat \subseteq S
<1> SUFFICES ASSUME NEW m \in Nat, m \notin S
             PROVE  FALSE
  OBVIOUS
<1> DEFINE B == {n \in 0 .. m : n \notin S}
           C == B \ {m}
           f == [n \in B |-> n - 1]
<1>1. m \in B /\ B \subseteq 0 .. m
  OBVIOUS
<1>2. IsFiniteSet(B)
  <2>1. IsFiniteSet(0 .. m)
    BY FS_Interval
  <2>2. QED
    BY <1>1, <2>1, FS_Subset
<1>3. f \in [B -> C]
  <2> SUFFICES ASSUME NEW n \in B PROVE n - 1 \in C
    OBVIOUS
  <2>1. n \in 1 .. m
    OBVIOUS
  <2>2. n - 1 \notin S
    BY <2>1
  <2> QED
    BY <2>1, <2>2
<1>4. IsFiniteSet(C) /\ Cardinality(C) < Cardinality(B)
  <2> HIDE DEF B
  <2>1. QED
    <3>1. Cardinality(B) \in Nat
      BY <1>2, FS_CardinalityType
    <3>2. IsFiniteSet(B \ {m}) /\ Cardinality(B \ {m}) = Cardinality(B) - 1
      BY <1>1, <1>2, FS_RemoveElement
    <3>3. QED
      BY <3>1, <3>2
<1>5. \E x, y \in B : x # y /\ f[x] = f[y]
  <2> HIDE DEF B, C, f
  <2> QED
    BY <1>2, <1>3, <1>4, FS_PigeonHole
<1>6. QED
  BY <1>5

(* What is not empty and bounded has a largest element. *)
LEMMA Largest ==
    ASSUME NEW n \in Nat, NEW K \in SUBSET (0 .. n), 0 \in K
    PROVE  Damage!Max(K) \in K /\ \A x \in K : x <= Damage!Max(K)
<1> DEFINE S == {m \in Nat : \E x \in K : x >= m}
<1>1. \E x \in K : \A y \in K : x >= y
  <2> SUFFICES ASSUME \A x \in K : \E y \in K : ~(x >= y)
               PROVE  FALSE
    OBVIOUS
  <2>1. 0 \in S
    OBVIOUS
  <2>2. ASSUME NEW m \in Nat, m \in S
        PROVE  m + 1 \in S
    <3>1. PICK x \in K : x >= m
      BY <2>2
    <3>2. PICK y \in K : ~(x >= y)
      OBVIOUS
    <3>3. y >= m + 1
      BY <3>1, <3>2
    <3>4. QED
      BY <3>3
  <2>3. n + 1 \in S
    <3> HIDE DEF S
    <3>1. Nat \subseteq S
      BY <2>1, <2>2, Induction
    <3>2. QED
      BY <3>1
  <2>4. QED
    BY <2>3
<1>2. QED
  BY <1>1 DEF Damage!Max

(* What events add up to: there is a function of what the first ones do, ... *)
LEMMA Summed ==
    ASSUME NEW events, Len(events) \in Nat, \A k \in 1 .. Len(events) : events[k].damage \in Int
    PROVE  \E s : /\ s[0] = 0
                  /\ \A k \in 1 .. Len(events) : s[k] = s[k - 1] + events[k].damage
                  /\ \A k \in 0 .. Len(events) : s[k] \in Int
                  /\ Damage!Damage(events) = s[Len(events)]
<1> DEFINE Step(g, n) == [k \in 0 .. n |-> IF k = 0 THEN 0 ELSE g[k - 1] + events[k].damage]
           S == {n \in Nat : \E g : g = Step(g, n)}
           N == Len(events)
           F == CHOOSE g : g = Step(g, N)
<1>1. 0 \in S
  <2> DEFINE g0 == [k \in 0 .. 0 |-> 0]
  <2>1. g0 = Step(g0, 0)
    OBVIOUS
  <2>2. QED
    BY <2>1
<1>2. ASSUME NEW n \in Nat, n \in S PROVE n + 1 \in S
  <2>1. PICK g : g = Step(g, n)
    BY <1>2
  <2> DEFINE h == [k \in 0 .. n + 1 |-> IF k <= n THEN g[k] ELSE g[n] + events[n + 1].damage]
  <2>2. ASSUME NEW k \in 0 .. n + 1
        PROVE  h[k] = IF k = 0 THEN 0 ELSE h[k - 1] + events[k].damage
    <3>1. CASE k <= n
      <4>1. k \in 0 .. n /\ (k # 0 => k - 1 \in 0 .. n)
        BY <3>1
      <4>2. h[k] = g[k] /\ (k # 0 => h[k - 1] = g[k - 1])
        BY <4>1
      <4>3. g[k] = IF k = 0 THEN 0 ELSE g[k - 1] + events[k].damage
        BY <2>1, <4>1
      <4>4. QED
        BY <4>2, <4>3
    <3>2. CASE k = n + 1
      BY <3>2
    <3>3. QED
      BY <3>1, <3>2
  <2>3. h = Step(h, n + 1)
    <3> HIDE DEF h
    <3>1. h = [k \in 0 .. n + 1 |-> h[k]]
      BY DEF h
    <3>2. QED
      BY <2>2, <3>1
  <2> HIDE DEF h
  <2>4. QED
    BY <2>3, SMTT(40)
<1>3. N \in S
  <2> HIDE DEF S
  <2> QED BY <1>1, <1>2, Induction
<1>4. F = Step(F, N)
  BY <1>3
<1>5. Damage!Damage(events) = F[N]
  BY DEF Damage!Damage
<1> HIDE DEF F
<1>6. F[0] = 0 /\ \A k \in 1 .. N : F[k] = F[k - 1] + events[k].damage
  BY <1>4
<1>7. \A k \in 0 .. N : F[k] \in Int
  <2> DEFINE T == {n \in Nat : n <= N => F[n] \in Int}
  <2>1. 0 \in T
    BY <1>6
  <2>2. ASSUME NEW n \in Nat, n \in T PROVE n + 1 \in T
    <3> SUFFICES ASSUME n + 1 <= N
                 PROVE  F[n + 1] \in Int
      OBVIOUS
    <3>1. n + 1 \in 1 .. N /\ F[n] \in Int
      BY <2>2
    <3>2. F[n + 1] = F[n] + events[n + 1].damage /\ events[n + 1].damage \in Int
      BY <1>6, <3>1
    <3>3. QED
      BY <3>1, <3>2
  <2>3. Nat \subseteq T
    <3> HIDE DEF T
    <3> QED BY <2>1, <2>2, Induction
  <2>4. QED
    BY <2>3
<1>8. QED
  BY <1>5, <1>6, <1>7

(* ... and every such function says the same. *)
LEMMA SumOf ==
    ASSUME NEW events, Len(events) \in Nat, \A k \in 1 .. Len(events) : events[k].damage \in Int,
           NEW s, s[0] = 0, \A k \in 1 .. Len(events) : s[k] = s[k - 1] + events[k].damage
    PROVE  Damage!Damage(events) = s[Len(events)]
<1>1. PICK g : /\ g[0] = 0
               /\ \A k \in 1 .. Len(events) : g[k] = g[k - 1] + events[k].damage
               /\ Damage!Damage(events) = g[Len(events)]
  BY Summed
<1> DEFINE S == {n \in Nat : n <= Len(events) => g[n] = s[n]}
<1>2. 0 \in S
  BY <1>1
<1>3. ASSUME NEW n \in Nat, n \in S PROVE n + 1 \in S
  <2> SUFFICES ASSUME n + 1 <= Len(events)
               PROVE  g[n + 1] = s[n + 1]
    OBVIOUS
  <2>1. n + 1 \in 1 .. Len(events) /\ g[n] = s[n] /\ n + 1 - 1 = n
    BY <1>3
  <2>2. QED
    BY <1>1, <2>1
<1>4. Nat \subseteq S
  <2> HIDE DEF S
  <2> QED BY <1>2, <1>3, Induction
<1>5. QED
  BY <1>1, <1>4

LEMMA Events ==
    ASSUME NEW events \in Seq(Event)
    PROVE  /\ Len(events) \in Nat
           /\ \A k \in 1 .. Len(events) : /\ events[k] \in Event
                                          /\ events[k].damage \in Int
                                          /\ events[k].timestamp \in Int
<1>1. Len(events) \in Nat
  BY LenProperties
<1>2. ASSUME NEW k \in 1 .. Len(events) PROVE events[k] \in Event
  BY ElementOfSeq
<1>3. QED
  BY <1>1, <1>2 DEF Event

(* Without the first events it is less by what those are, ... *)
LEMMA DamageWithoutFirst ==
    ASSUME NEW events \in Seq(Event), NEW gone \in 0 .. Len(events)
    PROVE  /\ Damage!Damage(SubSeq(events, 1, gone)) \in Int
           /\ Damage!Damage(events) \in Int
           /\ Damage!Damage(SubSeq(events, gone + 1, Len(events)))
                  = Damage!Damage(events) - Damage!Damage(SubSeq(events, 1, gone))
           /\ SubSeq(events, gone + 1, Len(events)) \in Seq(Event)
           /\ Len(SubSeq(events, gone + 1, Len(events))) = Len(events) - gone
           /\ \A k \in 1 .. Len(events) - gone :
                  SubSeq(events, gone + 1, Len(events))[k] = events[gone + k]
<1> DEFINE front == SubSeq(events, 1, gone)
           rest == SubSeq(events, gone + 1, Len(events))
           n == Len(events)
<1>1. n \in Nat /\ gone \in Nat /\ gone <= n
  BY LenProperties
<1>2. /\ front \in Seq(Event) /\ Len(front) = gone
      /\ \A k \in 1 .. gone : front[k] = events[k]
  <2>1. \A i \in 1 .. gone : events[i] \in Event
    BY <1>1, Events
  <2>2. /\ front \in Seq(Event)
        /\ Len(front) = (IF 1 <= gone THEN gone - 1 + 1 ELSE 0)
        /\ \A i \in 1 .. gone - 1 + 1 : front[i] = events[1 + i - 1]
    BY <1>1, <2>1, SubSeqProperties
  <2> HIDE DEF front
  <2>3. QED
    BY <1>1, <2>2
<1>3. /\ rest \in Seq(Event) /\ Len(rest) = n - gone
      /\ \A k \in 1 .. n - gone : rest[k] = events[gone + k]
  <2>1. \A i \in gone + 1 .. n : events[i] \in Event
    BY <1>1, Events
  <2>2. /\ rest \in Seq(Event)
        /\ Len(rest) = (IF gone + 1 <= n THEN n - (gone + 1) + 1 ELSE 0)
        /\ \A i \in 1 .. n - (gone + 1) + 1 : rest[i] = events[gone + 1 + i - 1]
    BY <1>1, <2>1, SubSeqProperties
  <2> HIDE DEF rest
  <2>3. QED
    BY <1>1, <2>2
<1>4. PICK s : /\ s[0] = 0
               /\ \A k \in 1 .. n : s[k] = s[k - 1] + events[k].damage
               /\ \A k \in 0 .. n : s[k] \in Int
               /\ Damage!Damage(events) = s[n]
  BY Events, Summed
<1> HIDE DEF front, rest, n
<1>5. Damage!Damage(front) = s[gone]
  <2>1. \A k \in 1 .. gone : s[k] = s[k - 1] + front[k].damage
    BY <1>1, <1>2, <1>4, SMTT(40)
  <2>2. \A k \in 1 .. Len(front) : front[k].damage \in Int
    BY <1>2, Events
  <2>3. QED
    BY <1>1, <1>2, <1>4, <2>1, <2>2, SumOf
<1>6. Damage!Damage(rest) = s[n] - s[gone]
  <2> DEFINE t == [k \in 0 .. n - gone |-> s[gone + k] - s[gone]]
  <2>1. t[0] = 0
    BY <1>1, <1>4
  <2>2. ASSUME NEW k \in 1 .. n - gone
        PROVE  t[k] = t[k - 1] + rest[k].damage
    <3>1. gone + k \in 1 .. n /\ gone + k - 1 \in 0 .. n /\ gone \in 0 .. n
      BY <1>1
    <3>2. s[gone + k] = s[gone + k - 1] + events[gone + k].damage /\ rest[k] = events[gone + k]
      BY <1>3, <1>4, <3>1
    <3>3. s[gone + k - 1] \in Int /\ s[gone] \in Int /\ events[gone + k].damage \in Int
      BY <1>4, <3>1, Events DEF n
    <3>4. t[k] = s[gone + k] - s[gone] /\ t[k - 1] = s[gone + k - 1] - s[gone]
      <4>1. k \in 0 .. n - gone /\ k - 1 \in 0 .. n - gone /\ gone + (k - 1) = gone + k - 1
        BY <1>1
      <4>2. QED
        BY <4>1
    <3> HIDE DEF t
    <3>5. QED
      BY <3>2, <3>3, <3>4
  <2>3. t[n - gone] = s[n] - s[gone]
    <3>1. n - gone \in 0 .. n - gone /\ gone + (n - gone) = n
      BY <1>1
    <3>2. QED
      BY <3>1
  <2> HIDE DEF t
  <2>4. \A k \in 1 .. Len(rest) : rest[k].damage \in Int
    BY <1>3, Events
  <2>5. Len(rest) \in Nat
    BY <1>1, <1>3
  <2>6. Damage!Damage(rest) = t[Len(rest)]
    BY <1>3, <2>1, <2>2, <2>4, <2>5, SumOf
  <2>7. QED
    BY <1>3, <2>3, <2>6
<1>7. QED
  BY <1>1, <1>3, <1>4, <1>5, <1>6 DEF front, rest, n

(* ... and with one more it is more by that one. *)
LEMMA DamageWithOneMore ==
    ASSUME NEW events \in Seq(Event), NEW event \in Event
    PROVE  Damage!Damage(Append(events, event)) = Damage!Damage(events) + event.damage
<1> DEFINE more == Append(events, event)
           n == Len(events)
<1>1. n \in Nat
  BY LenProperties
<1>2. /\ more \in Seq(Event) /\ Len(more) = n + 1 /\ more[n + 1] = event
      /\ \A k \in 1 .. n : more[k] = events[k]
  BY AppendProperties
<1>3. PICK s : /\ s[0] = 0
               /\ \A k \in 1 .. n : s[k] = s[k - 1] + events[k].damage
               /\ \A k \in 0 .. n : s[k] \in Int
               /\ Damage!Damage(events) = s[n]
  BY Events, Summed
<1> HIDE DEF more, n
<1> DEFINE t == [k \in 0 .. n + 1 |-> IF k <= n THEN s[k] ELSE s[n] + event.damage]
<1>4. t[0] = 0 /\ t[n + 1] = s[n] + event.damage
  BY <1>1, <1>3
<1>5. ASSUME NEW k \in 1 .. n + 1
      PROVE  t[k] = t[k - 1] + more[k].damage
  <2>1. CASE k <= n
    <3>1. k \in 1 .. n /\ k - 1 \in 0 .. n /\ k \in 0 .. n + 1 /\ k - 1 \in 0 .. n + 1 /\ k - 1 <= n
      BY <1>1, <2>1
    <3>2. t[k] = s[k] /\ t[k - 1] = s[k - 1]
      BY <2>1, <3>1
    <3>3. QED
      BY <1>2, <1>3, <3>1, <3>2
  <2>2. CASE k = n + 1
    <3>1. k - 1 = n /\ n \in 0 .. n + 1 /\ n <= n
      BY <1>1, <2>2
    <3>2. t[k - 1] = s[n]
      BY <3>1
    <3>3. QED
      BY <1>2, <1>4, <2>2, <3>2
  <2>3. QED
    BY <1>1, <2>1, <2>2
<1> HIDE DEF t
<1>6. \A k \in 1 .. Len(more) : more[k].damage \in Int
  BY <1>2, Events
<1>7. Damage!Damage(more) = t[n + 1]
  <2>1. Len(more) \in Nat /\ \A k \in 1 .. Len(more) : t[k] = t[k - 1] + more[k].damage
    BY <1>1, <1>2, <1>5
  <2>2. Damage!Damage(more) = t[Len(more)]
    BY <1>4, <1>6, <2>1, SumOf
  <2>3. QED
    BY <1>2, <2>2
<1>8. QED
  BY <1>3, <1>4, <1>7 DEF more

(* The hits of the last second are what the tracker has. *)
LEMMA TrackedIsRecent ==
    ASSUME DamageInv, NEW from \in 0 .. Len(hits), Tracks(from), upToDate
    PROVE  Damage!RecentDamage = Damage!Damage(receivedDpsTracker)
<1> DEFINE tracker == receivedDpsTracker
           n == Len(hits)
           masked == [k \in 1 .. n |->
                         [hits[k] EXCEPT !.damage = IF Damage!Recent(hits[k]) THEN @ ELSE 0]]
<1>1. /\ n \in Nat /\ from \in Nat /\ from <= n
      /\ tracker \in Seq(Event) /\ Len(tracker) = n - from
      /\ \A k \in 1 .. n - from : tracker[k] = hits[from + k]
      /\ \A k \in 1 .. n : hits[k] \in Event /\ hits[k].damage \in Int
  BY Events DEF DamageInv, Tracks
<1>2. ASSUME NEW k \in 1 .. n
      PROVE  masked[k].damage = IF k <= from THEN 0 ELSE hits[k].damage
  <2>1. masked[k].damage = IF Damage!Recent(hits[k]) THEN hits[k].damage ELSE 0
    BY <1>1 DEF Event
  <2>2. IF k <= from THEN k \in 1 .. from ELSE k \in from + 1 .. Len(hits)
    BY <1>1
  <2>3. Damage!Recent(hits[k]) <=> ~(k <= from)
    BY <2>2 DEF Tracks
  <2> HIDE DEF masked
  <2>4. QED
    BY <2>1, <2>3
<1>3. Len(masked) = n
  BY <1>1
<1>4. PICK s : /\ s[0] = 0
               /\ \A k \in 1 .. n - from : s[k] = s[k - 1] + tracker[k].damage
               /\ \A k \in 0 .. n - from : s[k] \in Int
               /\ Damage!Damage(tracker) = s[n - from]
  <2> HIDE DEF tracker, n
  <2>1. Len(tracker) \in Nat /\ \A k \in 1 .. Len(tracker) : tracker[k].damage \in Int
    BY <1>1, Events
  <2>2. QED
    BY <1>1, <2>1, Summed
<1> DEFINE t == [k \in 0 .. n |-> IF k <= from THEN 0 ELSE s[k - from]]
<1> HIDE DEF masked, tracker, n
<1>5. t[0] = 0 /\ t[n] = s[n - from]
  BY <1>1, <1>4
<1>6. ASSUME NEW k \in 1 .. n
      PROVE  t[k] = t[k - 1] + masked[k].damage
  <2>1. k \in 0 .. n /\ k - 1 \in 0 .. n
    BY <1>1
  <2>2. CASE k <= from
    <3>1. t[k] = 0 /\ t[k - 1] = 0 /\ masked[k].damage = 0
      BY <1>1, <1>2, <2>1, <2>2
    <3>2. QED
      BY <3>1
  <2>3. CASE ~(k <= from)
    <3>1. k - from \in 1 .. n - from /\ from + (k - from) = k /\ k - 1 - from = k - from - 1
      BY <1>1, <2>3
    <3>2. t[k] = s[k - from]
      BY <2>1, <2>3
    <3>3. t[k - 1] = s[k - from - 1]
      <4>1. CASE k - 1 <= from
        <5>1. k - from - 1 = 0
          BY <1>1, <2>3, <4>1
        <5>2. QED
          BY <1>4, <2>1, <4>1, <5>1
      <4>2. CASE ~(k - 1 <= from)
        BY <2>1, <3>1, <4>2
      <4>3. QED
        BY <4>1, <4>2
    <3>4. s[k - from] = s[k - from - 1] + tracker[k - from].damage /\ tracker[k - from] = hits[k]
      BY <1>1, <1>4, <3>1
    <3>5. masked[k].damage = hits[k].damage
      BY <1>2, <2>3
    <3> HIDE DEF t
    <3>6. QED
      BY <3>2, <3>3, <3>4, <3>5
  <2>4. QED
    BY <2>2, <2>3
<1> HIDE DEF t
<1>7. ASSUME NEW k \in 1 .. n PROVE masked[k].damage \in Int
  <2>1. masked[k].damage = IF k <= from THEN 0 ELSE hits[k].damage
    BY <1>2
  <2>2. hits[k].damage \in Int
    BY <1>1
  <2>3. QED
    BY <2>1, <2>2
<1>8. Damage!Damage(masked) = t[n]
  <2>1. Len(masked) \in Nat
    BY <1>1, <1>3
  <2>2. Damage!Damage(masked) = t[Len(masked)]
    BY <1>3, <1>5, <1>6, <1>7, <2>1, SumOf
  <2>3. QED
    BY <1>3, <2>2
<1>9. Damage!RecentDamage = Damage!Damage(masked)
  BY DEF Damage!RecentDamage, masked, n
<1>10. QED
  BY <1>4, <1>5, <1>8, <1>9 DEF tracker

(* What updateReceivedDamage() leaves of the tracker. *)
Left(u, from) ==
    /\ Len(u.tracker) = Len(hits) - from
    /\ \A k \in 1 .. Len(u.tracker) : u.tracker[k] = hits[from + k]
    /\ \A k \in 1 .. from : ~Damage!Recent(hits[k])
    /\ \A k \in from + 1 .. Len(hits) : Damage!Recent(hits[k])

LEMMA Updated ==
    ASSUME TrackerAssumption, DamageInv, NEW u, u = Damage!updateReceivedDamage
    PROVE  /\ u.dps \in Int /\ u.tracker \in Seq(Event)
           /\ ~overflowed => /\ \E from \in 0 .. Len(hits) : Left(u, from)
                             /\ u.dps = Damage!Damage(u.tracker)
<1> DEFINE tracker == receivedDpsTracker
           n == Len(tracker)
           K == {k \in 0 .. n : \A j \in 1 .. k : Damage!Expired(tracker[j])}
           gone == Damage!Max(K)
<1>1. /\ n \in Nat /\ tracker \in Seq(Event) /\ Len(hits) \in Nat
      /\ \A k \in 1 .. n : tracker[k] \in Event /\ tracker[k].timestamp \in Int
      /\ \A k \in 1 .. Len(hits) : hits[k].timestamp \in Int
      /\ time \in Int /\ receivedDps \in Int /\ Second \in Int
  BY Events DEF DamageInv, TrackerAssumption
<1>2. gone \in K /\ \A x \in K : x <= gone
  <2>1. 0 \in K
    BY <1>1
  <2> HIDE DEF K, n
  <2>2. K \in SUBSET (0 .. n)
    BY DEF K
  <2>3. QED
    BY <1>1, <2>1, <2>2, Largest
<1>3. /\ u.dps = receivedDps - Damage!Damage(SubSeq(tracker, 1, gone))
      /\ u.tracker = SubSeq(tracker, gone + 1, n)
  BY DEF Damage!updateReceivedDamage
<1> HIDE DEF gone, tracker
<1>4. gone \in 0 .. n /\ \A j \in 1 .. gone : Damage!Expired(tracker[j])
  BY <1>2
<1>5. gone < n => ~Damage!Expired(tracker[gone + 1])
  <2> SUFFICES ASSUME gone < n, Damage!Expired(tracker[gone + 1])
               PROVE  FALSE
    OBVIOUS
  <2>1. gone + 1 \in 0 .. n /\ \A j \in 1 .. gone + 1 : j \in 1 .. gone \/ j = gone + 1
    BY <1>1, <1>4
  <2>2. gone + 1 \in K
    BY <1>4, <2>1
  <2> HIDE DEF K
  <2>3. QED
    BY <1>2, <1>4, <2>2
<1> HIDE DEF K
<1>6. /\ Damage!Damage(SubSeq(tracker, 1, gone)) \in Int
      /\ Damage!Damage(u.tracker) = Damage!Damage(tracker) - Damage!Damage(SubSeq(tracker, 1, gone))
      /\ u.tracker \in Seq(Event) /\ Len(u.tracker) = n - gone
      /\ \A k \in 1 .. n - gone : u.tracker[k] = tracker[gone + k]
  BY <1>1, <1>3, <1>4, DamageWithoutFirst
<1>7. ASSUME ~overflowed
      PROVE  \E from \in 0 .. Len(hits) : Left(u, from)
  <2>1. PICK before \in 0 .. Len(hits) : Tracks(before)
    BY <1>7 DEF DamageInv
  <2>2. /\ n = Len(hits) - before /\ \A k \in 1 .. n : tracker[k] = hits[before + k]
        /\ \A k \in 1 .. before : ~Damage!Recent(hits[k])
    BY <2>1 DEF Tracks, tracker
  <2> HIDE DEF n
  <2> DEFINE from == before + gone
  <2>3. from \in 0 .. Len(hits) /\ Len(u.tracker) = Len(hits) - from
    BY <1>1, <1>4, <1>6, <2>2
  <2>4. \A k \in 1 .. Len(u.tracker) : u.tracker[k] = hits[from + k]
    BY <1>1, <1>4, <1>6, <2>2
  <2>5. ASSUME NEW k \in 1 .. from
        PROVE  ~Damage!Recent(hits[k])
    <3>1. CASE k <= before
      <4>1. k \in 1 .. before
        BY <3>1
      <4>2. QED
        BY <2>2, <4>1
    <3>2. CASE ~(k <= before)
      <4>1. k - before \in 1 .. gone /\ k - before \in 1 .. n /\ before + (k - before) = k
            /\ k \in 1 .. Len(hits)
        BY <1>1, <1>4, <2>2, <2>3, <3>2, SMTT(40)
      <4>2. Damage!Expired(hits[k])
        BY <1>4, <2>2, <4>1
      <4>3. hits[k].timestamp \in Int
        BY <1>1, <4>1
      <4>4. QED
        BY <1>1, <4>2, <4>3 DEF Damage!Expired, Damage!Recent
    <3>3. QED
      BY <3>1, <3>2
  <2>6. ASSUME NEW k \in from + 1 .. Len(hits)
        PROVE  Damage!Recent(hits[k])
    <3>1. gone < n /\ gone + 1 \in 1 .. n /\ before + (gone + 1) = from + 1
          /\ from + 1 \in 1 .. Len(hits) /\ k \in 1 .. Len(hits) /\ from + 1 <= k
      BY <1>1, <1>4, <2>2, <2>3
    <3>2. ~Damage!Expired(hits[from + 1])
      BY <1>5, <2>2, <3>1
    <3>3. hits[from + 1].timestamp <= hits[k].timestamp
      BY <3>1 DEF DamageInv
    <3>4. hits[k].timestamp \in Int /\ hits[from + 1].timestamp \in Int
      BY <1>1, <3>1
    <3> HIDE DEF from
    <3>5. QED
      BY <1>1, <3>2, <3>3, <3>4 DEF Damage!Expired, Damage!Recent
  <2> HIDE DEF from
  <2>7. QED
    BY <2>3, <2>4, <2>5, <2>6 DEF Left
<1>8. ~overflowed => u.dps = Damage!Damage(u.tracker)
  BY <1>3, <1>6 DEF DamageInv, tracker
<1>9. QED
  BY <1>1, <1>3, <1>6, <1>7, <1>8

LEMMA DamageTick == ASSUME TrackerAssumption, DamageInv, Damage!Tick PROVE DamageInv'
<1>1. /\ time' = time + 1 /\ upToDate' = FALSE
      /\ UNCHANGED <<previousHp, receivedDps, receivedDpsTracker, hits, overflowed>>
  BY DEF Damage!Tick
<1>2. /\ time \in Int /\ Second \in Int /\ Len(hits) \in Nat
      /\ \A k \in 1 .. Len(hits) : hits[k].timestamp \in Int
  BY Events DEF DamageInv, TrackerAssumption
<1>3. \A k \in 1 .. Len(hits) : hits[k].timestamp <= time'
  BY <1>1, <1>2 DEF DamageInv
<1>4. ASSUME NEW from \in 0 .. Len(hits), Tracks(from)
      PROVE  Tracks(from)'
  <2>1. ASSUME NEW k \in 1 .. from
        PROVE  ~(time' <= hits[k].timestamp + Second)
    <3>1. ~(time <= hits[k].timestamp + Second) /\ k \in 1 .. Len(hits)
      BY <1>2, <1>4 DEF Tracks, Damage!Recent
    <3>2. QED
      BY <1>1, <1>2, <3>1
  <2>2. QED
    BY <1>1, <1>4, <2>1 DEF Tracks, Damage!Recent
<1>5. Damage!Damage(receivedDpsTracker)' = Damage!Damage(receivedDpsTracker)
  BY <1>1
<1>6. time' \in Int
  BY <1>1, <1>2
<1>7. QED
  BY <1>1, <1>3, <1>4, <1>5, <1>6 DEF DamageInv

(* A message without a hit. *)
LEMMA DamageOther ==
    ASSUME TrackerAssumption, DamageInv, NEW u, u = Damage!updateReceivedDamage,
           receivedDps' = u.dps, receivedDpsTracker' = u.tracker, previousHp' \in Int,
           UNCHANGED <<time, hits, overflowed>>
    PROVE  DamageInv'
<1>1. /\ u.dps \in Int /\ u.tracker \in Seq(Event)
      /\ ~overflowed => /\ \E from \in 0 .. Len(hits) : Left(u, from)
                        /\ u.dps = Damage!Damage(u.tracker)
  BY Updated
<1>2. ASSUME NEW from \in 0 .. Len(hits), Left(u, from)
      PROVE  Tracks(from)'
  BY <1>2 DEF Left, Tracks, Damage!Recent
<1>3. QED
  BY <1>1, <1>2 DEF DamageInv

(* A message with a hit. *)
LEMMA DamageHit ==
    ASSUME TrackerAssumption, DamageInv, NEW u, u = Damage!updateReceivedDamage,
           NEW event \in Event, event.timestamp = time, previousHp' \in Int,
           receivedDps' = u.dps + event.damage,
           receivedDpsTracker' = Damage!Appended(u.tracker, event),
           hits' = Append(hits, event),
           overflowed' = (overflowed \/ Len(u.tracker) = DPS_TRACKER_DEQUE_SIZE),
           UNCHANGED time
    PROVE  DamageInv'
<1> DEFINE n == Len(hits)
<1>1. /\ u.dps \in Int /\ u.tracker \in Seq(Event) /\ Len(u.tracker) \in Nat
      /\ ~overflowed => /\ \E from \in 0 .. Len(hits) : Left(u, from)
                        /\ u.dps = Damage!Damage(u.tracker)
  BY Updated, Events
<1>2. /\ n \in Nat /\ hits' \in Seq(Event) /\ Len(hits') = n + 1 /\ hits'[n + 1] = event
      /\ \A k \in 1 .. n : hits'[k] = hits[k] /\ hits[k].timestamp \in Int
      /\ time \in Int /\ Second \in Nat /\ event.damage \in Int
  <2>1. hits \in Seq(Event)
    BY DEF DamageInv
  <2>2. n \in Nat /\ \A k \in 1 .. n : hits[k].timestamp \in Int
    BY <2>1, Events
  <2>3. /\ hits' \in Seq(Event) /\ Len(hits') = n + 1 /\ hits'[n + 1] = event
        /\ \A k \in 1 .. n : hits'[k] = hits[k]
    BY <2>1, AppendProperties
  <2>4. time \in Int /\ Second \in Nat /\ event.damage \in Int
    BY DEF DamageInv, TrackerAssumption, Event
  <2>5. QED
    BY <2>2, <2>3, <2>4
<1>3. receivedDpsTracker' \in Seq(Event)
  <2>1. CASE Len(u.tracker) = DPS_TRACKER_DEQUE_SIZE
    <3> DEFINE front == SubSeq(u.tracker, 1, Len(u.tracker) - 1)
    <3>1. \A k \in 1 .. Len(u.tracker) - 1 : u.tracker[k] \in Event
      BY <1>1, Events
    <3>2. front \in Seq(Event)
      BY <1>1, <3>1, SubSeqProperties
    <3>3. receivedDpsTracker' = Append(front, event)
      BY <2>1 DEF Damage!Appended, Damage!Front
    <3> HIDE DEF front
    <3>4. QED
      BY <3>2, <3>3, AppendProperties
  <2>2. CASE Len(u.tracker) # DPS_TRACKER_DEQUE_SIZE
    <3>1. receivedDpsTracker' = Append(u.tracker, event)
      BY <2>2 DEF Damage!Appended
    <3>2. QED
      BY <1>1, <3>1, AppendProperties
  <2>3. QED
    BY <2>1, <2>2
<1>4. \A k \in 1 .. n : hits[k].timestamp <= time
  BY DEF DamageInv
<1>5. \A k \in 1 .. n + 1 : IF k <= n THEN k \in 1 .. n ELSE k = n + 1
  BY <1>2
<1>6. \A k \in 1 .. n + 1 : hits'[k].timestamp <= time
  BY <1>2, <1>4, <1>5
<1>7. ASSUME NEW j \in 1 .. n + 1, NEW k \in 1 .. n + 1, j <= k
      PROVE  hits'[j].timestamp <= hits'[k].timestamp
  <2>1. CASE k <= n
    <3>1. j \in 1 .. n /\ k \in 1 .. n
      BY <1>2, <1>7, <2>1
    <3>2. QED
      BY <1>2, <1>7, <3>1 DEF DamageInv
  <2>2. CASE ~(k <= n)
    BY <1>2, <1>5, <1>6, <2>2
  <2>3. QED
    BY <2>1, <2>2
<1>8. ASSUME ~overflowed'
      PROVE  /\ \E from \in 0 .. Len(hits') : Tracks(from)'
             /\ receivedDps' = Damage!Damage(receivedDpsTracker')
  <2>1. receivedDpsTracker' = Append(u.tracker, event) /\ ~overflowed
    BY <1>8 DEF Damage!Appended
  <2>2. PICK from \in 0 .. n : Left(u, from)
    BY <1>1, <2>1
  <2>3. /\ Len(receivedDpsTracker') = Len(u.tracker) + 1
        /\ receivedDpsTracker'[Len(u.tracker) + 1] = event
        /\ \A k \in 1 .. Len(u.tracker) : receivedDpsTracker'[k] = u.tracker[k]
    BY <1>1, <2>1, AppendProperties
  <2>4. /\ Len(u.tracker) = n - from /\ \A k \in 1 .. n - from : u.tracker[k] = hits[from + k]
        /\ \A k \in 1 .. from : ~Damage!Recent(hits[k])
        /\ \A k \in from + 1 .. n : Damage!Recent(hits[k])
    BY <2>2 DEF Left
  <2> HIDE DEF n
  <2>5. Len(receivedDpsTracker') = Len(hits') - from
    BY <1>2, <2>3, <2>4
  <2>6. ASSUME NEW k \in 1 .. n + 1 - from
        PROVE  receivedDpsTracker'[k] = hits'[from + k]
    <3>1. CASE k <= n - from
      <4>1. k \in 1 .. n - from /\ from + k \in 1 .. n
        BY <1>2, <3>1
      <4>2. QED
        BY <1>2, <2>3, <2>4, <4>1
    <3>2. CASE k = n - from + 1
      <4>1. k = (n - from) + 1 /\ from + k = n + 1
        BY <1>2, <3>2
      <4>2. QED
        BY <1>2, <2>3, <2>4, <4>1
    <3>3. k <= n - from \/ k = n - from + 1
      <4>1. n \in Nat /\ from \in 0 .. n
        BY <1>2
      <4>2. QED
        BY <4>1
    <3>4. QED
      BY <3>1, <3>2, <3>3
  <2>7. \A k \in 1 .. from : ~Damage!Recent(hits'[k])
    BY <1>2, <2>4
  <2>8. ASSUME NEW k \in from + 1 .. n + 1
        PROVE  Damage!Recent(hits'[k])
    <3>1. CASE k <= n
      <4>1. k \in from + 1 .. n /\ k \in 1 .. n
        BY <1>2, <3>1
      <4>2. QED
        BY <1>2, <2>4, <4>1
    <3>2. CASE k = n + 1
      BY <1>2, <3>2 DEF Damage!Recent
    <3>3. k <= n \/ k = n + 1
      <4>1. n \in Nat /\ from \in 0 .. n
        BY <1>2
      <4>2. QED
        BY <4>1
    <3>4. QED
      BY <3>1, <3>2, <3>3
  <2>9. from \in 0 .. Len(hits') /\ n + 1 - from = Len(receivedDpsTracker')
    BY <1>2, <2>5
  <2>10. Tracks(from)'
    BY <1>2, <2>5, <2>6, <2>7, <2>8, <2>9 DEF Tracks, Damage!Recent
  <2>11. receivedDps' = Damage!Damage(receivedDpsTracker')
    BY <1>1, <2>1, DamageWithOneMore
  <2>12. QED
    BY <2>9, <2>10, <2>11
<1>9. receivedDps' \in Int /\ time' \in Int /\ overflowed' \in BOOLEAN
  BY <1>1, <1>2 DEF DamageInv
<1>10. QED
  BY <1>2, <1>3, <1>6, <1>7, <1>8, <1>9 DEF DamageInv

(* A behaviour of the robot is one of the tracker, or leaves it as it is. *)
LEMMA RunsDamage == Spec => Damage!Spec
<1>1. Init => Damage!Init
  BY DEF Init
<1>2. [Next]_vars => [Damage!Next]_Damage!vars
  <2> SUFFICES ASSUME [Next]_vars
               PROVE  [Damage!Next]_Damage!vars
    OBVIOUS
  <2>1. CASE UNCHANGED damageVars
    BY <2>1 DEF damageVars, Damage!vars
  <2>2. CASE UseDamage
    BY <2>2 DEF UseDamage
  <2>3. QED
    BY <2>1, <2>2 DEF Next, UseMessages, UseGraphics, OnlyScreen, vars
<1>3. QED
  BY <1>1, <1>2, PTL DEF Spec, Damage!Spec

(***************************************************************************)
(* After every message receivedDps is the damage of the last second, for   *)
(* any hit points, any tracker and any second, however long no message     *)
(* came, as long as the tracker never lost a hit (ref_serial.cpp:503-530,  *)
(* ref_serial_data.hpp:478).                                               *)
(***************************************************************************)
THEOREM DamageCounted == Spec => []DpsIsRecentDamage
<1>1. Damage!Init => DamageInv
  <2> SUFFICES ASSUME Damage!Init PROVE DamageInv
    OBVIOUS
  <2>1. /\ Len(receivedDpsTracker) = 0 /\ Len(hits) = 0 /\ receivedDps = 0
        /\ hits \in Seq(Event) /\ receivedDpsTracker \in Seq(Event)
        /\ time \in Int /\ previousHp \in Int /\ overflowed \in BOOLEAN
    <3>1. <<>> \in Seq(Event) /\ Len(<<>>) = 0
      BY EmptySeq
    <3>2. /\ hits = <<>> /\ receivedDpsTracker = <<>>
          /\ time = 0 /\ previousHp = 0 /\ receivedDps = 0 /\ overflowed = FALSE
      BY DEF Damage!Init
    <3>3. overflowed \in BOOLEAN
      BY <3>2, Zenon
    <3>4. hits \in Seq(Event) /\ receivedDpsTracker \in Seq(Event)
      BY <3>1, <3>2, Zenon
    <3>5. Len(hits) = 0 /\ Len(receivedDpsTracker) = 0
      BY <3>1, <3>2, Zenon
    <3>6. QED
      BY <3>2, <3>3, <3>4, <3>5
  <2>2. Damage!Damage(receivedDpsTracker) = 0
    <3>1. PICK s : s[0] = 0 /\ Damage!Damage(receivedDpsTracker) = s[Len(receivedDpsTracker)]
      BY <2>1, Summed
    <3>2. QED
      BY <2>1, <3>1
  <2>3. Tracks(0)
    BY <2>1 DEF Tracks
  <2>4. QED
    BY <2>1, <2>2, <2>3 DEF DamageInv
<1>2. DamageInv /\ [Damage!Next]_Damage!vars => DamageInv'
  <2> SUFFICES ASSUME DamageInv, [Damage!Next]_Damage!vars PROVE DamageInv'
    OBVIOUS
  <2>1. CASE UNCHANGED Damage!vars
    BY <2>1 DEF Damage!vars, DamageInv, Tracks, Damage!Recent
  <2>2. CASE Damage!Tick
    BY <2>2, DamageTick, TrackerAssumption
  <2>3. CASE Damage!OtherMessage
    <3>1. PICK u : u = Damage!updateReceivedDamage
      OBVIOUS
    <3>2. previousHp' \in Int
      BY <2>3 DEF Damage!OtherMessage, DamageInv
    <3>3. QED
      BY <2>3, <3>1, <3>2, DamageOther, TrackerAssumption DEF Damage!OtherMessage
  <2>4. ASSUME NEW hp \in 0 .. MaxHp, Damage!RobotStatus(hp)
        PROVE  DamageInv'
    <3>1. PICK u : u = Damage!updateReceivedDamage
      OBVIOUS
    <3>2. PICK event : event = [damage |-> previousHp - hp, timestamp |-> time]
      OBVIOUS
    <3>3. /\ event \in Event /\ event.damage = previousHp - hp /\ event.timestamp = time
          /\ previousHp' \in Int
      BY <2>4, <3>2 DEF Damage!RobotStatus, Event, DamageInv
    <3>4. CASE previousHp - hp > 0
      <4>1. /\ receivedDps' = u.dps + event.damage
            /\ receivedDpsTracker' = Damage!Appended(u.tracker, event)
            /\ hits' = Append(hits, event)
            /\ overflowed' = (overflowed \/ Len(u.tracker) = DPS_TRACKER_DEQUE_SIZE)
            /\ UNCHANGED time
        BY <2>4, <3>1, <3>2, <3>3, <3>4 DEF Damage!RobotStatus, DamageInv
      <4>2. QED
        BY <3>1, <3>3, <4>1, DamageHit, TrackerAssumption
    <3>5. CASE ~(previousHp - hp > 0)
      <4>1. /\ receivedDps' = u.dps /\ receivedDpsTracker' = u.tracker
            /\ UNCHANGED <<time, hits, overflowed>>
        <5>1. u.dps \in Int /\ overflowed \in BOOLEAN
          BY <3>1, Updated, TrackerAssumption DEF DamageInv
        <5>2. QED
          BY <2>4, <3>1, <3>5, <5>1 DEF Damage!RobotStatus
      <4>2. QED
        BY <3>1, <3>3, <4>1, DamageOther, TrackerAssumption
    <3>6. QED
      BY <3>4, <3>5
  <2>5. QED
    BY <2>1, <2>2, <2>3, <2>4 DEF Damage!Next, Damage!messageReceiveCallback
<1>3. DamageInv => DpsIsRecentDamage
  BY TrackedIsRecent DEF DamageInv, DpsIsRecentDamage, Damage!DpsIsRecentDamage
<1>4. Damage!Spec => []DpsIsRecentDamage
  BY <1>1, <1>2, <1>3, PTL DEF Damage!Spec
<1>5. QED
  BY <1>4, RunsDamage, PTL

-----------------------------------------------------------------------------
(* What a decoder may be: its fields are told by their names, each has bits,
   which the data have, ... *)
InData(d) ==
    /\ d.dataLength \in Nat
    /\ \A r, other \in d.reads : r.name = other.name => r = other
    /\ \A r \in d.reads :
          /\ r.first \in Nat /\ r.width \in Nat \ {0}
          /\ r.name # "progress.sentry" => r.first + r.width <= 8 * d.dataLength

(* ... of other fields they are others, ... *)
Apart(d) ==
    \A r, other \in d.reads :
        r # other /\ "remoteProjectileExchanges" \notin {r.name, other.name}
            => Messages!Meaningful(r) \intersect Messages!Meaningful(other) = {}

(* ... and an enumeration has so many. *)
EnumeratorsOf(width) ==
    CASE width = 2 -> {"selectedTarget", "dartStation.state"}
      [] width = 3 -> {"eventData.lastDartHit"}
      [] width = 4 -> {"gameType", "gameStage", "damagedArmorId", "damageType"}
      [] OTHER -> {"robotId", "warning.foulRobotID", "gameWinner", "robotEnergyRemaining",
                   "bulletType", "launchMechanismID"}
Enough(d) ==
    \A r \in d.reads : \A width \in {2, 3, 4, 8} :
        r.name \in EnumeratorsOf(width) => r.width = width

(* The data of every message are long enough for its fields. *)
LEMMA DecodersInData == \A type \in Messages!Types : InData(Messages!Decoders[type])
<1> USE DEF InData, Messages!Decoder, Messages!Bits, Messages!Byte, Messages!Half,
            Messages!Word
<1>1. InData(Messages!decodeToGameStatus)
  BY DEF Messages!decodeToGameStatus
<1>2. InData(Messages!decodeToGameResult)
  BY DEF Messages!decodeToGameResult
<1>3. InData(Messages!decodeToAllRobotHP)
  BY DEF Messages!decodeToAllRobotHP
<1>4. InData(Messages!decodeToSiteEventData)
  BY DEF Messages!decodeToSiteEventData
<1>5. InData(Messages!decodeToWarningData)
  BY DEF Messages!decodeToWarningData
<1>6. InData(Messages!decodeToDartInfo)
  BY DEF Messages!decodeToDartInfo
<1>7. InData(Messages!decodeToRobotStatus)
  BY DEF Messages!decodeToRobotStatus
<1>8. InData(Messages!decodeToPowerAndHeat)
  BY DEF Messages!decodeToPowerAndHeat
<1>9. InData(Messages!decodeToRobotPosition)
  BY DEF Messages!decodeToRobotPosition
<1>10. InData(Messages!decodeToRobotBuffs)
  BY DEF Messages!decodeToRobotBuffs
<1>11. InData(Messages!decodeToDamageStatus)
  BY DEF Messages!decodeToDamageStatus
<1>12. InData(Messages!decodeToProjectileLaunch)
  BY DEF Messages!decodeToProjectileLaunch
<1>13. InData(Messages!decodeToBulletsRemain)
  BY DEF Messages!decodeToBulletsRemain
<1>14. InData(Messages!decodeToRFIDStatus)
  BY DEF Messages!decodeToRFIDStatus
<1>15. InData(Messages!decodeToDartStation)
  BY DEF Messages!decodeToDartStation
<1>16. InData(Messages!decodeToGroundPositions)
  BY DEF Messages!decodeToGroundPositions
<1>17. InData(Messages!decodeToRadarProgress)
  BY DEF Messages!decodeToRadarProgress
<1>18. InData(Messages!decodeToSentryInfo)
  BY DEF Messages!decodeToSentryInfo
<1>19. InData(Messages!decodeToRadarInfo)
  BY DEF Messages!decodeToRadarInfo
<1> HIDE DEF InData
<1>20. QED
  BY <1>1, <1>2, <1>3, <1>4, <1>5, <1>6, <1>7, <1>8, <1>9, <1>10, <1>11, <1>12, <1>13,
     <1>14, <1>15, <1>16, <1>17, <1>18, <1>19
  DEF Messages!Types, Messages!Decoders

(* No two fields of a message have bits in common that mean something. *)
LEMMA DecodersApart == \A type \in Messages!Types : Apart(Messages!Decoders[type])
<1> USE DEF Apart, Messages!Decoder, Messages!Bits, Messages!Byte, Messages!Half,
            Messages!Word,
            Messages!Meaningful, Messages!Flags, Messages!SiteData, Messages!RobotPower,
            Messages!RFIDActivationStatus
<1>1. Apart(Messages!decodeToGameStatus)
  BY DEF Messages!decodeToGameStatus
<1>2. Apart(Messages!decodeToGameResult)
  BY DEF Messages!decodeToGameResult
<1>3. Apart(Messages!decodeToAllRobotHP)
  BY DEF Messages!decodeToAllRobotHP
<1>4. Apart(Messages!decodeToSiteEventData)
  BY DEF Messages!decodeToSiteEventData
<1>5. Apart(Messages!decodeToWarningData)
  BY DEF Messages!decodeToWarningData
<1>6. Apart(Messages!decodeToDartInfo)
  BY DEF Messages!decodeToDartInfo
<1>7. Apart(Messages!decodeToRobotStatus)
  BY DEF Messages!decodeToRobotStatus
<1>8. Apart(Messages!decodeToPowerAndHeat)
  BY DEF Messages!decodeToPowerAndHeat
<1>9. Apart(Messages!decodeToRobotPosition)
  BY DEF Messages!decodeToRobotPosition
<1>10. Apart(Messages!decodeToRobotBuffs)
  BY DEF Messages!decodeToRobotBuffs
<1>11. Apart(Messages!decodeToDamageStatus)
  BY DEF Messages!decodeToDamageStatus
<1>12. Apart(Messages!decodeToProjectileLaunch)
  BY DEF Messages!decodeToProjectileLaunch
<1>13. Apart(Messages!decodeToBulletsRemain)
  BY DEF Messages!decodeToBulletsRemain
<1>14. Apart(Messages!decodeToRFIDStatus)
  BY DEF Messages!decodeToRFIDStatus
<1>15. Apart(Messages!decodeToDartStation)
  BY DEF Messages!decodeToDartStation
<1>16. Apart(Messages!decodeToGroundPositions)
  BY DEF Messages!decodeToGroundPositions
<1>17. Apart(Messages!decodeToRadarProgress)
  BY DEF Messages!decodeToRadarProgress
<1>18. Apart(Messages!decodeToSentryInfo)
  BY DEF Messages!decodeToSentryInfo
<1>19. Apart(Messages!decodeToRadarInfo)
  BY DEF Messages!decodeToRadarInfo
<1> HIDE DEF Apart
<1>20. QED
  BY <1>1, <1>2, <1>3, <1>4, <1>5, <1>6, <1>7, <1>8, <1>9, <1>10, <1>11, <1>12, <1>13,
     <1>14, <1>15, <1>16, <1>17, <1>18, <1>19
  DEF Messages!Types, Messages!Decoders

(* The enumerations of every message have the bits they should have. *)
LEMMA DecodersEnough == \A type \in Messages!Types : Enough(Messages!Decoders[type])
<1> USE DEF Enough, Messages!Decoder, Messages!Bits, Messages!Byte, Messages!Half,
            Messages!Word, EnumeratorsOf
<1>1. Enough(Messages!decodeToGameStatus)
  BY DEF Messages!decodeToGameStatus
<1>2. Enough(Messages!decodeToGameResult)
  BY DEF Messages!decodeToGameResult
<1>3. Enough(Messages!decodeToAllRobotHP)
  BY DEF Messages!decodeToAllRobotHP
<1>4. Enough(Messages!decodeToSiteEventData)
  BY DEF Messages!decodeToSiteEventData
<1>5. Enough(Messages!decodeToWarningData)
  BY DEF Messages!decodeToWarningData
<1>6. Enough(Messages!decodeToDartInfo)
  BY DEF Messages!decodeToDartInfo
<1>7. Enough(Messages!decodeToRobotStatus)
  BY DEF Messages!decodeToRobotStatus
<1>8. Enough(Messages!decodeToPowerAndHeat)
  BY DEF Messages!decodeToPowerAndHeat
<1>9. Enough(Messages!decodeToRobotPosition)
  BY DEF Messages!decodeToRobotPosition
<1>10. Enough(Messages!decodeToRobotBuffs)
  BY DEF Messages!decodeToRobotBuffs
<1>11. Enough(Messages!decodeToDamageStatus)
  BY DEF Messages!decodeToDamageStatus
<1>12. Enough(Messages!decodeToProjectileLaunch)
  BY DEF Messages!decodeToProjectileLaunch
<1>13. Enough(Messages!decodeToBulletsRemain)
  BY DEF Messages!decodeToBulletsRemain
<1>14. Enough(Messages!decodeToRFIDStatus)
  BY DEF Messages!decodeToRFIDStatus
<1>15. Enough(Messages!decodeToDartStation)
  BY DEF Messages!decodeToDartStation
<1>16. Enough(Messages!decodeToGroundPositions)
  BY DEF Messages!decodeToGroundPositions
<1>17. Enough(Messages!decodeToRadarProgress)
  BY DEF Messages!decodeToRadarProgress
<1>18. Enough(Messages!decodeToSentryInfo)
  BY DEF Messages!decodeToSentryInfo
<1>19. Enough(Messages!decodeToRadarInfo)
  BY DEF Messages!decodeToRadarInfo
<1> HIDE DEF Enough
<1>20. QED
  BY <1>1, <1>2, <1>3, <1>4, <1>5, <1>6, <1>7, <1>8, <1>9, <1>10, <1>11, <1>12, <1>13,
     <1>14, <1>15, <1>16, <1>17, <1>18, <1>19
  DEF Messages!Types, Messages!Decoders

(* The fields of the messages that fill no structure of their own. *)
GameStatusFields == {"gameType", "gameStage", "stageTimeRemaining", "unixTime"}
GameResultFields == {"gameWinner"}
RobotStatusFields ==
    {"robotId", "robotLevel", "currentHp", "maxHp", "coolingRate", "heatLimit",
     "powerConsumptionLimit", "robotPower"}
PowerAndHeatFields == {"powerBuffer", "heat17ID1", "heat17ID2", "heat42"}
RobotPositionFields == {"position.x", "position.y", "yaw"}
RobotBuffsFields == Messages!RobotBuffStatus \union {"robotEnergyRemaining"}
DamageStatusFields == {"damagedArmorId", "damageType"}
ProjectileLaunchFields == {"bulletType", "launchMechanismID", "firingFreq", "bulletSpeed"}
BulletsRemainFields == {"bulletsRemaining17", "bulletsRemaining42", "remainingCoins"}
RFIDStatusFields == {"rfidStatus"}
FieldsOf(type) ==
    CASE type = 1 -> GameStatusFields
      [] type = 2 -> GameResultFields
      [] type = 3 -> Messages!RobotHpData
      [] type = 257 -> Messages!EventData
      [] type = 260 -> Messages!RefereeWarningData
      [] type = 261 -> Messages!DartInfo
      [] type = 513 -> RobotStatusFields
      [] type = 514 -> PowerAndHeatFields
      [] type = 515 -> RobotPositionFields
      [] type = 516 -> RobotBuffsFields
      [] type = 518 -> DamageStatusFields
      [] type = 519 -> ProjectileLaunchFields
      [] type = 520 -> BulletsRemainFields
      [] type = 521 -> RFIDStatusFields
      [] type = 522 -> Messages!DartStationInfo
      [] type = 523 -> Messages!GroundRobotPositions
      [] type = 524 -> Messages!RadarMarkProgress
      [] type = 525 -> Messages!SentryInfo
      [] OTHER -> Messages!RadarInfo

(* A decoder writes the fields of names and no others. *)
WritesOnly(d, names) == \A r \in d.reads : r.name \in names
WritesAll(d, names) == \A f \in names : \E r \in d.reads : r.name = f

(* No decoder writes a field of another message... *)
LEMMA DecodersWritesOnly ==
    \A type \in Messages!Types : WritesOnly(Messages!Decoders[type], FieldsOf(type))
<1> USE DEF WritesOnly, Messages!Decoder, Messages!Bits, Messages!Byte, Messages!Half,
            Messages!Word
<1>1. WritesOnly(Messages!decodeToGameStatus, GameStatusFields)
  BY DEF GameStatusFields, Messages!decodeToGameStatus
<1>2. WritesOnly(Messages!decodeToGameResult, GameResultFields)
  BY DEF GameResultFields, Messages!decodeToGameResult
<1>3. WritesOnly(Messages!decodeToAllRobotHP, Messages!RobotHpData)
  BY DEF Messages!RobotHpData, Messages!decodeToAllRobotHP
<1>4. WritesOnly(Messages!decodeToSiteEventData, Messages!EventData)
  BY DEF Messages!EventData, Messages!decodeToSiteEventData
<1>5. WritesOnly(Messages!decodeToWarningData, Messages!RefereeWarningData)
  BY DEF Messages!RefereeWarningData, Messages!decodeToWarningData
<1>6. WritesOnly(Messages!decodeToDartInfo, Messages!DartInfo)
  BY DEF Messages!DartInfo, Messages!decodeToDartInfo
<1>7. WritesOnly(Messages!decodeToRobotStatus, RobotStatusFields)
  BY DEF RobotStatusFields, Messages!decodeToRobotStatus
<1>8. WritesOnly(Messages!decodeToPowerAndHeat, PowerAndHeatFields)
  BY DEF PowerAndHeatFields, Messages!decodeToPowerAndHeat
<1>9. WritesOnly(Messages!decodeToRobotPosition, RobotPositionFields)
  BY DEF RobotPositionFields, Messages!decodeToRobotPosition
<1>10. WritesOnly(Messages!decodeToRobotBuffs, RobotBuffsFields)
  BY DEF RobotBuffsFields, Messages!RobotBuffStatus, Messages!decodeToRobotBuffs
<1>11. WritesOnly(Messages!decodeToDamageStatus, DamageStatusFields)
  BY DEF DamageStatusFields, Messages!decodeToDamageStatus
<1>12. WritesOnly(Messages!decodeToProjectileLaunch, ProjectileLaunchFields)
  BY DEF ProjectileLaunchFields, Messages!decodeToProjectileLaunch
<1>13. WritesOnly(Messages!decodeToBulletsRemain, BulletsRemainFields)
  BY DEF BulletsRemainFields, Messages!decodeToBulletsRemain
<1>14. WritesOnly(Messages!decodeToRFIDStatus, RFIDStatusFields)
  BY DEF RFIDStatusFields, Messages!decodeToRFIDStatus
<1>15. WritesOnly(Messages!decodeToDartStation, Messages!DartStationInfo)
  BY DEF Messages!DartStationInfo, Messages!decodeToDartStation
<1>16. WritesOnly(Messages!decodeToGroundPositions, Messages!GroundRobotPositions)
  BY DEF Messages!GroundRobotPositions, Messages!decodeToGroundPositions
<1>17. WritesOnly(Messages!decodeToRadarProgress, Messages!RadarMarkProgress)
  BY DEF Messages!RadarMarkProgress, Messages!decodeToRadarProgress
<1>18. WritesOnly(Messages!decodeToSentryInfo, Messages!SentryInfo)
  BY DEF Messages!SentryInfo, Messages!decodeToSentryInfo
<1>19. WritesOnly(Messages!decodeToRadarInfo, Messages!RadarInfo)
  BY DEF Messages!RadarInfo, Messages!decodeToRadarInfo
<1> HIDE DEF WritesOnly
<1>20. QED
  BY <1>1, <1>2, <1>3, <1>4, <1>5, <1>6, <1>7, <1>8, <1>9, <1>10, <1>11, <1>12, <1>13,
     <1>14, <1>15, <1>16, <1>17, <1>18, <1>19
  DEF Messages!Types, Messages!Decoders, FieldsOf

(* ... and it writes all of its own. *)
LEMMA DecodersWritesAll ==
    \A type \in Messages!Types : WritesAll(Messages!Decoders[type], FieldsOf(type))
<1> USE DEF WritesAll, Messages!Decoder, Messages!Bits, Messages!Byte, Messages!Half,
            Messages!Word
<1>1. WritesAll(Messages!decodeToGameStatus, GameStatusFields)
  BY DEF GameStatusFields, Messages!decodeToGameStatus
<1>2. WritesAll(Messages!decodeToGameResult, GameResultFields)
  BY DEF GameResultFields, Messages!decodeToGameResult
<1>3. WritesAll(Messages!decodeToAllRobotHP, Messages!RobotHpData)
  BY DEF Messages!RobotHpData, Messages!decodeToAllRobotHP
<1>4. WritesAll(Messages!decodeToSiteEventData, Messages!EventData)
  BY DEF Messages!EventData, Messages!decodeToSiteEventData
<1>5. WritesAll(Messages!decodeToWarningData, Messages!RefereeWarningData)
  BY DEF Messages!RefereeWarningData, Messages!decodeToWarningData
<1>6. WritesAll(Messages!decodeToDartInfo, Messages!DartInfo)
  BY DEF Messages!DartInfo, Messages!decodeToDartInfo
<1>7. WritesAll(Messages!decodeToRobotStatus, RobotStatusFields)
  BY DEF RobotStatusFields, Messages!decodeToRobotStatus
<1>8. WritesAll(Messages!decodeToPowerAndHeat, PowerAndHeatFields)
  BY DEF PowerAndHeatFields, Messages!decodeToPowerAndHeat
<1>9. WritesAll(Messages!decodeToRobotPosition, RobotPositionFields)
  BY DEF RobotPositionFields, Messages!decodeToRobotPosition
<1>10. WritesAll(Messages!decodeToRobotBuffs, RobotBuffsFields)
  BY DEF RobotBuffsFields, Messages!RobotBuffStatus, Messages!decodeToRobotBuffs
<1>11. WritesAll(Messages!decodeToDamageStatus, DamageStatusFields)
  BY DEF DamageStatusFields, Messages!decodeToDamageStatus
<1>12. WritesAll(Messages!decodeToProjectileLaunch, ProjectileLaunchFields)
  BY DEF ProjectileLaunchFields, Messages!decodeToProjectileLaunch
<1>13. WritesAll(Messages!decodeToBulletsRemain, BulletsRemainFields)
  BY DEF BulletsRemainFields, Messages!decodeToBulletsRemain
<1>14. WritesAll(Messages!decodeToRFIDStatus, RFIDStatusFields)
  BY DEF RFIDStatusFields, Messages!decodeToRFIDStatus
<1>15. WritesAll(Messages!decodeToDartStation, Messages!DartStationInfo)
  BY DEF Messages!DartStationInfo, Messages!decodeToDartStation
<1>16. WritesAll(Messages!decodeToGroundPositions, Messages!GroundRobotPositions)
  BY DEF Messages!GroundRobotPositions, Messages!decodeToGroundPositions
<1>17. WritesAll(Messages!decodeToRadarProgress, Messages!RadarMarkProgress)
  BY DEF Messages!RadarMarkProgress, Messages!decodeToRadarProgress
<1>18. WritesAll(Messages!decodeToSentryInfo, Messages!SentryInfo)
  BY DEF Messages!SentryInfo, Messages!decodeToSentryInfo
<1>19. WritesAll(Messages!decodeToRadarInfo, Messages!RadarInfo)
  BY DEF Messages!RadarInfo, Messages!decodeToRadarInfo
<1> HIDE DEF WritesAll
<1>20. QED
  BY <1>1, <1>2, <1>3, <1>4, <1>5, <1>6, <1>7, <1>8, <1>9, <1>10, <1>11, <1>12, <1>13,
     <1>14, <1>15, <1>16, <1>17, <1>18, <1>19
  DEF Messages!Types, Messages!Decoders, FieldsOf

(* The message that a field is in. *)
Owner(f) ==
    CASE f \in GameStatusFields -> 1
      [] f \in GameResultFields -> 2
      [] f \in Messages!RobotHpData -> 3
      [] f \in Messages!EventData -> 257
      [] f \in Messages!RefereeWarningData -> 260
      [] f \in Messages!DartInfo -> 261
      [] f \in RobotStatusFields -> 513
      [] f \in PowerAndHeatFields -> 514
      [] f \in RobotPositionFields -> 515
      [] f \in RobotBuffsFields -> 516
      [] f \in DamageStatusFields -> 518
      [] f \in ProjectileLaunchFields -> 519
      [] f \in BulletsRemainFields -> 520
      [] f \in RFIDStatusFields -> 521
      [] f \in Messages!DartStationInfo -> 522
      [] f \in Messages!GroundRobotPositions -> 523
      [] f \in Messages!RadarMarkProgress -> 524
      [] f \in Messages!SentryInfo -> 525
      [] OTHER -> 526

(* No field is in two messages. *)
LEMMA Owned == \A type \in Messages!Types : \A f \in FieldsOf(type) : Owner(f) = type
<1> USE DEF Owner, GameStatusFields, GameResultFields, Messages!RobotHpData, Messages!EventData,
        Messages!RefereeWarningData, Messages!DartInfo, RobotStatusFields, PowerAndHeatFields,
        RobotPositionFields, RobotBuffsFields, DamageStatusFields, ProjectileLaunchFields,
        BulletsRemainFields, RFIDStatusFields, Messages!DartStationInfo,
        Messages!GroundRobotPositions, Messages!RadarMarkProgress, Messages!SentryInfo,
        Messages!RadarInfo, Messages!RobotBuffStatus
<1>1. \A f \in GameStatusFields : Owner(f) = 1
  OBVIOUS
<1>2. \A f \in GameResultFields : Owner(f) = 2
  OBVIOUS
<1>3. \A f \in Messages!RobotHpData : Owner(f) = 3
  OBVIOUS
<1>4. \A f \in Messages!EventData : Owner(f) = 257
  OBVIOUS
<1>5. \A f \in Messages!RefereeWarningData : Owner(f) = 260
  OBVIOUS
<1>6. \A f \in Messages!DartInfo : Owner(f) = 261
  OBVIOUS
<1>7. \A f \in RobotStatusFields : Owner(f) = 513
  OBVIOUS
<1>8. \A f \in PowerAndHeatFields : Owner(f) = 514
  OBVIOUS
<1>9. \A f \in RobotPositionFields : Owner(f) = 515
  OBVIOUS
<1>10. \A f \in RobotBuffsFields : Owner(f) = 516
  OBVIOUS
<1>11. \A f \in DamageStatusFields : Owner(f) = 518
  OBVIOUS
<1>12. \A f \in ProjectileLaunchFields : Owner(f) = 519
  OBVIOUS
<1>13. \A f \in BulletsRemainFields : Owner(f) = 520
  OBVIOUS
<1>14. \A f \in RFIDStatusFields : Owner(f) = 521
  OBVIOUS
<1>15. \A f \in Messages!DartStationInfo : Owner(f) = 522
  OBVIOUS
<1>16. \A f \in Messages!GroundRobotPositions : Owner(f) = 523
  OBVIOUS
<1>17. \A f \in Messages!RadarMarkProgress : Owner(f) = 524
  OBVIOUS
<1>18. \A f \in Messages!SentryInfo : Owner(f) = 525
  OBVIOUS
<1>19. \A f \in Messages!RadarInfo : Owner(f) = 526
  OBVIOUS
<1> HIDE DEF Owner, GameStatusFields, GameResultFields, Messages!RobotHpData, Messages!EventData,
        Messages!RefereeWarningData, Messages!DartInfo, RobotStatusFields, PowerAndHeatFields,
        RobotPositionFields, RobotBuffsFields, DamageStatusFields, ProjectileLaunchFields,
        BulletsRemainFields, RFIDStatusFields, Messages!DartStationInfo,
        Messages!GroundRobotPositions, Messages!RadarMarkProgress, Messages!SentryInfo,
        Messages!RadarInfo, Messages!RobotBuffStatus
<1>20. QED
  BY <1>1, <1>2, <1>3, <1>4, <1>5, <1>6, <1>7, <1>8, <1>9, <1>10, <1>11, <1>12, <1>13,
     <1>14, <1>15, <1>16, <1>17, <1>18, <1>19
  DEF Messages!Types, FieldsOf

(* What is written for a message are its fields. *)
LEMMA WrittenFields == \A type \in Messages!Types : Messages!Written(type) = FieldsOf(type)
<1> SUFFICES ASSUME NEW type \in Messages!Types
             PROVE  Messages!Written(type) = FieldsOf(type)
  OBVIOUS
<1>1. \A r \in Messages!Decoders[type].reads : r.name \in FieldsOf(type)
  BY DecodersWritesOnly DEF WritesOnly
<1>2. \A f \in FieldsOf(type) : \E r \in Messages!Decoders[type].reads : r.name = f
  BY DecodersWritesAll DEF WritesAll
<1>3. QED
  BY <1>1, <1>2 DEF Messages!Written

(* Every field that a structure has and some decoder reads is in a message. *)
LEMMA FieldsRead ==
    \A f \in (Messages!GameData \union Messages!RobotData)
                 \ (Messages!SupplierAction \union Messages!AirSupportData) :
        \E type \in Messages!Types : f \in FieldsOf(type)
<1> SUFFICES ASSUME NEW f \in Messages!GameData \union Messages!RobotData,
                    f \notin Messages!SupplierAction, f \notin Messages!AirSupportData
             PROVE  \E type \in Messages!Types : f \in FieldsOf(type)
  OBVIOUS
<1> USE DEF Messages!Types, FieldsOf
<1>1. CASE f \in {"gameType", "gameStage", "stageTimeRemaining", "unixTime"}
  <2>1. f \in FieldsOf(1)
    BY <1>1 DEF GameStatusFields
  <2>2. QED
    BY <2>1
<1>2. CASE f = "gameWinner"
  <2>1. f \in FieldsOf(2)
    BY <1>2 DEF GameResultFields
  <2>2. QED
    BY <2>1
<1>3. CASE \/ f \in Messages!EventData \/ f \in Messages!DartInfo
           \/ f \in Messages!DartStationInfo \/ f \in Messages!GroundRobotPositions
           \/ f \in Messages!RadarMarkProgress \/ f \in Messages!SentryInfo
           \/ f \in Messages!RadarInfo \/ f \in Messages!RobotHpData
           \/ f \in Messages!RefereeWarningData
  <2>1. \/ f \in FieldsOf(257) \/ f \in FieldsOf(261) \/ f \in FieldsOf(522)
        \/ f \in FieldsOf(523) \/ f \in FieldsOf(524) \/ f \in FieldsOf(525)
        \/ f \in FieldsOf(526) \/ f \in FieldsOf(3) \/ f \in FieldsOf(260)
    BY <1>3
  <2>2. QED
    BY <2>1
<1>4. CASE f \in Messages!RobotBuffStatus \/ f = "robotEnergyRemaining"
  <2>1. f \in FieldsOf(516)
    BY <1>4 DEF RobotBuffsFields
  <2>2. QED
    BY <2>1
<1>5. CASE f \in {"robotId", "robotLevel", "currentHp", "maxHp", "robotPower", "coolingRate",
                  "heatLimit", "powerConsumptionLimit"}
  <2>1. f \in FieldsOf(513)
    BY <1>5 DEF RobotStatusFields
  <2>2. QED
    BY <2>1
<1>6. CASE f \in {"powerBuffer", "heat17ID1", "heat17ID2", "heat42"}
  <2>1. f \in FieldsOf(514)
    BY <1>6 DEF PowerAndHeatFields
  <2>2. QED
    BY <2>1
<1>7. CASE f \in {"position.x", "position.y", "yaw"}
  <2>1. f \in FieldsOf(515)
    BY <1>7 DEF RobotPositionFields
  <2>2. QED
    BY <2>1
<1>8. CASE f \in {"damagedArmorId", "damageType"}
  <2>1. f \in FieldsOf(518)
    BY <1>8 DEF DamageStatusFields
  <2>2. QED
    BY <2>1
<1>9. CASE f \in {"bulletType", "launchMechanismID", "firingFreq", "bulletSpeed"}
  <2>1. f \in FieldsOf(519)
    BY <1>9 DEF ProjectileLaunchFields
  <2>2. QED
    BY <2>1
<1>10. CASE f \in {"bulletsRemaining17", "bulletsRemaining42", "remainingCoins"}
  <2>1. f \in FieldsOf(520)
    BY <1>10 DEF BulletsRemainFields
  <2>2. QED
    BY <2>1
<1>11. CASE f = "rfidStatus"
  <2>1. f \in FieldsOf(521)
    BY <1>11 DEF RFIDStatusFields
  <2>2. QED
    BY <2>1
<1>12. CASE f \in Messages!GameData
  BY <1>1, <1>2, <1>3, <1>12 DEF Messages!GameData
<1>13. CASE f \in Messages!RobotData
  <2>1. \/ f \in Messages!ChassisData \/ f \in Messages!TurretData
        \/ f \in Messages!RobotHpData \/ f \in Messages!RobotBuffStatus
        \/ f \in Messages!RefereeWarningData
        \/ f \in {"robotId", "robotLevel", "currentHp", "maxHp", "robotPower", "damagedArmorId",
                  "damageType", "remainingCoins", "rfidStatus", "robotEnergyRemaining"}
    BY <1>13 DEF Messages!RobotData
  <2>2. CASE f \in Messages!ChassisData
    BY <2>2, <1>5, <1>6, <1>7 DEF Messages!ChassisData
  <2>3. CASE f \in Messages!TurretData
    BY <2>3, <1>5, <1>6, <1>7, <1>9, <1>10 DEF Messages!TurretData
  <2>4. CASE f \in {"robotId", "robotLevel", "currentHp", "maxHp", "robotPower", "damagedArmorId",
                    "damageType", "remainingCoins", "rfidStatus", "robotEnergyRemaining"}
    BY <2>4, <1>4, <1>5, <1>8, <1>10, <1>11
  <2>5. QED
    BY <2>1, <2>2, <2>3, <2>4, <1>3, <1>4
<1>14. QED
  BY <1>12, <1>13

(* The bits of a field are enough for its enumeration. *)
LEMMA EnoughBits ==
    ASSUME NEW r, NEW d, Enough(d), r \in d.reads, NEW n \in Messages!Enumerators(r.name)
    PROVE  n < 2^r.width
<1>1. 2^2 = 4 /\ 2^3 = 8 /\ 2^4 = 16 /\ 2^8 = 256
  BY SMT
<1>2. \A width \in {2, 3, 4, 8} : r.name \in EnumeratorsOf(width) => r.width = width
  BY DEF Enough
<1>3. CASE r.name \in EnumeratorsOf(2)
  <2>1. n < 4
    BY <1>3 DEF EnumeratorsOf, Messages!Enumerators, Messages!DartTarget, Messages!DartStationState
  <2>2. QED
    BY <1>1, <1>2, <1>3, <2>1
<1>4. CASE r.name \in EnumeratorsOf(3)
  <2>1. n < 8
    BY <1>4 DEF EnumeratorsOf, Messages!Enumerators, Messages!SiteDartHit
  <2>2. QED
    BY <1>1, <1>2, <1>4, <2>1
<1>5. CASE r.name \in EnumeratorsOf(4)
  <2>1. n < 16
    BY <1>5 DEF EnumeratorsOf, Messages!Enumerators, Messages!GameType, Messages!GameStage,
                Messages!ArmorId, Messages!DamageType
  <2>2. QED
    BY <1>1, <1>2, <1>5, <2>1
<1>6. CASE r.name \in EnumeratorsOf(8)
  <2>1. n < 256
    BY <1>6 DEF EnumeratorsOf, Messages!Enumerators, Messages!RobotId, Messages!GameWinner,
                Messages!RobotEnergyLevel, Messages!BulletType, Messages!MechanismID
  <2>2. QED
    BY <1>1, <1>2, <1>6, <2>1
<1>7. \E width \in {2, 3, 4, 8} : r.name \in EnumeratorsOf(width)
  BY DEF EnumeratorsOf, Messages!Enumerators
<1>8. QED
  BY <1>3, <1>4, <1>5, <1>6, <1>7

(* The table of decoders serves the structures. *)
LEMMA TablesServe == Messages!DecodersServe
<1>1. ASSUME NEW f \in (Messages!GameData \union Messages!RobotData)
                           \ (Messages!SupplierAction \union Messages!AirSupportData)
      PROVE  \E type \in Messages!Types :
                 {other \in Messages!Types : f \in Messages!Written(other)} = {type}
  <2>1. PICK type \in Messages!Types : f \in FieldsOf(type)
    BY <1>1, FieldsRead
  <2>2. \A other \in Messages!Types : f \in FieldsOf(other) => other = type
    BY <2>1, Owned
  <2>3. \A other \in Messages!Types : f \in Messages!Written(other) <=> other = type
    BY <2>1, <2>2, WrittenFields
  <2>4. QED
    BY <2>3
<1>2. \A type \in Messages!Types : \A r, other \in Messages!Decoders[type].reads :
         r # other /\ "remoteProjectileExchanges" \notin {r.name, other.name}
             => Messages!Meaningful(r) \intersect Messages!Meaningful(other) = {}
  BY DecodersApart DEF Apart
<1>3. \A type \in Messages!Types : \A r \in Messages!Decoders[type].reads :
         \A n \in Messages!Enumerators(r.name) : n < 2^r.width
  BY DecodersEnough, EnoughBits
<1>4. QED
  BY <1>1, <1>2, <1>3 DEF Messages!DecodersServe

-----------------------------------------------------------------------------
(* The handlers have what was heard for them, and nothing is newer than the
   last message. *)
MessagesInv ==
    /\ count \in Nat /\ buffer \in Seq(Nat)
    /\ DOMAIN fields = UNION {Messages!Written(type) : type \in Messages!Types}
    /\ DOMAIN msgIdToRobotToRobotHandlerMap \subseteq MsgIds
    /\ \A id \in DOMAIN msgIdToRobotToRobotHandlerMap :
          msgIdToRobotToRobotHandlerMap[id] \in Handlers
    /\ called \in [Handlers -> Nat] /\ latest \in [Messages!Types -> Nat]
    /\ heard \in [MsgIds -> Nat] /\ \A id \in MsgIds : heard[id] <= count
    /\ \A id \in MsgIds \ DOMAIN msgIdToRobotToRobotHandlerMap : heard[id] = 0
    /\ Messages!FieldsUpToDate /\ Messages!HandlersUpToDate

(* Nothing was received yet. *)
LEMMA MessagesStart == Messages!Init => MessagesInv
<1> SUFFICES ASSUME Messages!Init PROVE MessagesInv
  OBVIOUS
<1>1. buffer = <<>> /\ buffer \in Seq(Nat)
  BY EmptySeq, Zenon DEF Messages!Init
<1>2. DOMAIN msgIdToRobotToRobotHandlerMap = {}
  BY DEF Messages!Init
<1>3. DOMAIN fields = UNION {Messages!Written(type) : type \in Messages!Types}
  BY DEF Messages!Init
<1>4. /\ count = 0 /\ called = [h \in Handlers |-> 0]
      /\ latest = [type \in Messages!Types |-> 0] /\ heard = [id \in MsgIds |-> 0]
  BY DEF Messages!Init
<1>5. Messages!FieldsUpToDate /\ Messages!HandlersUpToDate
  BY <1>2, <1>4 DEF Messages!FieldsUpToDate, Messages!HandlersUpToDate
<1>6. QED
  BY <1>1, <1>2, <1>3, <1>4, <1>5 DEF MessagesInv

(* The bytes of a message are its own, and those behind it older ones. *)
LEMMA Arrived ==
    ASSUME MessagesInv, NEW dataLength \in Nat, Messages!Arrives(dataLength)
    PROVE  /\ count' = count + 1 /\ buffer' \in Seq(Nat) /\ dataLength <= Len(buffer')
           /\ \A b \in 1 .. dataLength : buffer'[b] = count'
<1> DEFINE n == IF dataLength < Len(buffer) THEN Len(buffer) ELSE dataLength
<1>1. count \in Nat /\ buffer \in Seq(Nat) /\ Len(buffer) \in Nat
  BY DEF MessagesInv
<1>2. n \in Nat /\ dataLength <= n
  BY <1>1
<1>3. /\ count' = count + 1
      /\ buffer' = [b \in 1 .. n |-> IF b <= dataLength THEN count' ELSE buffer[b]]
  BY DEF Messages!Arrives
<1>4. \A b \in 1 .. n : (IF b <= dataLength THEN count' ELSE buffer[b]) \in Nat
  <2> SUFFICES ASSUME NEW b \in 1 .. n
               PROVE  (IF b <= dataLength THEN count' ELSE buffer[b]) \in Nat
    OBVIOUS
  <2>1. CASE b <= dataLength
    BY <1>1, <1>3, <2>1
  <2>2. CASE ~(b <= dataLength)
    <3>1. b \in 1 .. Len(buffer)
      BY <1>1, <2>2
    <3>2. QED
      BY <1>1, <2>2, <3>1
  <2>3. QED
    BY <2>1, <2>2
<1> HIDE DEF n
<1>5. buffer' \in [1 .. n -> Nat]
  BY <1>3, <1>4
<1>6. buffer' \in Seq(Nat) /\ Len(buffer') = n
  BY <1>2, <1>5
<1>7. \A b \in 1 .. dataLength : buffer'[b] = count'
  BY <1>2, <1>3
<1>8. QED
  BY <1>2, <1>3, <1>6, <1>7

(* What a decoder reads of a message that has its length is the message's. *)
LEMMA ReadsItsMessage ==
    ASSUME MessagesInv, NEW type \in Messages!Types,
           Messages!Arrives(Messages!Decoders[type].dataLength),
           NEW r \in Messages!Decoders[type].reads, r.name # "progress.sentry"
    PROVE  Messages!Read(r) = {count'}
<1> DEFINE n == Messages!Decoders[type].dataLength
<1>1. /\ n \in Nat /\ r.first \in Nat /\ r.width \in Nat \ {0}
      /\ r.first + r.width <= 8 * n
  BY DecodersInData DEF InData
<1>2. /\ buffer' \in Seq(Nat) /\ n <= Len(buffer') /\ Len(buffer') \in Nat
      /\ \A b \in 1 .. n : buffer'[b] = count'
  BY <1>1, Arrived
<1>3. Messages!BytesOf(r) # {} /\ Messages!BytesOf(r) \subseteq 0 .. n - 1
  <2>1. PICK first \in Int, last \in Int :
            first = r.first \div 8 /\ last = (r.first + r.width - 1) \div 8
    BY <1>1
  <2>2. /\ 8 * first <= r.first /\ r.first < 8 * first + 8
        /\ 8 * last <= r.first + r.width - 1 /\ r.first + r.width - 1 < 8 * last + 8
    BY <1>1, <2>1
  <2>3. 0 <= first /\ first <= last /\ last <= n - 1
    BY <1>1, <2>2
  <2>4. Messages!BytesOf(r) = first .. last
    BY <2>1 DEF Messages!BytesOf
  <2>5. first \in first .. last /\ first .. last \subseteq 0 .. n - 1
    BY <1>1, <2>3
  <2>6. QED
    BY <2>4, <2>5
<1>4. \A b \in Messages!BytesOf(r) : Messages!Writer(b) = count'
  <2> SUFFICES ASSUME NEW b \in Messages!BytesOf(r)
               PROVE  Messages!Writer(b) = count'
    OBVIOUS
  <2>1. b \in 0 .. n - 1
    BY <1>3
  <2>2. b < Len(buffer') /\ b + 1 \in 1 .. n
    BY <1>1, <1>2, <2>1
  <2>3. QED
    BY <1>2, <2>2 DEF Messages!Writer
<1>5. QED
  BY <1>3, <1>4 DEF Messages!Read

(* A message from the referee. *)
LEMMA MessageReceived ==
    ASSUME MessagesInv, NEW type \in Messages!Types, NEW dataLength \in Nat,
           Messages!messageReceiveCallback(type, dataLength)
    PROVE  MessagesInv'
<1> DEFINE reads == Messages!Decoders[type].reads
<1>1. /\ count' = count + 1 /\ buffer' \in Seq(Nat) /\ count \in Nat
  BY Arrived DEF Messages!messageReceiveCallback, MessagesInv
<1>2. UNCHANGED <<msgIdToRobotToRobotHandlerMap, called, heard>>
  BY DEF Messages!messageReceiveCallback
<1>3. \A id \in MsgIds : heard'[id] <= count'
  BY <1>1, <1>2 DEF MessagesInv
<1>4. Messages!HandlersUpToDate'
  BY <1>2 DEF MessagesInv, Messages!HandlersUpToDate
<1>5. CASE dataLength # Messages!Decoders[type].dataLength
  <2>1. UNCHANGED <<fields, latest>>
    BY <1>5 DEF Messages!messageReceiveCallback, Messages!Accepted
  <2>2. Messages!FieldsUpToDate'
    BY <2>1 DEF MessagesInv, Messages!FieldsUpToDate
  <2>3. QED
    BY <1>1, <1>2, <1>3, <1>4, <2>1, <2>2 DEF MessagesInv
<1>6. CASE dataLength = Messages!Decoders[type].dataLength
  <2>1. fields' = Messages!Decoded(reads) /\ latest' = [latest EXCEPT ![type] = count']
    BY <1>6 DEF Messages!messageReceiveCallback, Messages!Accepted
  <2>2. latest \in [Messages!Types -> Nat]
    BY DEF MessagesInv
  <2>3. latest' \in [Messages!Types -> Nat] /\ latest'[type] = count'
    BY <1>1, <2>1, <2>2
  <2>4. \A f \in DOMAIN fields :
           fields'[f] = IF \E r \in reads : r.name = f
                        THEN Messages!Read(CHOOSE r \in reads : r.name = f) ELSE fields[f]
    BY <2>1 DEF Messages!Decoded
  <2>5. DOMAIN fields' = DOMAIN fields
    BY <2>1 DEF Messages!Decoded
  <2>6. \A any \in Messages!Types : \A r \in Messages!Decoders[any].reads :
           r.name \in DOMAIN fields /\ r.name \in FieldsOf(any)
    <3>1. \A any \in Messages!Types : \A r \in Messages!Decoders[any].reads :
              r.name \in Messages!Written(any)
      BY DEF Messages!Written
    <3>2. QED
      BY <3>1, WrittenFields DEF MessagesInv
  <2>7. ASSUME NEW r \in reads, r.name # "progress.sentry"
        PROVE  fields'[r.name] = {latest'[type]}
    <3>1. (CHOOSE other \in reads : other.name = r.name) = r
      BY DecodersInData DEF InData
    <3>2. Messages!Read(r) = {count'}
      BY <1>6, <2>7, ReadsItsMessage DEF Messages!messageReceiveCallback
    <3>3. QED
      BY <2>3, <2>4, <2>6, <3>1, <3>2
  <2>8. ASSUME NEW other \in Messages!Types, other # type, latest'[other] # 0,
               NEW r \in Messages!Decoders[other].reads, r.name # "progress.sentry"
        PROVE  fields'[r.name] = {latest'[other]}
    <3>1. latest'[other] = latest[other]
      BY <2>1, <2>2, <2>8
    <3>2. fields[r.name] = {latest[other]}
      BY <2>8, <3>1 DEF MessagesInv, Messages!FieldsUpToDate
    <3>3. ~ \E own \in reads : own.name = r.name
      BY <2>6, <2>8, Owned
    <3>4. QED
      BY <2>4, <2>6, <3>1, <3>2, <3>3
  <2>9. Messages!FieldsUpToDate'
    BY <2>7, <2>8 DEF Messages!FieldsUpToDate
  <2>10. QED
    BY <1>1, <1>2, <1>3, <1>4, <2>3, <2>5, <2>9 DEF MessagesInv
<1>7. QED
  BY <1>5, <1>6

(* A message from another robot. *)
LEMMA MessageHandled ==
    ASSUME MessagesInv, NEW msgId \in MsgIds, NEW dataLength \in Nat,
           Messages!handleRobotToRobotCommunication(msgId, dataLength)
    PROVE  MessagesInv'
<1>1. /\ count' = count + 1 /\ buffer' \in Seq(Nat) /\ count \in Nat
  BY Arrived DEF Messages!handleRobotToRobotCommunication, MessagesInv
<1>2. UNCHANGED <<fields, msgIdToRobotToRobotHandlerMap, latest>>
  BY DEF Messages!handleRobotToRobotCommunication
<1>3. /\ called \in [Handlers -> Nat] /\ heard \in [MsgIds -> Nat]
      /\ \A id \in MsgIds : heard[id] <= count
      /\ DOMAIN msgIdToRobotToRobotHandlerMap \subseteq MsgIds
  BY DEF MessagesInv
<1>4. Messages!FieldsUpToDate'
  BY <1>2 DEF MessagesInv, Messages!FieldsUpToDate
<1>5. CASE ~ Messages!Handled(msgId, dataLength)
  <2>1. UNCHANGED <<called, heard>>
    BY <1>5 DEF Messages!handleRobotToRobotCommunication
  <2>2. \A id \in MsgIds : heard'[id] <= count'
    BY <1>1, <1>3, <2>1
  <2>3. Messages!HandlersUpToDate'
    BY <1>2, <2>1 DEF MessagesInv, Messages!HandlersUpToDate
  <2>4. QED
    BY <1>1, <1>2, <1>4, <2>1, <2>2, <2>3 DEF MessagesInv
<1>6. CASE Messages!Handled(msgId, dataLength)
  <2> DEFINE map == msgIdToRobotToRobotHandlerMap
             mine(h) == {id \in DOMAIN map : map[id] = h}
  <2>1. msgId \in DOMAIN map /\ map[msgId] \in Handlers
    BY <1>6 DEF Messages!Handled, MessagesInv
  <2>2. called' = [called EXCEPT ![map[msgId]] = count']
    BY <1>6 DEF Messages!handleRobotToRobotCommunication
  <2>3. heard' = [heard EXCEPT ![msgId] = count']
    BY <1>6 DEF Messages!handleRobotToRobotCommunication
  <2>4. called' \in [Handlers -> Nat] /\ heard' \in [MsgIds -> Nat]
    BY <1>1, <1>3, <2>1, <2>2, <2>3
  <2>5. /\ \A id \in MsgIds : heard'[id] <= count'
        /\ \A id \in MsgIds \ DOMAIN map : heard'[id] = 0
    BY <1>1, <1>3, <2>1, <2>3 DEF MessagesInv
  <2>6. ASSUME NEW h \in Handlers
        PROVE  /\ \A id \in mine(h) : heard'[id] <= called'[h]
               /\ called'[h] = 0 \/ \E id \in mine(h) : called'[h] = heard'[id]
    <3>1. CASE h = map[msgId]
      <4>1. called'[h] = count' /\ heard'[msgId] = count' /\ msgId \in mine(h)
        BY <1>3, <2>1, <2>2, <2>3, <3>1
      <4>2. \A id \in mine(h) : heard'[id] <= called'[h]
        BY <1>3, <2>5, <4>1
      <4>3. QED
        BY <4>1, <4>2
    <3>2. CASE h # map[msgId]
      <4>1. called'[h] = called[h]
        BY <1>3, <2>2, <3>2
      <4>2. \A id \in mine(h) : heard'[id] = heard[id]
        BY <1>3, <2>3, <3>2
      <4>3. /\ \A id \in mine(h) : heard[id] <= called[h]
            /\ called[h] = 0 \/ \E id \in mine(h) : called[h] = heard[id]
        BY DEF MessagesInv, Messages!HandlersUpToDate
      <4>4. QED
        BY <4>1, <4>2, <4>3
    <3>3. QED
      BY <3>1, <3>2
  <2>7. Messages!HandlersUpToDate'
    BY <1>2, <2>6 DEF Messages!HandlersUpToDate
  <2>8. QED
    BY <1>1, <1>2, <1>4, <2>4, <2>5, <2>7 DEF MessagesInv
<1>7. QED
  BY <1>5, <1>6

(* A handler is attached, or refused. *)
LEMMA HandlerAttached ==
    ASSUME MessagesInv, NEW msgId \in MsgIds, NEW handler \in Handlers,
           Messages!attachRobotToRobotMessageHandler(msgId, handler)
    PROVE  MessagesInv'
<1> DEFINE map == msgIdToRobotToRobotHandlerMap
<1>1. UNCHANGED <<buffer, count, fields, called, latest, heard>>
  BY DEF Messages!attachRobotToRobotMessageHandler
<1>2. Messages!FieldsUpToDate'
  BY <1>1 DEF MessagesInv, Messages!FieldsUpToDate
<1>3. CASE ~ Messages!Attachable(msgId)
  <2>1. map' = map
    BY <1>3 DEF Messages!attachRobotToRobotMessageHandler
  <2>2. Messages!HandlersUpToDate'
    BY <1>1, <2>1 DEF MessagesInv, Messages!HandlersUpToDate
  <2>3. QED
    BY <1>1, <1>2, <2>1, <2>2 DEF MessagesInv
<1>4. CASE Messages!Attachable(msgId)
  <2>1. map' = [id \in DOMAIN map \union {msgId} |-> IF id = msgId THEN handler ELSE map[id]]
    BY <1>4 DEF Messages!attachRobotToRobotMessageHandler
  <2>2. msgId \notin DOMAIN map
    BY <1>4 DEF Messages!Attachable
  <2>3. called \in [Handlers -> Nat]
    BY DEF MessagesInv
  <2>4. \A id \in DOMAIN map : map'[id] = map[id]
    BY <2>1, <2>2
  <2>5. ASSUME NEW h \in Handlers
        PROVE  /\ \A id \in {id \in DOMAIN map' : map'[id] = h} : heard[id] <= called[h]
               /\ \/ called[h] = 0
                  \/ \E id \in {id \in DOMAIN map' : map'[id] = h} : called[h] = heard[id]
    <3>1. /\ \A id \in {id \in DOMAIN map : map[id] = h} : heard[id] <= called[h]
          /\ \/ called[h] = 0
             \/ \E id \in {id \in DOMAIN map : map[id] = h} : called[h] = heard[id]
      BY DEF MessagesInv, Messages!HandlersUpToDate
    <3>2. heard[msgId] <= called[h]
      BY <2>2, <2>3 DEF MessagesInv
    <3>3. QED
      BY <2>1, <2>4, <3>1, <3>2
  <2>6. Messages!HandlersUpToDate'
    BY <1>1, <2>5 DEF Messages!HandlersUpToDate
  <2>7. /\ DOMAIN map' \subseteq MsgIds /\ \A id \in DOMAIN map' : map'[id] \in Handlers
        /\ \A id \in MsgIds \ DOMAIN map' : heard[id] = 0
    BY <2>1 DEF MessagesInv
  <2>8. QED
    BY <1>1, <1>2, <2>6, <2>7 DEF MessagesInv
<1>5. QED
  BY <1>3, <1>4

(* Every message, and every handler that is attached. *)
LEMMA MessagesStep == MessagesInv /\ [Messages!Next]_messagesVars => MessagesInv'
<1> SUFFICES ASSUME MessagesInv, [Messages!Next]_messagesVars
             PROVE  MessagesInv'
  OBVIOUS
<1>1. CASE UNCHANGED messagesVars
  BY <1>1
  DEF messagesVars, MessagesInv, Messages!FieldsUpToDate, Messages!HandlersUpToDate
<1>2. CASE Messages!Next
  <2>1. \A type \in Messages!Types : Messages!Decoders[type].dataLength \in Nat
    BY DecodersInData DEF InData
  <2>2. OtherLengths \subseteq Nat
    BY OtherLengthsAssumption DEF Messages!OtherLengthsAssumption
  <2>3. ASSUME NEW type \in Messages!Types,
               NEW n \in OtherLengths \union {Messages!Decoders[type].dataLength},
               Messages!messageReceiveCallback(type, n)
        PROVE  MessagesInv'
    BY <2>1, <2>2, <2>3, MessageReceived
  <2>4. ASSUME NEW msgId \in MsgIds, NEW n \in OtherLengths,
               Messages!handleRobotToRobotCommunication(msgId, n)
        PROVE  MessagesInv'
    BY <2>2, <2>4, MessageHandled
  <2>5. ASSUME NEW msgId \in MsgIds, NEW h \in Handlers,
               Messages!attachRobotToRobotMessageHandler(msgId, h)
        PROVE  MessagesInv'
    BY <2>5, HandlerAttached
  <2>6. QED
    BY <1>2, <2>3, <2>4, <2>5 DEF Messages!Next
<1>3. QED
  BY <1>1, <1>2

-----------------------------------------------------------------------------
(* What a field of each width keeps. *)
LEMMA Powers ==
    /\ 2^Graphics!Width.name = 16777216 /\ 2^Graphics!Width.operation = 8
    /\ 2^Graphics!Width.type = 8 /\ 2^Graphics!Width.layer = 16
    /\ 2^Graphics!Width.color = 16 /\ 2^Graphics!Width.startAngle = 512
    /\ 2^Graphics!Width.endAngle = 512 /\ 2^Graphics!Width.lineWidth = 1024
    /\ 2^Graphics!Width.startX = 2048 /\ 2^Graphics!Width.startY = 2048
    /\ 2^Graphics!Width.radius = 1024 /\ 2^Graphics!Width.endX = 2048
    /\ 2^Graphics!Width.endY = 2048
<1>1. /\ Graphics!Width.name = 24 /\ Graphics!Width.operation = 3 /\ Graphics!Width.type = 3
      /\ Graphics!Width.layer = 4 /\ Graphics!Width.color = 4 /\ Graphics!Width.startAngle = 9
      /\ Graphics!Width.endAngle = 9 /\ Graphics!Width.lineWidth = 10
      /\ Graphics!Width.startX = 11 /\ Graphics!Width.startY = 11
      /\ Graphics!Width.radius = 10 /\ Graphics!Width.endX = 11 /\ Graphics!Width.endY = 11
  BY DEF Graphics!Width
<1>2. /\ 2^24 = 16777216 /\ 2^3 = 8 /\ 2^4 = 16 /\ 2^9 = 512 /\ 2^10 = 1024 /\ 2^11 = 2048
  BY SMT
<1>3. QED
  BY <1>1, <1>2, SMT

(* All that a graphic keeps. *)
LEMMA TheFields ==
    Graphics!Fields = {"name", "operation", "type", "layer", "color", "startAngle", "endAngle",
                       "lineWidth", "startX", "startY", "radius", "endX", "endY", "characters"}
  BY DEF Graphics!Fields, Graphics!Width

(* A number of 32 bits is put together from the parts of the union. *)
LEMMA Parts ==
    ASSUME NEW n \in Int, -2147483647 - 1 <= n, n <= 2147483647
    PROVE  (((((n \div 2097152) % 2048) + 1024) % 2048) - 1024) * 2097152
               + ((n \div 1024) % 2048) * 1024 + (n % 1024) = n
<1>1. -2147483648 <= n
  BY SMT
<1>2. PICK high \in Int : high = n \div 2097152
  BY <1>1, SMT
<1>3. PICK middle \in Int : middle = n \div 1024
  BY <1>1, SMT
<1>4. /\ high * 2097152 <= n /\ n < high * 2097152 + 2097152
      /\ middle * 1024 <= n /\ n < middle * 1024 + 1024
      /\ n % 1024 = n - middle * 1024
  BY <1>1, <1>2, <1>3, SMT
<1>5. -1024 <= high /\ high <= 1023
  BY <1>1, <1>4
<1>6. (((high % 2048) + 1024) % 2048) - 1024 = high
  BY <1>5, SMT
<1>7. middle % 2048 = middle - high * 2048
  BY <1>4, SMT
<1>8. QED
  BY <1>2, <1>3, <1>4, <1>6, <1>7, SMT

(* What Stored() leaves in a field. *)
LEMMA StoredField ==
    ASSUME NEW data, NEW changes, NEW f \in Graphics!Fields
    PROVE  Graphics!Stored(data, changes)[f] =
               IF f \notin DOMAIN changes THEN data[f]
               ELSE IF f = "characters" THEN changes[f]
               ELSE changes[f] % 2^Graphics!Width[f]
  BY DEF Graphics!Stored

(* The shape is drawn where and as it was said, next to what all graphics have. *)
LEMMA ShapeShown ==
    ASSUME Graphics!ShowsLastDrawing, NEW a \in Drawings, NEW data, NEW changes,
           NEW kind \in DOMAIN Graphics!GraphicType,
           \A f \in {"operation", "name", "layer", "color"} : data[f] = graphicData[f],
           DOMAIN changes \intersect {"operation", "name", "layer", "color", "type", "lineWidth",
                                      "startX", "startY"} = {},
           Graphics!Shape(data, kind, a, changes), Graphics!ShowsShape(kind, a)'
    PROVE  Graphics!ShowsLastDrawing'
<1> DEFINE common == [type |-> Graphics!GraphicType[kind], lineWidth |-> a.width,
                      startX |-> a.startX, startY |-> a.startY]
           first == Graphics!Stored(data, common)
<1>1. graphicData' = Graphics!Stored(first, changes)
  BY DEF Graphics!Shape
<1>2. \A f \in {"operation", "name", "layer", "color"} : graphicData'[f] = graphicData[f]
  <2> SUFFICES ASSUME NEW f \in {"operation", "name", "layer", "color"}
               PROVE  graphicData'[f] = graphicData[f]
    OBVIOUS
  <2>1. f \in Graphics!Fields /\ f \notin DOMAIN changes /\ f \notin DOMAIN common
    BY TheFields
  <2>2. graphicData'[f] = first[f]
    BY <1>1, <2>1, StoredField
  <2>3. first[f] = data[f]
    BY <2>1, StoredField
  <2>4. QED
    BY <2>2, <2>3
<1>3. \A f \in DOMAIN common : graphicData'[f] = common[f] % 2^Graphics!Width[f]
  <2> SUFFICES ASSUME NEW f \in DOMAIN common
               PROVE  graphicData'[f] = common[f] % 2^Graphics!Width[f]
    OBVIOUS
  <2>1. f \in Graphics!Fields /\ f \notin DOMAIN changes /\ f # "characters"
    BY TheFields
  <2>2. graphicData'[f] = first[f]
    BY <1>1, <2>1, StoredField
  <2>3. first[f] = common[f] % 2^Graphics!Width[f]
    BY <2>1, StoredField
  <2>4. QED
    BY <2>2, <2>3
<1>4. /\ graphicData'.type = Graphics!GraphicType[kind] % 8
      /\ graphicData'.lineWidth = a.width % 1024
      /\ graphicData'.startX = a.startX % 2048 /\ graphicData'.startY = a.startY % 2048
  BY <1>3, Powers, SMT
<1>5. Graphics!GraphicType[kind] \in 0 .. 7
  BY DEF Graphics!GraphicType
<1>6. {a.width, a.startX, a.startY} \subseteq Nat
  BY DrawingsAssumption DEF Graphics!DrawingsAssumption
<1>7. Graphics!ShowsPlace(a)'
  <2>1. 2^10 = 1024
    BY SMT
  <2>2. SUFFICES ASSUME a.width < 1024, a.startX <= 1920, a.startY <= 1920
                 PROVE  graphicData'.startX = a.startX /\ graphicData'.startY = a.startY
                            /\ graphicData'.lineWidth = a.width
    BY <2>1 DEF Graphics!ShowsPlace, Graphics!Fits
  <2>3. QED
    BY <1>4, <1>6, <2>2
<1>8. drawn' = [kind |-> kind, of |-> a] /\ generics' = generics
  BY DEF Graphics!Shape
<1>9. drawn'.kind = kind /\ drawn'.of = a
  BY <1>8
<1>10. graphicData'.type = Graphics!GraphicType[kind]
  BY <1>4, <1>5
<1>11. QED
  BY <1>2, <1>7, <1>8, <1>9, <1>10
  DEF Graphics!ShowsLastDrawing, Graphics!ShowsPlace, Graphics!ShowsShape, Graphics!ShowsEnd,
      Graphics!ShowsSize, Graphics!Value

(* What a shape with two more numbers, or with one, shows of them. *)
LEMMA Changed ==
    ASSUME NEW data, NEW changes, NEW kind, NEW a, Graphics!Shape(data, kind, a, changes)
    PROVE  /\ \A f \in Graphics!Fields \intersect DOMAIN changes :
                  f # "characters" => graphicData'[f] = changes[f] % 2^Graphics!Width[f]
           /\ "characters" \in DOMAIN changes => graphicData'.characters = changes.characters
           /\ \A f \in {"radius", "endX", "endY"} :
                  f \notin DOMAIN changes => graphicData'[f] = data[f]
<1> DEFINE common == [type |-> Graphics!GraphicType[kind], lineWidth |-> a.width,
                      startX |-> a.startX, startY |-> a.startY]
<1>1. graphicData' = Graphics!Stored(Graphics!Stored(data, common), changes)
  BY DEF Graphics!Shape
<1>2. \A f \in Graphics!Fields \intersect DOMAIN changes :
         f # "characters" => graphicData'[f] = changes[f] % 2^Graphics!Width[f]
  BY <1>1, StoredField
<1>3. "characters" \in DOMAIN changes => graphicData'.characters = changes.characters
  BY <1>1, StoredField, TheFields
<1>4. \A f \in {"radius", "endX", "endY"} :
         f \notin DOMAIN changes => graphicData'[f] = data[f]
  <2> SUFFICES ASSUME NEW f \in {"radius", "endX", "endY"}, f \notin DOMAIN changes
               PROVE  graphicData'[f] = data[f]
    OBVIOUS
  <2>1. f \in Graphics!Fields /\ f \notin DOMAIN common
    BY TheFields
  <2>2. graphicData'[f] = Graphics!Stored(data, common)[f]
    BY <1>1, <2>1, StoredField
  <2>3. QED
    BY <2>1, <2>2, StoredField
<1>5. QED
  BY <1>2, <1>3, <1>4

(* Two points of the screen, and the axes of an ellipse. *)
LEMMA EndShown ==
    ASSUME NEW a \in Drawings, NEW data, NEW kind, NEW changes,
           {"endX", "endY"} \subseteq DOMAIN changes,
           changes.endX = a.endX, changes.endY = a.endY,
           Graphics!Shape(data, kind, a, changes)
    PROVE  Graphics!ShowsEnd(a)'
<1>1. graphicData'.endX = a.endX % 2048 /\ graphicData'.endY = a.endY % 2048
  BY Changed, TheFields, Powers, SMT
<1>2. {a.endX, a.endY} \subseteq Nat
  BY DrawingsAssumption DEF Graphics!DrawingsAssumption
<1>3. SUFFICES ASSUME a.endX <= 1920, a.endY <= 1920
               PROVE  graphicData'.endX = a.endX /\ graphicData'.endY = a.endY
  BY DEF Graphics!ShowsEnd, Graphics!Fits
<1>4. QED
  BY <1>1, <1>2, <1>3

(* The size of a text or a number. *)
LEMMA SizeShown ==
    ASSUME NEW a \in Drawings, NEW data, NEW kind, NEW changes,
           "startAngle" \in DOMAIN changes, changes.startAngle = a.fontSize,
           Graphics!Shape(data, kind, a, changes)
    PROVE  Graphics!ShowsSize(a)'
<1>1. graphicData'.startAngle = a.fontSize % 512
  BY Changed, TheFields, Powers, SMT
<1>2. a.fontSize \in Nat
  BY DrawingsAssumption DEF Graphics!DrawingsAssumption
<1>3. 2^9 = 512
  BY SMT
<1>4. QED
  BY <1>1, <1>2, <1>3 DEF Graphics!ShowsSize

(* A number that is written to the union is the one that it is read as. *)
LEMMA ValueShown ==
    ASSUME NEW a \in Drawings, NEW value \in Int,
           -2147483647 - 1 <= value, value <= 2147483647,
           NEW kind, NEW changes, DOMAIN changes \intersect {"radius", "endX", "endY"} = {},
           Graphics!Shape(Graphics!WithValue(value), kind, a, changes)
    PROVE  Graphics!Value' = value
<1> DEFINE union == [radius |-> value, endX |-> value \div 2^10, endY |-> value \div 2^21]
           data == Graphics!WithValue(value)
<1>1. \A f \in {"radius", "endX", "endY"} : graphicData'[f] = data[f]
  BY Changed
<1>2. \A f \in {"radius", "endX", "endY"} : data[f] = union[f] % 2^Graphics!Width[f]
  <2>1. data = Graphics!Stored(graphicData, union)
    BY DEF Graphics!WithValue
  <2>2. {"radius", "endX", "endY"} \subseteq Graphics!Fields
    BY TheFields
  <2>3. QED
    BY <2>1, <2>2, StoredField
<1>3. 2^10 = 1024 /\ 2^11 = 2048 /\ 2^21 = 2097152
  BY SMT
<1>4. /\ graphicData'.radius = value % 1024
      /\ graphicData'.endX = (value \div 1024) % 2048
      /\ graphicData'.endY = (value \div 2097152) % 2048
  BY <1>1, <1>2, <1>3, Powers, SMT
<1>5. Graphics!Value' = (((graphicData'.endY + 1024) % 2048) - 1024) * 2097152
                            + graphicData'.endX * 1024 + graphicData'.radius
  BY <1>3, SMT DEF Graphics!Value
<1>6. QED
  BY <1>4, <1>5, Parts, SMT

(* Each function of a shape. *)
LEMMA DrawnShown ==
    ASSUME Graphics!ShowsLastDrawing, NEW a \in Drawings,
           \/ Graphics!configLine(a) \/ Graphics!configRectangle(a) \/ Graphics!configCircle(a)
           \/ Graphics!configEllipse(a) \/ Graphics!configArc(a)
           \/ Graphics!configFloatingNumber(a) \/ Graphics!configInteger(a)
           \/ Graphics!configCharacterMsg(a)
    PROVE  Graphics!ShowsLastDrawing'
<1> DEFINE ends == [endX |-> a.endX, endY |-> a.endY]
           Kinds == DOMAIN Graphics!GraphicType
           Generic == {"operation", "name", "layer", "color"}
<1>1. Kinds = {"STRAIGHT_LINE", "RECTANGLE", "CIRCLE", "ELLIPSE", "ARC", "FLOATING_NUM",
               "INTEGER", "CHARACTER"}
  BY DEF Graphics!GraphicType
<1>2. ASSUME NEW kind \in {"STRAIGHT_LINE", "RECTANGLE", "ELLIPSE"},
             Graphics!Shape(graphicData, kind, a, ends)
      PROVE  Graphics!ShowsLastDrawing'
  <2>1. Graphics!ShowsEnd(a)'
    BY <1>2, EndShown
  <2>2. Graphics!ShowsShape(kind, a)'
    BY <2>1 DEF Graphics!ShowsShape
  <2>3. kind \in Kinds
    BY <1>1
  <2>4. QED
    BY <1>2, <2>2, <2>3, ShapeShown
<1>3. CASE Graphics!configCircle(a)
  <2> DEFINE circle == [radius |-> a.radius]
  <2>1. Graphics!Shape(graphicData, "CIRCLE", a, circle)
    BY <1>3 DEF Graphics!configCircle
  <2>2. graphicData'.radius = a.radius % 1024
    BY <2>1, Changed, TheFields, Powers, SMT
  <2>3. a.radius \in Nat /\ 2^10 = 1024
    BY DrawingsAssumption, SMT DEF Graphics!DrawingsAssumption
  <2>4. Graphics!ShowsShape("CIRCLE", a)'
    BY <2>2, <2>3 DEF Graphics!ShowsShape
  <2>5. QED
    BY <1>1, <2>1, <2>4, ShapeShown
<1>4. CASE Graphics!configArc(a)
  <2> DEFINE arc == [startAngle |-> a.startAngle, endAngle |-> a.endAngle, endX |-> a.endX,
                     endY |-> a.endY]
  <2>1. Graphics!Shape(graphicData, "ARC", a, arc)
    BY <1>4 DEF Graphics!configArc
  <2>2. /\ graphicData'.startAngle = a.startAngle % 512
        /\ graphicData'.endAngle = a.endAngle % 512
    BY <2>1, Changed, TheFields, Powers, SMT
  <2>3. {a.startAngle, a.endAngle} \subseteq Nat
    BY DrawingsAssumption DEF Graphics!DrawingsAssumption
  <2>4. Graphics!ShowsEnd(a)'
    BY <2>1, EndShown
  <2>5. a.startAngle <= 360 /\ a.endAngle <= 360
            => graphicData'.startAngle = a.startAngle /\ graphicData'.endAngle = a.endAngle
    BY <2>2, <2>3
  <2>6. Graphics!ShowsShape("ARC", a)'
    BY <2>4, <2>5 DEF Graphics!ShowsShape
  <2>7. QED
    BY <1>1, <2>1, <2>6, ShapeShown
<1>5. a.value \in Int /\ -2147483647 - 1 <= a.value /\ a.value <= 2147483647
  BY DrawingsAssumption DEF Graphics!DrawingsAssumption
<1>6. ASSUME NEW value \in Int
      PROVE  \A f \in Generic : Graphics!WithValue(value)[f] = graphicData[f]
  BY StoredField, TheFields DEF Graphics!WithValue
<1>7. CASE Graphics!configInteger(a)
  <2> DEFINE size == [startAngle |-> a.fontSize]
  <2>1. Graphics!Shape(Graphics!WithValue(a.value), "INTEGER", a, size)
    BY <1>7 DEF Graphics!configInteger
  <2>2. Graphics!Value' = a.value
    BY <1>5, <2>1, ValueShown
  <2>3. Graphics!ShowsSize(a)'
    BY <2>1, SizeShown
  <2>4. Graphics!ShowsShape("INTEGER", a)'
    BY <2>2, <2>3 DEF Graphics!ShowsShape
  <2>5. QED
    BY <1>1, <1>5, <1>6, <2>1, <2>4, ShapeShown
<1>8. CASE Graphics!configFloatingNumber(a)
  <2> DEFINE size == [startAngle |-> a.fontSize, endAngle |-> a.decimalPrecision]
             value == Graphics!Thousandths(a.value)
  <2>1. Graphics!Shape(Graphics!WithValue(value), "FLOATING_NUM", a, size)
    BY <1>8 DEF Graphics!configFloatingNumber
  <2>2. /\ value \in Int /\ -2147483647 - 1 <= value /\ value <= 2147483647
        /\ a.value - 10 * value \in -9 .. 9
    <3>1. CASE a.value < 0
      <4>1. PICK n \in Nat : n = -a.value
        BY <1>5, <3>1
      <4>2. PICK q \in Int : q = n \div 10
        BY <4>1
      <4>3. 10 * q <= n /\ n < 10 * q + 10
        BY <4>1, <4>2
      <4>4. value = -q
        BY <3>1, <4>1, <4>2 DEF Graphics!Thousandths
      <4>5. n <= 2147483647 + 1
        BY <1>5, <4>1, SMT
      <4>6. QED
        BY <1>5, <4>1, <4>3, <4>4, <4>5, SMT
    <3>2. CASE ~(a.value < 0)
      <4>1. value = a.value \div 10
        BY <3>2 DEF Graphics!Thousandths
      <4>2. PICK q \in Int : q = a.value \div 10
        BY <1>5
      <4>3. 10 * q <= a.value /\ a.value < 10 * q + 10
        BY <1>5, <4>2
      <4>4. QED
        BY <1>5, <3>2, <4>1, <4>2, <4>3, SMT
    <3>3. QED
      BY <3>1, <3>2
  <2>3. Graphics!Value' = value
    BY <2>1, <2>2, ValueShown
  <2>4. Graphics!ShowsSize(a)'
    BY <2>1, SizeShown
  <2>5. graphicData'.endAngle = a.decimalPrecision % 512
    BY <2>1, Changed, TheFields, Powers, SMT
  <2>6. a.decimalPrecision \in Nat /\ 2^9 = 512
    BY DrawingsAssumption, SMT DEF Graphics!DrawingsAssumption
  <2>7. a.decimalPrecision < 2^9 => graphicData'.endAngle = a.decimalPrecision
    BY <2>5, <2>6
  <2>8. Graphics!ShowsShape("FLOATING_NUM", a)'
    BY <2>2, <2>3, <2>4, <2>7 DEF Graphics!ShowsShape
  <2>9. QED
    BY <1>1, <1>6, <2>1, <2>2, <2>8, ShapeShown
<1>9. CASE Graphics!configCharacterMsg(a)
  <2> DEFINE text == [startAngle |-> a.fontSize, endAngle |-> a.length,
                      characters |-> IF a.length < 29 THEN a.length ELSE 29]
  <2>1. Graphics!Shape(graphicData, "CHARACTER", a, text)
    BY <1>9 DEF Graphics!configCharacterMsg
  <2>2. /\ graphicData'.endAngle = a.length % 512
        /\ graphicData'.characters = text.characters
    BY <2>1, Changed, TheFields, Powers, SMT
  <2>3. a.length \in Nat
    BY DrawingsAssumption DEF Graphics!DrawingsAssumption
  <2>4. a.length < 30 => graphicData'.characters = graphicData'.endAngle
    BY <2>2, <2>3
  <2>5. Graphics!ShowsSize(a)'
    BY <2>1, SizeShown
  <2>6. Graphics!ShowsShape("CHARACTER", a)'
    BY <2>4, <2>5 DEF Graphics!ShowsShape
  <2>7. QED
    BY <1>1, <2>1, <2>6, ShapeShown
<1>10. QED
  BY <1>2, <1>3, <1>4, <1>7, <1>8, <1>9
  DEF Graphics!configLine, Graphics!configRectangle, Graphics!configEllipse

(* The function of what all graphics have. *)
LEMMA GenericsShown ==
    ASSUME Graphics!ShowsLastDrawing, NEW a \in Drawings,
           NEW op \in DOMAIN Graphics!GraphicOperation,
           Graphics!configGraphicGenerics(a, op)
    PROVE  Graphics!ShowsLastDrawing'
<1> DEFINE all == [name |-> a.name, operation |-> Graphics!GraphicOperation[op],
                   layer |-> a.layer, color |-> Graphics!GraphicColor[a.color]]
<1>1. /\ graphicData' = Graphics!Stored(graphicData, all)
      /\ generics' = [operation |-> op, of |-> a] /\ drawn' = drawn
  BY DEF Graphics!configGraphicGenerics
<1>2. \A f \in Graphics!Fields \ DOMAIN all : graphicData'[f] = graphicData[f]
  BY <1>1, StoredField
<1>3. \A f \in DOMAIN all : graphicData'[f] = all[f] % 2^Graphics!Width[f]
  BY <1>1, StoredField, TheFields
<1>4. /\ graphicData'.operation = Graphics!GraphicOperation[op] % 8
      /\ graphicData'.name = a.name % 16777216 /\ graphicData'.layer = a.layer % 16
      /\ graphicData'.color = Graphics!GraphicColor[a.color] % 16
  BY <1>3, Powers, SMT
<1>5. /\ a.name \in Nat /\ a.name < 2^24 /\ a.layer \in 0 .. 9
      /\ a.color \in DOMAIN Graphics!GraphicColor
  BY DrawingsAssumption DEF Graphics!DrawingsAssumption
<1>6. 2^24 = 16777216
  BY SMT
<1>7. Graphics!GraphicColor[a.color] \in 0 .. 8
  BY <1>5 DEF Graphics!GraphicColor
<1>8. Graphics!GraphicOperation[op] \in 0 .. 3
  BY DEF Graphics!GraphicOperation
<1>9. /\ graphicData'.operation = Graphics!GraphicOperation[op]
      /\ graphicData'.name = a.name /\ graphicData'.layer = a.layer
      /\ graphicData'.color = Graphics!GraphicColor[a.color]
  BY <1>4, <1>5, <1>6, <1>7, <1>8, SMT
<1>10. generics'.operation = op /\ generics'.of = a
  BY <1>1
<1>11. \A f \in {"type", "startAngle", "endAngle", "lineWidth", "startX", "startY", "radius",
                 "endX", "endY", "characters"} : graphicData'[f] = graphicData[f]
  BY <1>2, TheFields
<1>12. QED
  BY <1>1, <1>9, <1>10, <1>11
  DEF Graphics!ShowsLastDrawing, Graphics!ShowsPlace, Graphics!ShowsShape, Graphics!ShowsEnd,
      Graphics!ShowsSize, Graphics!Value

(* A graphic shows what it was last configured as, whatever the graphics are
   and however often and in whichever order they are configured. *)
LEMMA GraphicsShown ==
    /\ Graphics!Init => Graphics!ShowsLastDrawing
    /\ Graphics!ShowsLastDrawing /\ [Graphics!Next]_graphicVars => Graphics!ShowsLastDrawing'
<1>1. Graphics!FillsWords
  BY DEF Graphics!FillsWords, Graphics!Width
<1>2. Graphics!Init => Graphics!ShowsLastDrawing
  BY <1>1 DEF Graphics!Init, Graphics!ShowsLastDrawing
<1>3. ASSUME Graphics!ShowsLastDrawing, [Graphics!Next]_graphicVars
      PROVE  Graphics!ShowsLastDrawing'
  <2>1. CASE UNCHANGED graphicVars
    BY <1>3, <2>1
    DEF graphicVars, Graphics!ShowsLastDrawing, Graphics!ShowsPlace, Graphics!ShowsShape,
        Graphics!ShowsEnd, Graphics!ShowsSize, Graphics!Value
  <2>2. CASE Graphics!Next
    <3>1. PICK a \in Drawings :
              \/ \E op \in DOMAIN Graphics!GraphicOperation :
                    Graphics!configGraphicGenerics(a, op)
              \/ Graphics!configLine(a) \/ Graphics!configRectangle(a)
              \/ Graphics!configCircle(a) \/ Graphics!configEllipse(a)
              \/ Graphics!configArc(a) \/ Graphics!configFloatingNumber(a)
              \/ Graphics!configInteger(a) \/ Graphics!configCharacterMsg(a)
      BY <2>2 DEF Graphics!Next
    <3>2. QED
      BY <1>3, <3>1, DrawnShown, GenericsShown
  <2>3. QED
    BY <1>3, <2>1, <2>2
<1>4. QED
  BY <1>2, <1>3

-----------------------------------------------------------------------------
(***************************************************************************)
(* What is said is understood, for any robots, lengths, identifiers,       *)
(* handlers, senders and graphics: the data of the referee are those of    *)
(* the last message of each type, handlers have the last message that was  *)
(* for them, every frame written is whole, and every graphic shows what it *)
(* was last configured as (ref_serial.cpp:48-501, ref_serial_data.hpp,     *)
(* ref_serial_transmitter.cpp:33-435).                                     *)
(***************************************************************************)
THEOREM SaidUnderstood == Spec => []SaidIsUnderstood
<1>1. Init => MessagesInv /\ Graphics!ShowsLastDrawing
  BY MessagesStart, GraphicsShown DEF Init
<1>2. [Next]_vars => [Messages!Next]_messagesVars /\ [Graphics!Next]_graphicVars
  <2> SUFFICES ASSUME [Next]_vars
               PROVE  [Messages!Next]_messagesVars /\ [Graphics!Next]_graphicVars
    OBVIOUS
  <2>1. CASE UseMessages
    BY <2>1 DEF UseMessages
  <2>2. CASE UseGraphics
    BY <2>2 DEF UseGraphics
  <2>3. CASE UNCHANGED <<messagesVars, graphicVars>>
    BY <2>3
  <2>4. QED
    BY <2>1, <2>2, <2>3 DEF Next, UseDamage, OnlyScreen, vars
<1>3. MessagesInv /\ Graphics!ShowsLastDrawing /\ [Next]_vars
          => MessagesInv' /\ Graphics!ShowsLastDrawing'
  BY <1>2, MessagesStep, GraphicsShown
<1>4. Spec => []Screen!WritesWholeFrames
  <2>1. Screen!ScreenAssumption
    BY ScreenAssumption
  <2>2. Screen!Spec => []Screen!WritesWholeFrames
    BY <2>1, Screen!FramesWhole
  <2>3. QED
    BY <2>2, RunsScreen, PTL
<1>5. Spec => [](MessagesInv /\ Graphics!ShowsLastDrawing)
  BY <1>1, <1>3, PTL DEF Spec
<1>6. MessagesInv /\ Graphics!ShowsLastDrawing /\ Screen!WritesWholeFrames => SaidIsUnderstood
  BY TablesServe DEF MessagesInv, SaidIsUnderstood
<1>7. QED
  BY <1>4, <1>5, <1>6, PTL

-----------------------------------------------------------------------------
(* Two graphics, of which the second asks for more than the fields hold. *)
MCDrawings ==
    {[name |-> 1, layer |-> 9, color |-> "WHITE", fontSize |-> 20, decimalPrecision |-> 2,
      width |-> 4, startX |-> 960, startY |-> 1080, endX |-> 1920, endY |-> 0, radius |-> 100,
      startAngle |-> 0, endAngle |-> 360, value |-> 2000000000, length |-> 4],
     [name |-> 2^24 - 1, layer |-> 0, color |-> "YELLOW", fontSize |-> 511, decimalPrecision |-> 0,
      width |-> 1024, startX |-> 2048, startY |-> 1, endX |-> 5000, endY |-> 7, radius |-> 1024,
      startAngle |-> 540, endAngle |-> 10, value |-> -7, length |-> 31]}
=============================================================================
