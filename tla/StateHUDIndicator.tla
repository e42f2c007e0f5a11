------------------------- MODULE StateHUDIndicator -------------------------
(***************************************************************************)
(* tap::communication::referee::StateHUDIndicator: graphics on the screen  *)
(* of the operator that follow a state.  A protothread initialises and     *)
(* draws an indicator with its transmitter; the state is set by the rest   *)
(* of the program, at any time between two yields.  Next to the indicators *)
(* a thread sends messages of the other kinds.                             *)
(***************************************************************************)
EXTENDS RefSerialTransmitter, TLAPS

CONSTANTS
    Indicators,         \* the transmitters that draw an indicator
    States,
    InitialState,
    GraphicWait,        \* getWaitTimeAfterGraphicSendMs(), rounded down
    MIN_UPDATE_PERIOD

VARIABLES
    pc,                     \* where the thread of each indicator is
    operation, shown,       \* of the graphic
    indicatorState, indicatorChanged,
    delayTimeout, minUpdatePeriodTimeout,  \* what is left of them
    display,                \* external: the state that the client shows
    lost                    \* history: a message was dropped or overtaken

indicatorVars == <<pc, operation, shown, indicatorState, indicatorChanged, delayTimeout,
                   minUpdatePeriodTimeout, display, lost>>
vars == <<transmitterVars, indicatorVars>>

NotShown == "not shown"

(* The delay and the lengths are unsigned, the indicators are transmitters, *)
(* and what the screen shows first is no state.                            *)
ScreenAssumption ==
    /\ Delay \in Nat
    /\ MsgLens \subseteq Nat
    /\ Indicators \subseteq Transmitters
    /\ InitialState \in States
    /\ NotShown \notin States

Init ==
    /\ TransmitterInit
    /\ pc = [i \in Indicators |-> "new"]
    /\ operation = [i \in Indicators |-> "none"]
    /\ shown = [i \in Indicators |-> InitialState]
    /\ indicatorState = [i \in Indicators |-> InitialState]
    /\ indicatorChanged = [i \in Indicators |-> FALSE]
    /\ delayTimeout = [i \in Indicators |-> 0]
    /\ minUpdatePeriodTimeout = [i \in Indicators |-> 0]
    /\ display = [i \in Indicators |-> NotShown]
    /\ lost = [i \in Indicators |-> FALSE]

(***************************************************************************)
(* External: the client ignores a frame whose CRC is not that of its data, *)
(* and modifies nothing that was not added.  The header and the CRC were   *)
(* made when the sending began, the data are those of the graphic now.     *)
(***************************************************************************)
Displayed(i, message) ==
    IF /\ message.content.state = shown[i]
       /\ message.content.op = "add" \/ display[i] # NotShown
    THEN shown[i] ELSE display[i]

(* The graphic, for which the header and the CRC of the message are made. *)
Configured(i, op) == GraphicMessage(1, [op |-> op, state |-> shown[i]])

(* What follows once sendGraphic() returned, written or not. *)
Returned(i, op) ==
    /\ pc' = [pc EXCEPT ![i] = IF op = "add" THEN "settling" ELSE "resting"]
    /\ operation' = [operation EXCEPT ![i] = "modify"]
    /\ indicatorChanged' = [indicatorChanged EXCEPT ![i] = @ /\ op = "add"]
    /\ delayTimeout' = [delayTimeout EXCEPT ![i] = GraphicWait]

Shows(i, message) == display' = [display EXCEPT ![i] = Displayed(i, message)]

(* The first call of sendGraphic(): it returns or it waits. *)
Begin(i, op) ==
    \/ /\ Dropped
       /\ Returned(i, op)
       /\ lost' = [lost EXCEPT ![i] = TRUE]
       /\ UNCHANGED display
    \/ /\ Send(i, Configured(i, op))
       /\ UNCHANGED lost
       /\ IF waiting'[i] = NoMessage
          THEN Returned(i, op) /\ Shows(i, Configured(i, op))
          ELSE /\ pc' = [pc EXCEPT ![i] = IF op = "add" THEN "adding" ELSE "drawing"]
               /\ operation' = [operation EXCEPT ![i] = op]
               /\ UNCHANGED <<indicatorChanged, delayTimeout, display>>

initialize(i) ==
    /\ pc[i] = "new"
    /\ indicatorState' = [indicatorState EXCEPT ![i] = InitialState]
    /\ Begin(i, "add")
    /\ UNCHANGED <<shown, minUpdatePeriodTimeout>>

draw(i) ==
    /\ pc[i] = "ready" /\ indicatorChanged[i]
    /\ Begin(i, operation[i])
    /\ UNCHANGED <<shown, indicatorState, minUpdatePeriodTimeout>>

ResumeSending(i) ==
    /\ pc[i] \in {"adding", "drawing"}
    /\ Resume(i)
    /\ Shows(i, waiting[i])
    /\ Returned(i, operation[i])
    /\ UNCHANGED <<shown, indicatorState, minUpdatePeriodTimeout, lost>>

(* Mutant: the change counts as drawn when the wait is over, not before. *)
WaitedThenCleared(i) ==
    /\ pc[i] \in {"settling", "resting"} /\ delayTimeout[i] = 0
    /\ pc' = [pc EXCEPT ![i] = "ready"]
    /\ indicatorChanged' = [indicatorChanged EXCEPT ![i] = @ /\ pc[i] = "settling"]
    /\ UNCHANGED <<transmitterVars, operation, shown, indicatorState, delayTimeout,
                   minUpdatePeriodTimeout, display, lost>>

(* delayTimeout.execute() returns true. *)
Waited(i) ==
    /\ pc[i] \in {"settling", "resting"} /\ delayTimeout[i] = 0
    /\ pc' = [pc EXCEPT ![i] = "ready"]
    /\ UNCHANGED <<transmitterVars, operation, shown, indicatorState, indicatorChanged,
                   delayTimeout, minUpdatePeriodTimeout, display, lost>>

(***************************************************************************)
(* A state that is set before initialize() is forgotten by it, one that is *)
(* set between the CRC and the write spoils the frame.                     *)
(***************************************************************************)
setIndicatorState(i, state) ==
    /\ minUpdatePeriodTimeout[i] = 0 /\ indicatorState[i] # state
    /\ indicatorState' = [indicatorState EXCEPT ![i] = state]
    /\ shown' = [shown EXCEPT ![i] = state]
    /\ indicatorChanged' = [indicatorChanged EXCEPT ![i] = TRUE]
    /\ minUpdatePeriodTimeout' = [minUpdatePeriodTimeout EXCEPT ![i] = MIN_UPDATE_PERIOD]
    /\ lost' = [lost EXCEPT ![i] = @ \/ pc[i] \in {"new", "adding", "drawing"}]
    /\ UNCHANGED <<transmitterVars, pc, operation, delayTimeout, display>>

Indicator(i) == initialize(i) \/ draw(i) \/ ResumeSending(i) \/ Waited(i)

OtherThread(t) ==
    /\ deleteGraphicLayer(t) \/ sendGraphic(t) \/ sendRobotToRobotMsg(t) \/ Resume(t)
    /\ UNCHANGED indicatorVars

Tick ==
    /\ TransmitterTick
    /\ delayTimeout' = [i \in Indicators |-> Max({0, delayTimeout[i] - 1})]
    /\ minUpdatePeriodTimeout' =
          [i \in Indicators |-> Max({0, minUpdatePeriodTimeout[i] - 1})]
    /\ UNCHANGED <<pc, operation, shown, indicatorState, indicatorChanged, display, lost>>

Next ==
    \/ \E i \in Indicators : Indicator(i) \/ \E state \in States : setIndicatorState(i, state)
    \/ \E t \in Transmitters \ Indicators : OtherThread(t)
    \/ IdentityKnown /\ UNCHANGED indicatorVars
    \/ Tick

Spec == Init /\ [][Next]_vars

-----------------------------------------------------------------------------
(***************************************************************************)
(* When draw() has nothing left to draw, the operator sees the state that  *)
(* the indicator has (state_hud_indicator.hpp:36-45), unless a message was *)
(* dropped or the state was set at one of the moments at which it is lost. *)
(***************************************************************************)
ShownIsCurrent ==
    \A i \in Indicators :
        pc[i] \in {"ready", "resting"} /\ ~indicatorChanged[i] /\ ~lost[i]
            => display[i] = indicatorState[i]

(***************************************************************************)
(* Threads that wait for the delay and the semaphore do not wait for each  *)
(* other for ever: one of them goes on.  Which one is not said: a thread   *)
(* that always sends again may keep the others waiting.  (The fairness is  *)
(* that of the module that runs this one.)                                 *)
(***************************************************************************)
NotAllWait ==
    (\A t \in Transmitters : waiting[t] # NoMessage)
        ~> (\E t \in Transmitters : waiting[t] = NoMessage)

-----------------------------------------------------------------------------
(* Proofs.                                                                 *)
(* What is left of the delay is what is missing of it since the last write. *)
Spacing ==
    /\ transmissionDelayTimer \in 0 .. Delay
    /\ sinceWrite = Delay - transmissionDelayTimer
    /\ MessagesSpaced

(* Every transmitter and every indicator has its place in every function. *)
Types ==
    /\ waiting = [t \in Transmitters |-> waiting[t]]
    /\ pc \in [Indicators -> {"new", "adding", "settling", "ready", "drawing", "resting"}]
    /\ operation = [i \in Indicators |-> operation[i]]
    /\ shown \in [Indicators -> States]
    /\ indicatorState \in [Indicators -> States]
    /\ indicatorChanged \in [Indicators -> BOOLEAN]
    /\ delayTimeout = [i \in Indicators |-> delayTimeout[i]]
    /\ minUpdatePeriodTimeout = [i \in Indicators |-> minUpdatePeriodTimeout[i]]
    /\ display = [i \in Indicators |-> display[i]]
    /\ lost \in [Indicators -> BOOLEAN]

(* What the transmitter of i holds is what draw() has begun to send. *)
Pending(i) ==
    IF pc[i] \in {"adding", "drawing"}
    THEN /\ waiting[i] # NoMessage
         /\ waiting[i].content.op = operation[i]
         /\ operation[i] = IF pc[i] = "adding" THEN "add" ELSE "modify"
         /\ ~lost[i] => waiting[i].content.state = shown[i]
    ELSE /\ waiting[i] = NoMessage
         /\ pc[i] # "new" => operation[i] = "modify"

(* What the operator sees of i, unless something was lost. *)
Seen(i) ==
    /\ shown[i] = indicatorState[i]
    /\ pc[i] = "new" => indicatorState[i] = InitialState /\ ~indicatorChanged[i]
    /\ pc[i] \in {"settling", "ready", "drawing", "resting"} => display[i] \in States
    /\ pc[i] \in {"settling", "ready", "resting"} /\ ~indicatorChanged[i]
           => display[i] = shown[i]
    /\ pc[i] = "adding" => ~indicatorChanged[i]

(* Inductive for ShownIsCurrent. *)
IInv ==
    /\ Types
    /\ \A i \in Indicators : Pending(i) /\ (~lost[i] => Seen(i))

(* A message that is one frame of its protocol and lies in its struct. *)
Whole(message) ==
    /\ message.size = FRAME_HEADER + CMD_ID + message.dataLength + CRC
    /\ message.size <= message.capacity

(* So is what waits and what was written last. *)
WholeFrames ==
    /\ waiting = [t \in Transmitters |-> waiting[t]]
    /\ \A t \in Transmitters : waiting[t] # NoMessage => Whole(waiting[t])
    /\ wire # NoMessage => Whole(wire)

-----------------------------------------------------------------------------
(* A timer counts down to zero. *)
LEMMA ClockDown ==
    ASSUME NEW x \in Int
    PROVE  Max({0, x}) = IF x > 0 THEN x ELSE 0
BY DEF Max

(* The history counts up to the delay. *)
LEMMA ClockUp ==
    ASSUME NEW d \in Nat, NEW x \in Int
    PROVE  Min({d, x}) = IF x < d THEN x ELSE d
BY DEF Min

(* Who writes has waited for the whole delay since the last write. *)
LEMMA WriteSpaced ==
    ASSUME Spacing, NEW message, acquireTransmissionSemaphore, Write(message), ScreenAssumption
    PROVE  Spacing'
BY DEF Spacing, acquireTransmissionSemaphore, Write, MessagesSpaced, ScreenAssumption

(* A first call and a later call of a sender keep the rate. *)
LEMMA SendSpaced ==
    ASSUME Spacing, ScreenAssumption, NEW t, NEW message,
           Send(t, message) \/ Resume(t) \/ Dropped
    PROVE  Spacing'
<1>1. CASE UNCHANGED <<transmissionDelayTimer, sinceWrite, gap>>
  BY <1>1 DEF Spacing, MessagesSpaced
<1>2. CASE \E m : Sent(t, m)
  BY <1>2, WriteSpaced DEF Sent
<1>3. QED
  BY <1>1, <1>2 DEF Send, Resume, Dropped, Waits, transmitterVars

(* No step of a thread, of the clock or of the program breaks the rate. *)
LEMMA SpacingNext == ASSUME ScreenAssumption, Spacing, [Next]_vars PROVE Spacing'
<1> USE SendSpaced
<1>1. ASSUME NEW i \in Indicators, Indicator(i)
      PROVE  Spacing'
  <2>1. CASE Waited(i)
    BY <2>1 DEF Waited, Spacing, MessagesSpaced, transmitterVars
  <2>2. QED
    BY <1>1, <2>1 DEF Indicator, initialize, draw, Begin, ResumeSending
<1>2. ASSUME NEW i \in Indicators, NEW state \in States, setIndicatorState(i, state)
      PROVE  Spacing'
  BY <1>2 DEF setIndicatorState, Spacing, MessagesSpaced, transmitterVars
<1>3. ASSUME NEW t \in Transmitters \ Indicators, OtherThread(t)
      PROVE  Spacing'
  BY <1>3 DEF OtherThread, deleteGraphicLayer, sendGraphic, sendRobotToRobotMsg
<1>4. CASE IdentityKnown
  BY <1>4 DEF IdentityKnown, Spacing, MessagesSpaced
<1>5. CASE Tick
  <2>1. /\ transmissionDelayTimer' = IF transmissionDelayTimer > 1
                                     THEN transmissionDelayTimer - 1 ELSE 0
        /\ sinceWrite' = IF sinceWrite + 1 < Delay THEN sinceWrite + 1 ELSE Delay
        /\ gap' = gap
    BY <1>5, ClockDown, ClockUp DEF Tick, TransmitterTick, Spacing, ScreenAssumption
  <2>2. QED
    BY <2>1 DEF Spacing, MessagesSpaced, ScreenAssumption
<1>6. CASE UNCHANGED vars
  BY <1>6 DEF vars, transmitterVars, Spacing, MessagesSpaced
<1>7. QED
  BY <1>1, <1>2, <1>3, <1>4, <1>5, <1>6 DEF Next

(***************************************************************************)
(* However many transmitters wait, whatever they send and whoever is       *)
(* resumed first, two messages are never closer than the delay: the        *)
(* semaphore and the one timer of RefSerial serve all of them              *)
(* (ref_serial_data.hpp:646-649).                                          *)
(***************************************************************************)
THEOREM RateKept == ASSUME ScreenAssumption PROVE Spec => []MessagesSpaced
<1>1. Init => Spacing
  BY DEF Init, TransmitterInit, Spacing, MessagesSpaced, ScreenAssumption
<1>2. Spacing /\ [Next]_vars => Spacing'
  BY SpacingNext
<1>3. Spacing => MessagesSpaced
  BY DEF Spacing
<1>4. QED
  BY <1>1, <1>2, <1>3, PTL DEF Spec

-----------------------------------------------------------------------------
(* The graphic is configured from the state that is shown now. *)
LEMMA ConfiguredMessage ==
    ASSUME NEW i, NEW op
    PROVE  /\ Configured(i, op).content = [op |-> op, state |-> shown[i]]
           /\ Configured(i, op) # NoMessage
BY DEF Configured, GraphicMessage, Frame, NoMessage

(* The threads share the transmitters' array, and each writes its own place. *)
LEMMA SendWaiting ==
    ASSUME waiting = [t \in Transmitters |-> waiting[t]], NEW i \in Transmitters, NEW message,
           Send(i, message)
    PROVE  /\ waiting[i] = NoMessage
           /\ waiting' = [waiting EXCEPT ![i] = waiting'[i]]
           /\ waiting'[i] \in {message, NoMessage}
BY DEF Send, Sent, Waits

(* What follows sendGraphic() keeps the types. *)
LEMMA ReturnedTypes ==
    ASSUME ScreenAssumption, Types, NEW i \in Indicators, NEW op, Returned(i, op)
    PROVE  /\ pc' \in [Indicators -> {"new", "adding", "settling", "ready", "drawing", "resting"}]
           /\ operation' = [j \in Indicators |-> operation'[j]]
           /\ indicatorChanged' \in [Indicators -> BOOLEAN]
           /\ delayTimeout' = [j \in Indicators |-> delayTimeout'[j]]
BY DEF Returned, Types

(* Of the other indicators nothing changes. *)
LEMMA OthersKeep ==
    ASSUME IInv, NEW j \in Indicators,
           UNCHANGED <<waiting[j], pc[j], operation[j], shown[j], indicatorState[j],
                       indicatorChanged[j], display[j], lost[j]>>
    PROVE  (Pending(j) /\ (~lost[j] => Seen(j)))'
BY DEF IInv, Pending, Seen

(* The first call of sendGraphic(). *)
LEMMA BeginInv ==
    ASSUME ScreenAssumption, IInv, NEW i \in Indicators, NEW op \in {"add", "modify"},
           Begin(i, op), UNCHANGED <<shown, minUpdatePeriodTimeout>>,
           pc[i] = IF op = "add" THEN "new" ELSE "ready",
           indicatorState' = IF op = "add" THEN [indicatorState EXCEPT ![i] = InitialState]
                             ELSE indicatorState
    PROVE  IInv'
<1> DEFINE message == Configured(i, op)
<1>1. /\ i \in Transmitters
      /\ message.content = [op |-> op, state |-> shown[i]] /\ message # NoMessage
      /\ shown[i] \in States /\ waiting[i] = NoMessage
  BY ConfiguredMessage DEF ScreenAssumption, IInv, Types, Pending
<1>2. CASE Dropped /\ Returned(i, op) /\ lost' = [lost EXCEPT ![i] = TRUE] /\ UNCHANGED display
  <2>1. Types'
    BY <1>2, ReturnedTypes DEF Dropped, transmitterVars, IInv, Types, ScreenAssumption
  <2>2. Pending(i)' /\ lost'[i]
    BY <1>1, <1>2 DEF Dropped, transmitterVars, Returned, Pending, IInv, Types
  <2>3. ASSUME NEW j \in Indicators, j # i
        PROVE  (Pending(j) /\ (~lost[j] => Seen(j)))'
    <3>1. UNCHANGED <<waiting[j], pc[j], operation[j], shown[j], indicatorState[j],
                      indicatorChanged[j], display[j], lost[j]>>
      BY <1>2, <2>3 DEF Dropped, transmitterVars, Returned, IInv, Types
    <3>2. QED
      BY <3>1, OthersKeep
  <2>4. QED
    BY <2>1, <2>2, <2>3 DEF IInv
<1>3. CASE /\ Send(i, message) /\ waiting'[i] = NoMessage
           /\ Returned(i, op) /\ Shows(i, message) /\ UNCHANGED lost
  <2>1. waiting' = [waiting EXCEPT ![i] = NoMessage]
    BY <1>1, <1>3, SendWaiting DEF IInv, Types
  <2>2. Types'
    BY <1>3, <2>1, ReturnedTypes DEF IInv, Types, ScreenAssumption, Shows
  <2>3. Pending(i)'
    BY <1>1, <1>3, <2>1 DEF Returned, Pending, IInv, Types
  <2>4. ASSUME ~lost[i]
        PROVE  Seen(i)'
    <3>1. Displayed(i, message) = shown[i]
      BY <1>1, <2>4 DEF Displayed, IInv, Seen, ScreenAssumption
    <3>2. QED
      BY <1>1, <1>3, <2>4, <3>1 DEF Returned, Shows, IInv, Types, Seen
  <2>5. ASSUME NEW j \in Indicators, j # i
        PROVE  (Pending(j) /\ (~lost[j] => Seen(j)))'
    <3>1. UNCHANGED <<waiting[j], pc[j], operation[j], shown[j], indicatorState[j],
                      indicatorChanged[j], display[j], lost[j]>>
      BY <1>3, <2>1, <2>5 DEF Returned, Shows, IInv, Types, ScreenAssumption
    <3>2. QED
      BY <3>1, OthersKeep
  <2>6. QED
    BY <1>3, <2>2, <2>3, <2>4, <2>5 DEF IInv
<1>4. CASE /\ Send(i, message) /\ waiting'[i] # NoMessage
           /\ pc' = [pc EXCEPT ![i] = IF op = "add" THEN "adding" ELSE "drawing"]
           /\ operation' = [operation EXCEPT ![i] = op]
           /\ UNCHANGED <<indicatorChanged, delayTimeout, display, lost>>
  <2>1. waiting' = [waiting EXCEPT ![i] = message]
    BY <1>1, <1>4, SendWaiting DEF IInv, Types
  <2>2. Types'
    BY <1>4, <2>1 DEF IInv, Types, ScreenAssumption
  <2>3. Pending(i)'
    BY <1>1, <1>4, <2>1 DEF Pending, IInv, Types
  <2>4. ASSUME ~lost[i]
        PROVE  Seen(i)'
    BY <1>1, <1>4, <2>4 DEF IInv, Types, Seen
  <2>5. ASSUME NEW j \in Indicators, j # i
        PROVE  (Pending(j) /\ (~lost[j] => Seen(j)))'
    <3>1. UNCHANGED <<waiting[j], pc[j], operation[j], shown[j], indicatorState[j],
                      indicatorChanged[j], display[j], lost[j]>>
      BY <1>4, <2>1, <2>5 DEF IInv, Types, ScreenAssumption
    <3>2. QED
      BY <3>1, OthersKeep
  <2>6. QED
    BY <1>4, <2>2, <2>3, <2>4, <2>5 DEF IInv
<1>5. QED
  BY <1>2, <1>3, <1>4 DEF Begin

(* The later call, in which sendGraphic() writes. *)
LEMMA ResumeInv ==
    ASSUME ScreenAssumption, IInv, NEW i \in Indicators, ResumeSending(i)
    PROVE  IInv'
<1> DEFINE message == waiting[i]
<1>1. /\ pc[i] \in {"adding", "drawing"}
      /\ i \in Transmitters
      /\ waiting' = [waiting EXCEPT ![i] = NoMessage]
      /\ Returned(i, operation[i]) /\ Shows(i, message)
      /\ UNCHANGED <<shown, indicatorState, minUpdatePeriodTimeout, lost>>
  BY DEF ResumeSending, Resume, Sent, ScreenAssumption
<1>2. Types'
  BY <1>1, ReturnedTypes DEF IInv, Types, ScreenAssumption, Shows
<1>3. /\ message.content.op = operation[i]
      /\ operation[i] = IF pc[i] = "adding" THEN "add" ELSE "modify"
      /\ ~lost[i] => message.content.state = shown[i]
  BY <1>1 DEF IInv, Pending
<1>4. Pending(i)'
  BY <1>1 DEF Returned, Pending, IInv, Types, ScreenAssumption
<1>5. ASSUME ~lost[i]
      PROVE  Seen(i)'
  <2>1. Displayed(i, message) = shown[i] /\ shown[i] \in States
    BY <1>1, <1>3, <1>5 DEF Displayed, IInv, Types, Seen, ScreenAssumption
  <2>2. QED
    BY <1>1, <1>3, <1>5, <2>1 DEF Returned, Shows, IInv, Types, Seen
<1>6. ASSUME NEW j \in Indicators, j # i
      PROVE  (Pending(j) /\ (~lost[j] => Seen(j)))'
  <2>1. UNCHANGED <<waiting[j], pc[j], operation[j], shown[j], indicatorState[j],
                    indicatorChanged[j], display[j], lost[j]>>
    BY <1>1, <1>6 DEF Returned, Shows, IInv, Types, ScreenAssumption
  <2>2. QED
    BY <2>1, OthersKeep
<1>7. QED
  BY <1>1, <1>2, <1>4, <1>5, <1>6 DEF IInv

(* setIndicatorState(), in whatever state the indicator's thread is. *)
LEMMA SetStateInv ==
    ASSUME ScreenAssumption, IInv, NEW i \in Indicators, NEW state \in States,
           setIndicatorState(i, state)
    PROVE  IInv'
<1>1. Types'
  BY DEF setIndicatorState, transmitterVars, IInv, Types
<1>2. Pending(i)'
  BY DEF setIndicatorState, transmitterVars, IInv, Types, Pending
<1>3. ASSUME ~lost'[i]
      PROVE  Seen(i)'
  BY <1>3 DEF setIndicatorState, IInv, Types, Seen
<1>4. ASSUME NEW j \in Indicators, j # i
      PROVE  (Pending(j) /\ (~lost[j] => Seen(j)))'
  <2>1. UNCHANGED <<waiting[j], pc[j], operation[j], shown[j], indicatorState[j],
                    indicatorChanged[j], display[j], lost[j]>>
    BY <1>4 DEF setIndicatorState, transmitterVars, IInv, Types
  <2>2. QED
    BY <2>1, OthersKeep
<1>5. QED
  BY <1>1, <1>2, <1>3, <1>4 DEF IInv

(* Steps that leave the indicators and their messages alone, but for timers. *)
LEMMA ElsewhereInv ==
    ASSUME IInv, waiting' = [t \in Transmitters |-> waiting'[t]],
           \A i \in Indicators : waiting'[i] = waiting[i],
           delayTimeout' = [i \in Indicators |-> delayTimeout'[i]],
           minUpdatePeriodTimeout' = [i \in Indicators |-> minUpdatePeriodTimeout'[i]],
           UNCHANGED <<pc, operation, shown, indicatorState, indicatorChanged, display, lost>>
    PROVE  IInv'
<1>1. Types'
  BY DEF IInv, Types
<1>2. ASSUME NEW j \in Indicators
      PROVE  (Pending(j) /\ (~lost[j] => Seen(j)))'
  BY OthersKeep
<1>3. QED
  BY <1>1, <1>2 DEF IInv

(* Every step keeps what the transmitters hold and what the operator sees. *)
LEMMA IInvNext == ASSUME ScreenAssumption, IInv, [Next]_vars PROVE IInv'
<1>1. ASSUME NEW i \in Indicators, Indicator(i)
      PROVE  IInv'
  <2>1. CASE initialize(i)
    BY <2>1, BeginInv DEF initialize
  <2>2. CASE draw(i)
    <3>1. operation[i] = "modify"
      BY <2>2 DEF draw, IInv, Pending
    <3>2. QED
      BY <2>2, <3>1, BeginInv DEF draw
  <2>3. CASE ResumeSending(i)
    BY <2>3, ResumeInv
  <2>4. CASE Waited(i)
    <3>1. Types'
      BY <2>4 DEF Waited, transmitterVars, IInv, Types
    <3>2. Pending(i)' /\ (~lost[i] => Seen(i))'
      BY <2>4 DEF Waited, transmitterVars, IInv, Types, Pending, Seen
    <3>3. ASSUME NEW j \in Indicators, j # i
          PROVE  (Pending(j) /\ (~lost[j] => Seen(j)))'
      <4>1. UNCHANGED <<waiting[j], pc[j], operation[j], shown[j], indicatorState[j],
                        indicatorChanged[j], display[j], lost[j]>>
        BY <2>4, <3>3 DEF Waited, transmitterVars, IInv, Types
      <4>2. QED
        BY <4>1, OthersKeep
    <3>4. QED
      BY <3>1, <3>2, <3>3 DEF IInv
  <2>5. QED
    BY <1>1, <2>1, <2>2, <2>3, <2>4 DEF Indicator
<1>2. ASSUME NEW i \in Indicators, NEW state \in States, setIndicatorState(i, state)
      PROVE  IInv'
  BY <1>2, SetStateInv
<1>3. ASSUME NEW t \in Transmitters \ Indicators, OtherThread(t)
      PROVE  IInv'
  <2>1. waiting' = [waiting EXCEPT ![t] = waiting'[t]]
    BY <1>3 DEF OtherThread, deleteGraphicLayer, sendGraphic, sendRobotToRobotMsg, Send, Resume,
                Sent, Waits, IInv, Types
  <2>2. /\ waiting' = [u \in Transmitters |-> waiting'[u]]
        /\ \A i \in Indicators : waiting'[i] = waiting[i]
    BY <1>3, <2>1 DEF IInv, Types, ScreenAssumption
  <2>3. /\ delayTimeout' = [i \in Indicators |-> delayTimeout'[i]]
        /\ minUpdatePeriodTimeout' = [i \in Indicators |-> minUpdatePeriodTimeout'[i]]
        /\ UNCHANGED <<pc, operation, shown, indicatorState, indicatorChanged, display, lost>>
    BY <1>3 DEF OtherThread, indicatorVars, IInv, Types
  <2>4. QED
    BY <2>2, <2>3, ElsewhereInv
<1>4. CASE IdentityKnown /\ UNCHANGED indicatorVars
  BY <1>4, ElsewhereInv DEF IdentityKnown, indicatorVars, IInv, Types
<1>5. CASE Tick
  BY <1>5, ElsewhereInv DEF Tick, TransmitterTick, IInv, Types
<1>6. CASE UNCHANGED vars
  BY <1>6, ElsewhereInv DEF vars, transmitterVars, indicatorVars, IInv, Types
<1>7. QED
  BY <1>1, <1>2, <1>3, <1>4, <1>5, <1>6 DEF Next

(***************************************************************************)
(* An indicator with nothing left to draw shows the operator its state,    *)
(* for any indicators, states, senders and delays, unless a message was    *)
(* dropped or a state was set between the CRC and the write or before      *)
(* initialize() (state_hud_indicator.hpp:36-45).  Inductive is what lies   *)
(* between: what a waiting transmitter holds is what draw() began to send, *)
(* and a change that is not drawn yet is still marked.                     *)
(***************************************************************************)
THEOREM StateShown == ASSUME ScreenAssumption PROVE Spec => []ShownIsCurrent
<1>1. Init => IInv
  BY DEF Init, TransmitterInit, IInv, Types, Pending, Seen, ScreenAssumption
<1>2. IInv /\ [Next]_vars => IInv'
  BY IInvNext
<1>3. IInv => ShownIsCurrent
  BY DEF IInv, Seen, ShownIsCurrent
<1>4. QED
  BY <1>1, <1>2, <1>3, PTL DEF Spec

-----------------------------------------------------------------------------
(* Every message that is configured has the length its receiver counts. *)
LEMMA ConfiguredWhole ==
    /\ Whole(DeleteGraphicLayerMessage)
    /\ \A content : \A n \in Nat : Whole(GraphicMessage(n, content))
    /\ Whole(GraphicCharacterMessage)
    /\ \A msgId : \A msgLen \in Nat : MsgLenAccepted(msgId, msgLen) =>
           Whole(RobotToRobotMessage(msgLen))
BY DEF Whole, DeleteGraphicLayerMessage, GraphicMessage, GraphicCharacterMessage,
       RobotToRobotMessage, MsgLenAccepted, Frame, FRAME_HEADER, CMD_ID, INTERACTIVE_HEADER,
       GRAPHIC_DATA, CRC, CHARACTERS, DATA_AND_CRC, MAX_MSG_LEN

(* Waiting and writing leave a message as it is. *)
LEMMA SentWhole ==
    ASSUME WholeFrames, NEW t \in Transmitters, NEW message, Whole(message),
           Sent(t, message) \/ Waits(t, message)
    PROVE  WholeFrames'
BY DEF WholeFrames, Whole, Sent, Waits, Write

(* Every step keeps the frames whole. *)
LEMMA WholeNext == ASSUME ScreenAssumption, WholeFrames, [Next]_vars PROVE WholeFrames'
<1>1. ASSUME NEW t \in Transmitters, NEW message, Whole(message), Send(t, message)
      PROVE  WholeFrames'
  BY <1>1, SentWhole DEF Send
<1>2. ASSUME NEW t \in Transmitters, Resume(t)
      PROVE  WholeFrames'
  BY <1>2, SentWhole DEF Resume, WholeFrames
<1>3. ASSUME UNCHANGED <<waiting, wire>>
      PROVE  WholeFrames'
  BY <1>3 DEF WholeFrames, Whole
<1>4. ASSUME NEW i \in Indicators, Indicator(i)
      PROVE  WholeFrames'
  <2>1. \A op : Whole(Configured(i, op))
    BY ConfiguredWhole DEF Configured
  <2>2. i \in Transmitters
    BY DEF ScreenAssumption
  <2>3. QED
    BY <1>1, <1>2, <1>3, <1>4, <2>1, <2>2
       DEF Indicator, initialize, draw, Begin, ResumeSending, Waited, Dropped, transmitterVars
<1>5. ASSUME NEW t \in Transmitters \ Indicators, OtherThread(t)
      PROVE  WholeFrames'
  <2>1. ASSUME NEW msgId \in MsgIds, NEW msgLen \in MsgLens, MsgLenAccepted(msgId, msgLen)
        PROVE  Whole(RobotToRobotMessage(msgLen))
    BY <2>1, ConfiguredWhole DEF ScreenAssumption
  <2>2. QED
    BY <1>1, <1>2, <1>5, <2>1, ConfiguredWhole
       DEF OtherThread, deleteGraphicLayer, sendGraphic, sendRobotToRobotMsg
<1>6. QED
  BY <1>3, <1>4, <1>5
     DEF Next, setIndicatorState, IdentityKnown, Tick, TransmitterTick, vars, transmitterVars

(***************************************************************************)
(* Every message that is written, of whatever kind and length, is one      *)
(* frame as the referee system counts it, and no more than the struct      *)
(* holds (ref_serial_transmitter.cpp).                                     *)
(***************************************************************************)
THEOREM FramesWhole == ASSUME ScreenAssumption PROVE Spec => []WritesWholeFrames
<1>1. Init => WholeFrames
  BY DEF Init, TransmitterInit, WholeFrames
<1>2. WholeFrames /\ [Next]_vars => WholeFrames'
  BY WholeNext
<1>3. WholeFrames => WritesWholeFrames
  BY DEF WholeFrames, Whole, WritesWholeFrames
<1>4. QED
  BY <1>1, <1>2, <1>3, PTL DEF Spec
=============================================================================
