------------------------- MODULE RefSerialMessages -------------------------
(***************************************************************************)
(* tap::communication::serial::RefSerial: what becomes of the messages of  *)
(* the referee system that DjiSerial receives.  A decoder is a table: the  *)
(* length it accepts and the bits of the data that each field is read      *)
(* from.  The value of a field is the set of messages its bytes came from: *)
(* the buffer is not cleared, bytes behind a message are older ones.       *)
(***************************************************************************)
EXTENDS Integers, Sequences

CONSTANTS
    OtherLengths,  \* lengths that a type may have besides its own
    MsgIds,        \* of messages between robots
    Handlers,
    MaxMessages    \* bound

VARIABLES
    buffer,    \* for each byte of the data, the message that wrote it, 0 behind the last
    count,     \* of messages received
    fields,    \* of robotData and gameData
    msgIdToRobotToRobotHandlerMap,
    called,    \* history: the last message given to each handler
    latest,    \* history: the last accepted message of each type
    heard      \* history: the last message of each identifier for which there was a handler

vars == <<buffer, count, fields, msgIdToRobotToRobotHandlerMap, called, latest,
          heard>>

OtherLengthsAssumption == OtherLengths \subseteq Nat

(* A field, the first bit it is read from and how many there are. *)
Bits(name, first, width) == [name |-> name, first |-> first, width |-> width]
Byte(name, k) == Bits(name, 8 * k, 8)
Half(name, k) == Bits(name, 8 * k, 16)
Word(name, k) == Bits(name, 8 * k, 32)

Decoder(dataLength, reads) == [dataLength |-> dataLength, reads |-> reads]

decodeToGameStatus ==
    Decoder(11, {Bits("gameType", 0, 4), Bits("gameStage", 4, 4), Half("stageTimeRemaining", 1),
                 Bits("unixTime", 24, 64)})

decodeToGameResult == Decoder(1, {Byte("gameWinner", 0)})

decodeToAllRobotHP ==
    Decoder(32,
        {Half("red.hero1", 0), Half("red.engineer2", 2), Half("red.standard3", 4),
         Half("red.standard4", 6), Half("red.sentry7", 10), Half("red.outpost", 12),
         Half("red.base", 14), Half("blue.hero1", 16), Half("blue.engineer2", 18),
         Half("blue.standard3", 20), Half("blue.standard4", 22), Half("blue.sentry7", 26),
         Half("blue.outpost", 28), Half("blue.base", 30)})

decodeToSiteEventData ==
    Decoder(4, {Word("siteData", 0), Bits("timeSinceLastDartHit", 9, 8),
                Bits("eventData.lastDartHit", 18, 3)})

decodeToWarningData ==
    Decoder(3, {Byte("warning.level", 0), Byte("warning.foulRobotID", 1), Byte("warning.count", 2)})

decodeToDartInfo ==
    Decoder(3, {Byte("launchCountdown", 0), Bits("dartInfo.lastHit", 8, 2),
                Bits("dartInfo.hits", 10, 3), Bits("selectedTarget", 13, 2)})

decodeToRobotStatus ==
    Decoder(13, {Byte("robotId", 0), Byte("robotLevel", 1), Half("currentHp", 2), Half("maxHp", 4),
                 Half("coolingRate", 6), Half("heatLimit", 8), Half("powerConsumptionLimit", 10),
                 Bits("robotPower", 96, 3)})

(* Mutant: the older layout, which began two bytes later. *)
decodeToPowerAndHeatOlder ==
    Decoder(16, {Half("powerBuffer", 10), Half("heat17ID1", 12), Half("heat17ID2", 14),
                 Half("heat42", 16)})

decodeToPowerAndHeat ==
    Decoder(16, {Half("powerBuffer", 8), Half("heat17ID1", 10), Half("heat17ID2", 12),
                 Half("heat42", 14)})

decodeToRobotPosition ==
    Decoder(12, {Word("position.x", 0), Word("position.y", 4), Word("yaw", 8)})

decodeToRobotBuffs ==
    Decoder(7, {Byte("recoveryBuff", 0), Byte("coolingBuff", 1), Byte("defenseBuff", 2),
                Byte("vulnerabilityBuff", 3), Half("attackBuff", 4),
                Byte("robotEnergyRemaining", 6)})

(* Mutant: shifted too little. *)
decodeToDamageStatusShifted ==
    Decoder(1, {Bits("damagedArmorId", 0, 4), Bits("damageType", 3, 4)})

decodeToDamageStatus == Decoder(1, {Bits("damagedArmorId", 0, 4), Bits("damageType", 4, 4)})

decodeToProjectileLaunch ==
    Decoder(7, {Byte("bulletType", 0), Byte("launchMechanismID", 1), Byte("firingFreq", 2),
                Word("bulletSpeed", 3)})

decodeToBulletsRemain ==
    Decoder(6, {Half("bulletsRemaining17", 0), Half("bulletsRemaining42", 2),
                Half("remainingCoins", 4)})

decodeToRFIDStatus == Decoder(4, {Word("rfidStatus", 0)})

decodeToDartStation ==
    Decoder(6, {Bits("dartStation.state", 0, 2), Half("targetChangedTime", 2),
                Half("lastLaunchedTime", 4)})

decodeToGroundPositions ==
    Decoder(40, {Word("hero.x", 0), Word("hero.y", 4), Word("engineer.x", 8), Word("engineer.y", 12),
                 Word("standard3.x", 16), Word("standard3.y", 20), Word("standard4.x", 24),
                 Word("standard4.y", 28)})

(* The last field is read from a seventh byte, which the data do not have. *)
decodeToRadarProgress ==
    Decoder(6, {Byte("progress.hero", 1), Byte("progress.engineer", 2), Byte("progress.standard3", 3),
                Byte("progress.standard4", 4), Byte("progress.sentry", 6)})

(* The last two fields have a bit in common. *)
decodeToSentryInfo ==
    Decoder(4, {Bits("projectileAllowance", 0, 10), Bits("remoteProjectileExchanges", 11, 4),
                Bits("remoteHealthExchanges", 14, 4)})

decodeToRadarInfo ==
    Decoder(1, {Bits("availableEffects", 0, 2), Bits("activeEffect", 2, 1)})

CUSTOM_DATA == 769  \* 0x301

Types == {1, 2, 3, 257, 260, 261, 513, 514, 515, 516, 518, 519, 520, 521, 522, 523, 524, 525, 526}

(* What messageReceiveCallback() calls for a message of each type. *)
Decoders ==
    [type \in Types |->
        CASE type = 1 -> decodeToGameStatus [] type = 2 -> decodeToGameResult
          [] type = 3 -> decodeToAllRobotHP [] type = 257 -> decodeToSiteEventData
          [] type = 260 -> decodeToWarningData [] type = 261 -> decodeToDartInfo
          [] type = 513 -> decodeToRobotStatus [] type = 514 -> decodeToPowerAndHeat
          [] type = 515 -> decodeToRobotPosition [] type = 516 -> decodeToRobotBuffs
          [] type = 518 -> decodeToDamageStatus [] type = 519 -> decodeToProjectileLaunch
          [] type = 520 -> decodeToBulletsRemain [] type = 521 -> decodeToRFIDStatus
          [] type = 522 -> decodeToDartStation [] type = 523 -> decodeToGroundPositions
          [] type = 524 -> decodeToRadarProgress [] type = 525 -> decodeToSentryInfo
          [] OTHER -> decodeToRadarInfo]

Written(type) == {r.name : r \in Decoders[type].reads}

INTERACTIVE_HEADER == 6
Init ==
    /\ buffer = <<>>
    /\ count = 0
    /\ fields = [f \in UNION {Written(type) : type \in Types} |-> {}]
    /\ msgIdToRobotToRobotHandlerMap = [id \in {} |-> 0]
    /\ called = [h \in Handlers |-> 0]
    /\ latest = [type \in Types |-> 0]
    /\ heard = [id \in MsgIds |-> 0]

(* External: DjiSerial copies a whole message into the buffer. *)
Arrives(dataLength) ==
    /\ count < MaxMessages
    /\ count' = count + 1
    /\ buffer' = [b \in 1 .. IF dataLength < Len(buffer) THEN Len(buffer) ELSE dataLength |->
                     IF b <= dataLength THEN count' ELSE buffer[b]]

(* Mutant: a message that is long enough will do. *)
AcceptedLonger(type, dataLength) == dataLength >= Decoders[type].dataLength - 1

Accepted(type, dataLength) == dataLength = Decoders[type].dataLength

Writer(b) == IF b < Len(buffer') THEN buffer'[b + 1] ELSE 0
BytesOf(r) == r.first \div 8 .. (r.first + r.width - 1) \div 8
Read(r) == {Writer(b) : b \in BytesOf(r)}

Decoded(reads) ==
    [f \in DOMAIN fields |-> IF \E r \in reads : r.name = f
                             THEN Read(CHOOSE r \in reads : r.name = f) ELSE fields[f]]

messageReceiveCallback(type, dataLength) ==
    /\ Arrives(dataLength)
    /\ fields' = IF Accepted(type, dataLength) THEN Decoded(Decoders[type].reads) ELSE fields
    /\ latest' = IF dataLength = Decoders[type].dataLength
                 THEN [latest EXCEPT ![type] = count'] ELSE latest
    /\ UNCHANGED <<msgIdToRobotToRobotHandlerMap, called, heard>>

(* The identifier is read from the data, which may be too short for it. *)
Handled(msgId, dataLength) ==
    dataLength >= INTERACTIVE_HEADER /\ msgId \in DOMAIN msgIdToRobotToRobotHandlerMap

handleRobotToRobotCommunication(msgId, dataLength) ==
    /\ Arrives(dataLength)
    /\ called' = IF Handled(msgId, dataLength)
                 THEN [called EXCEPT ![msgIdToRobotToRobotHandlerMap[msgId]] = count']
                 ELSE called
    /\ heard' = IF Handled(msgId, dataLength) THEN [heard EXCEPT ![msgId] = count'] ELSE heard
    /\ UNCHANGED <<fields, msgIdToRobotToRobotHandlerMap, latest>>

(* Mutant: a second handler replaces the first. *)
AttachableAgain(msgId) == msgId \in 512 .. 767

Attachable(msgId) ==
    msgId \in 512 .. 767 /\ msgId \notin DOMAIN msgIdToRobotToRobotHandlerMap

attachRobotToRobotMessageHandler(msgId, handler) ==
    /\ msgIdToRobotToRobotHandlerMap' =
          IF Attachable(msgId)
          THEN [id \in DOMAIN msgIdToRobotToRobotHandlerMap \union {msgId} |->
                   IF id = msgId THEN handler ELSE msgIdToRobotToRobotHandlerMap[id]]
          ELSE msgIdToRobotToRobotHandlerMap
    /\ UNCHANGED <<buffer, count, fields, called, latest, heard>>

Next ==
    \/ \E type \in Types : \E n \in OtherLengths \union {Decoders[type].dataLength} :
          messageReceiveCallback(type, n)
    \/ \E msgId \in MsgIds, n \in OtherLengths : handleRobotToRobotCommunication(msgId, n)
    \/ \E msgId \in MsgIds, h \in Handlers : attachRobotToRobotMessageHandler(msgId, h)

Spec == Init /\ [][Next]_vars

-----------------------------------------------------------------------------
(* What the fields are for: the structures they belong to... *)
RobotHpData ==
    {"red.hero1", "red.engineer2", "red.standard3", "red.standard4", "red.sentry7",
     "red.outpost", "red.base", "blue.hero1", "blue.engineer2", "blue.standard3",
     "blue.standard4", "blue.sentry7", "blue.outpost", "blue.base"}
EventData == {"siteData", "timeSinceLastDartHit", "eventData.lastDartHit"}
SupplierAction == {"supplier.reloadingRobot", "supplier.outletStatus", "supplier.suppliedProjectiles"}
ChassisData == {"powerBuffer", "position.x", "position.y", "powerConsumptionLimit"}
TurretData ==
    {"bulletType", "launchMechanismID", "firingFreq", "heat17ID1", "heat17ID2", "heat42",
     "heatLimit", "coolingRate", "bulletsRemaining17", "bulletsRemaining42", "bulletSpeed", "yaw"}
RobotBuffStatus ==
    {"recoveryBuff", "coolingBuff", "defenseBuff", "vulnerabilityBuff", "attackBuff"}
RefereeWarningData == {"warning.level", "warning.foulRobotID", "warning.count"}
DartInfo == {"launchCountdown", "dartInfo.lastHit", "dartInfo.hits", "selectedTarget"}
AirSupportData == {"airSupport.state", "airSupport.remainingStateTime"}
DartStationInfo == {"dartStation.state", "targetChangedTime", "lastLaunchedTime"}
GroundRobotPositions ==
    {"hero.x", "hero.y", "engineer.x", "engineer.y", "standard3.x", "standard3.y",
     "standard4.x", "standard4.y"}
RadarMarkProgress ==
    {"progress.hero", "progress.engineer", "progress.standard3", "progress.standard4",
     "progress.sentry"}
SentryInfo == {"projectileAllowance", "remoteProjectileExchanges", "remoteHealthExchanges"}
RadarInfo == {"availableEffects", "activeEffect"}

GameData ==
    {"gameType", "gameStage", "stageTimeRemaining", "unixTime", "gameWinner"}
        \union EventData \union SupplierAction \union DartInfo \union AirSupportData
        \union DartStationInfo \union GroundRobotPositions \union RadarMarkProgress
        \union SentryInfo \union RadarInfo

(* Without the damage, which RefSerial models, and the times of receipt. *)
RobotData ==
    {"robotId", "robotLevel", "currentHp", "maxHp", "robotPower", "damagedArmorId", "damageType",
     "remainingCoins", "rfidStatus", "robotEnergyRemaining"}
        \union ChassisData \union TurretData \union RobotHpData \union RobotBuffStatus
        \union RefereeWarningData

(* ... and the values of those that are enumerations, or the bits of those
   that are sets of flags. *)
RobotId == {0} \union 1 .. 9 \union 101 .. 109
GameType == 0 .. 5
GameStage == 0 .. 5
GameWinner == 0 .. 2
SiteDartHit == 0 .. 4
DartTarget == 0 .. 2
ArmorId == 0 .. 4
DamageType == 0 .. 5
RobotEnergyLevel == {50, 30, 28, 24, 16, 0}
BulletType == 1 .. 2
MechanismID == 1 .. 3
DartStationState == 0 .. 2
SiteData == 0 .. 7 \union 21 .. 22
RobotPower == 0 .. 2
RFIDActivationStatus == 0 .. 23

Enumerators(f) ==
    CASE f \in {"robotId", "warning.foulRobotID"} -> RobotId
      [] f = "gameType" -> GameType [] f = "gameStage" -> GameStage
      [] f = "gameWinner" -> GameWinner [] f = "eventData.lastDartHit" -> SiteDartHit
      [] f = "selectedTarget" -> DartTarget [] f = "damagedArmorId" -> ArmorId
      [] f = "damageType" -> DamageType [] f = "robotEnergyRemaining" -> RobotEnergyLevel
      [] f = "bulletType" -> BulletType [] f = "launchMechanismID" -> MechanismID
      [] f = "dartStation.state" -> DartStationState [] OTHER -> {}
Flags == [siteData |-> SiteData, robotPower |-> RobotPower, rfidStatus |-> RFIDActivationStatus]

(* The bits of the data that say something about a field. *)
Meaningful(r) ==
    IF r.name \in DOMAIN Flags THEN {r.first + bit : bit \in Flags[r.name]}
    ELSE r.first .. r.first + r.width - 1

(***************************************************************************)
(* The table of decoders serves the structures: every field but those of   *)
(* the supplier and the air support, whose decoders nothing calls, is in   *)
(* one message, two fields of a message are told by different bits, and    *)
(* there are as many as a field's values need.  Not so are the two fields  *)
(* of the sentry that share a bit, and the two bits of dartInfo.lastHit,   *)
(* whose enumeration has five values.                                      *)
(***************************************************************************)
DecodersServe ==
    /\ \A f \in (GameData \union RobotData) \ (SupplierAction \union AirSupportData) :
          \E type \in Types : {other \in Types : f \in Written(other)} = {type}
    /\ \A type \in Types : \A r, other \in Decoders[type].reads :
          r # other /\ "remoteProjectileExchanges" \notin {r.name, other.name}
              => Meaningful(r) \intersect Meaningful(other) = {}
    /\ \A type \in Types : \A r \in Decoders[type].reads :
          \A n \in Enumerators(r.name) : n < 2^r.width

(***************************************************************************)
(* getGameData() and getRobotData() return "the most up to date" data      *)
(* (ref_serial.hpp:127-135): each field has what the last accepted message *)
(* of its type said, none is written by another type or from bytes that    *)
(* the message did not have.  The field that decodeToRadarProgress() reads *)
(* too far is left out.                                                    *)
(***************************************************************************)
FieldsUpToDate ==
    \A type \in Types : latest[type] # 0 =>
        \A r \in Decoders[type].reads :
            r.name # "progress.sentry" => fields[r.name] = {latest[type]}

(* Likewise a handler has the last message of its identifiers. *)
HandlersUpToDate ==
    \A h \in Handlers :
        LET mine == {id \in DOMAIN msgIdToRobotToRobotHandlerMap :
                        msgIdToRobotToRobotHandlerMap[id] = h} IN
        /\ \A id \in mine : heard[id] <= called[h]
        /\ called[h] = 0 \/ \E id \in mine : called[h] = heard[id]
=============================================================================
