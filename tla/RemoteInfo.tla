----------------------------- MODULE RemoteInfo -----------------------------
(***************************************************************************)
(* tap::communication::serial::Remote: what parseBuffer() makes of the     *)
(* bytes of a whole frame, what reset() leaves of it, and what the command *)
(* mapper is told.  RemoteReceiver says when the two are called.           *)
(* getChannel() divides by ANALOG_MAX_VALUE; here a channel is the value   *)
(* that is divided.                                                        *)
(***************************************************************************)
EXTENDS Integers, Sequences

CONSTANTS
    Driven,     \* external: what the driver may do, as the transmitter sends it:
                \*   four sticks and a wheel of 11 bits, two switches, a mouse,
                \*   and the set of the keys that are held
    MaxParsed   \* bound: frames of a behaviour

ElevenBits == 0 .. 2047

(* The value of a variable of type int16_t. *)
Int16(n) == ((n + 32768) % 65536) - 32768

IsDriven(d) ==
    /\ DOMAIN d = {"rightHorizontal", "rightVertical", "leftHorizontal", "leftVertical",
                   "leftSwitch", "rightSwitch", "wheel", "keys", "mouse"}
    /\ {d.rightHorizontal, d.rightVertical, d.leftHorizontal, d.leftVertical, d.wheel}
           \subseteq ElevenBits
    /\ {d.leftSwitch, d.rightSwitch} \subseteq 0 .. 3
    /\ d.keys \subseteq 0 .. 15
    /\ d.mouse = [x |-> d.mouse.x, y |-> d.mouse.y, z |-> d.mouse.z,
                  l |-> d.mouse.l, r |-> d.mouse.r]
    /\ \A w \in {d.mouse.x, d.mouse.y, d.mouse.z} : w \in Int /\ Int16(w) = w
    /\ {d.mouse.l, d.mouse.r} \subseteq BOOLEAN

DrivenAssumption == \A d \in Driven : IsDriven(d)

UNKNOWN == 0    \* of SwitchState, whose others are 1, 2 and 3
ANALOG_MAX_VALUE == 660

VARIABLES
    remote,       \* RemoteInfo
    told,         \* the arguments of the last handleKeyStateChange()
    invalid,      \* the last frame raised "invalid remote joystick values"
    driver        \* history: the member of Driven that the last frame was made
                  \*   of, or <<>> after reset()

infoVars == <<remote, told, invalid, driver>>

Channels == {"rightHorizontal", "rightVertical", "leftHorizontal", "leftVertical"}

Nothing ==
    [updateCounter |-> 0,
     rightHorizontal |-> 0, rightVertical |-> 0, leftHorizontal |-> 0, leftVertical |-> 0,
     leftSwitch |-> UNKNOWN, rightSwitch |-> UNKNOWN,
     mouse |-> [x |-> 0, y |-> 0, z |-> 0, l |-> FALSE, r |-> FALSE],
     key |-> 0, wheel |-> 0]

Init ==
    /\ remote = Nothing
    /\ told = <<>>
    /\ invalid = FALSE
    /\ driver = <<>>

-----------------------------------------------------------------------------
(* External: the bytes of a frame.  Its first 48 bits, lowest first, are the
   four channels of 11 bits, the right and the left switch. *)
PowerOf2 == <<1, 2, 4, 8, 16, 32, 64, 128, 256, 512, 1024, 2048, 4096, 8192, 16384, 32768>>

Bit(n, k) == (n \div PowerOf2[k + 1]) % 2

FirstBits(d) ==
    LET channels == <<d.rightHorizontal, d.rightVertical, d.leftHorizontal, d.leftVertical>> IN
    [k \in 0 .. 47 |->
        IF k < 44 THEN Bit(channels[1 + k \div 11], k % 11)
        ELSE IF k < 46 THEN Bit(d.rightSwitch, k - 44) ELSE Bit(d.leftSwitch, k - 46)]

(* The byte that has the bits S, and those of a number of two bytes. *)
Byte(S) ==
    LET of(k) == IF k \in S THEN PowerOf2[k + 1] ELSE 0 IN
    of(0) + of(1) + of(2) + of(3) + of(4) + of(5) + of(6) + of(7)

LowByte(n) == n % 256
HighByte(n) == (n % 65536) \div 256

FrameOf(d) ==
    LET bits == FirstBits(d)
        StickByte(j) == Byte({i \in 0 .. 7 : bits[8 * j + i] = 1})
        Button(pressed) == IF pressed THEN 1 ELSE 0 IN
    <<StickByte(0), StickByte(1), StickByte(2), StickByte(3), StickByte(4), StickByte(5),
      LowByte(d.mouse.x), HighByte(d.mouse.x), LowByte(d.mouse.y), HighByte(d.mouse.y),
      LowByte(d.mouse.z), HighByte(d.mouse.z), Button(d.mouse.l), Button(d.mouse.r),
      Byte(d.keys), Byte({i \in 0 .. 7 : i + 8 \in d.keys}),
      LowByte(d.wheel), HighByte(d.wheel)>>

-----------------------------------------------------------------------------
Magnitude(n) == IF n < 0 THEN -n ELSE n

(* Mutant: the highest bit, in the third byte, is forgotten. *)
LeftHorizontalOfTwo(byte2, byte3, byte4) == ((byte2 \div 64 + byte3 * 4) % 2048) - 1024

(* The channel that lies in three bytes. *)
LeftHorizontal(byte2, byte3, byte4) ==
    ((byte2 \div 64 + byte3 * 4 + byte4 * 1024) % 2048) - 1024

(***************************************************************************)
(* parseBuffer().  The bits that an `or' joins do not overlap, so it is a  *)
(* sum; byte(k) is rxBuffer[k].                                            *)
(***************************************************************************)
Parsed(rxBuffer, updates) ==
    LET byte(k) == rxBuffer[k + 1]
        Word(k) == byte(k) + byte(k + 1) * 256 IN
    [updateCounter |-> updates,
     rightHorizontal |-> (Word(0) % 2048) - 1024,
     rightVertical |-> ((byte(1) \div 8 + byte(2) * 32) % 2048) - 1024,
     leftHorizontal |-> LeftHorizontal(byte(2), byte(3), byte(4)),
     leftVertical |-> ((byte(4) \div 2 + byte(5) * 128) % 2048) - 1024,
     leftSwitch |-> (byte(5) \div 64) % 4,
     rightSwitch |-> (byte(5) \div 16) % 4,
     mouse |-> [x |-> Int16(Word(6)), y |-> Int16(Word(8)), z |-> Int16(Word(10)),
                l |-> byte(12) # 0, r |-> byte(13) # 0],
     key |-> Word(14),
     wheel |-> Int16(Word(16) - 1024)]

(* What the mapper is told of it. *)
KeyState(info) ==
    <<info.key, info.leftSwitch, info.rightSwitch, info.mouse.l, info.mouse.r>>

(* A frame with a stick beyond its range raises an error and is used. *)
parseBuffer(d) ==
    LET info == Parsed(FrameOf(d), remote.updateCounter + 1) IN
    /\ remote.updateCounter < MaxParsed
    /\ remote' = info
    /\ invalid' = \E c \in Channels \union {"wheel"} : Magnitude(info[c]) > ANALOG_MAX_VALUE
    /\ told' = KeyState(info)
    /\ driver' = d

reset ==
    /\ remote' = [Nothing EXCEPT !.updateCounter = remote.updateCounter]
    /\ told' = KeyState(Nothing)
    /\ driver' = <<>>
    /\ UNCHANGED invalid

getChannel(ch) ==
    CASE ch = "RIGHT_HORIZONTAL" -> remote.rightHorizontal
      [] ch = "RIGHT_VERTICAL" -> remote.rightVertical
      [] ch = "LEFT_HORIZONTAL" -> remote.leftHorizontal
      [] ch = "LEFT_VERTICAL" -> remote.leftVertical
      [] ch = "WHEEL" -> remote.wheel

getSwitch(sw) ==
    CASE sw = "LEFT_SWITCH" -> remote.leftSwitch
      [] sw = "RIGHT_SWITCH" -> remote.rightSwitch

keyPressed(key) == Bit(remote.key, key) = 1

Next == reset \/ \E d \in Driven : parseBuffer(d)

Spec == Init /\ [][Next]_infoVars

-----------------------------------------------------------------------------
(***************************************************************************)
(* remote.hpp: the getters return, and the command mapper is told, what    *)
(* the driver does: each stick from its middle, each switch, the mouse     *)
(* with its sign, the keys that are held and no others.  An error is       *)
(* raised if and only if a stick is beyond its range, whatever the other   *)
(* ones are that share its bytes.  A remote that was lost shows nothing.   *)
(***************************************************************************)
ShowsTheDriver ==
    LET Sent(d) == <<d.rightHorizontal, d.rightVertical, d.leftHorizontal, d.leftVertical,
                     d.wheel>>
        InRange == 1024 - ANALOG_MAX_VALUE .. 1024 + ANALOG_MAX_VALUE
        got == [i \in 1 .. 5 |-> getChannel(<<"RIGHT_HORIZONTAL", "RIGHT_VERTICAL",
                    "LEFT_HORIZONTAL", "LEFT_VERTICAL", "WHEEL">>[i])]
        switches == <<getSwitch("LEFT_SWITCH"), getSwitch("RIGHT_SWITCH")>> IN
    /\ driver = <<>> =>
           /\ \A i \in 1 .. 5 : got[i] = 0
           /\ switches = <<UNKNOWN, UNKNOWN>> /\ remote.mouse = Nothing.mouse
           /\ \A key \in 0 .. 15 : ~keyPressed(key)
           /\ told \in {<<>>, <<0, UNKNOWN, UNKNOWN, FALSE, FALSE>>}
    /\ driver # <<>> =>
           /\ \A i \in 1 .. 5 : got[i] = Sent(driver)[i] - 1024
           /\ invalid <=> \E i \in 1 .. 5 : Sent(driver)[i] \notin InRange
           /\ switches = <<driver.leftSwitch, driver.rightSwitch>>
           /\ remote.mouse = driver.mouse
           /\ \A key \in 0 .. 15 : keyPressed(key) <=> key \in driver.keys
           /\ told = KeyState(remote)
=============================================================================
