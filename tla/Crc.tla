-------------------------------- MODULE Crc --------------------------------
(***************************************************************************)
(* tap::algorithms::calculateCRC8 and calculateCRC16, byte by byte through *)
(* their tables, and a line that damages some neighbouring bytes of a      *)
(* message.  DjiSerial takes the codes to be perfect; this is what they    *)
(* do.                                                                     *)
(***************************************************************************)
EXTENDS Integers, SequencesExt

CONSTANTS
    Bytes,       \* the bytes that a message is made of
    Damages,     \* what the line does to a byte: the bits that it inverts
    MaxLength,   \* bound: bytes of a message
    MaxDamaged   \* bound: bytes from the first to the last damaged one

VARIABLES message, received

vars == <<message, received>>

CRC8_INIT == 255
CRC16_INIT == 65535

CRC8Table ==
    <<0, 94, 188, 226, 97, 63, 221, 131, 194, 156, 126, 32, 163, 253, 31, 65, 157, 195, 33, 127,
      252, 162, 64, 30, 95, 1, 227, 189, 62, 96, 130, 220, 35, 125, 159, 193, 66, 28, 254, 160,
      225, 191, 93, 3, 128, 222, 60, 98, 190, 224, 2, 92, 223, 129, 99, 61, 124, 34, 192, 158,
      29, 67, 161, 255, 70, 24, 250, 164, 39, 121, 155, 197, 132, 218, 56, 102, 229, 187, 89, 7,
      219, 133, 103, 57, 186, 228, 6, 88, 25, 71, 165, 251, 120, 38, 196, 154, 101, 59, 217,
      135, 4, 90, 184, 230, 167, 249, 27, 69, 198, 152, 122, 36, 248, 166, 68, 26, 153, 199, 37,
      123, 58, 100, 134, 216, 91, 5, 231, 185, 140, 210, 48, 110, 237, 179, 81, 15, 78, 16, 242,
      172, 47, 113, 147, 205, 17, 79, 173, 243, 112, 46, 204, 146, 211, 141, 111, 49, 178, 236,
      14, 80, 175, 241, 19, 77, 206, 144, 114, 44, 109, 51, 209, 143, 12, 82, 176, 238, 50, 108,
      142, 208, 83, 13, 239, 177, 240, 174, 76, 18, 145, 207, 45, 115, 202, 148, 118, 40, 171,
      245, 23, 73, 8, 86, 180, 234, 105, 55, 213, 139, 87, 9, 235, 181, 54, 104, 138, 212, 149,
      203, 41, 119, 244, 170, 72, 22, 233, 183, 85, 11, 136, 214, 52, 106, 43, 117, 151, 201,
      74, 20, 246, 168, 116, 42, 200, 150, 21, 75, 169, 247, 182, 232, 10, 84, 215, 137, 107, 53>>

CRC16Table ==
    <<0, 4489, 8978, 12955, 17956, 22445, 25910, 29887, 35912, 40385, 44890, 48851, 51820,
      56293, 59774, 63735, 4225, 264, 13203, 8730, 22181, 18220, 30135, 25662, 40137, 36160,
      49115, 44626, 56045, 52068, 63999, 59510, 8450, 12427, 528, 5017, 26406, 30383, 17460,
      21949, 44362, 48323, 36440, 40913, 60270, 64231, 51324, 55797, 12675, 8202, 4753, 792,
      30631, 26158, 21685, 17724, 48587, 44098, 40665, 36688, 64495, 60006, 55549, 51572, 16900,
      21389, 24854, 28831, 1056, 5545, 10034, 14011, 52812, 57285, 60766, 64727, 34920, 39393,
      43898, 47859, 21125, 17164, 29079, 24606, 5281, 1320, 14259, 9786, 57037, 53060, 64991,
      60502, 39145, 35168, 48123, 43634, 25350, 29327, 16404, 20893, 9506, 13483, 1584, 6073,
      61262, 65223, 52316, 56789, 43370, 47331, 35448, 39921, 29575, 25102, 20629, 16668, 13731,
      9258, 5809, 1848, 65487, 60998, 56541, 52564, 47595, 43106, 39673, 35696, 33800, 38273,
      42778, 46739, 49708, 54181, 57662, 61623, 2112, 6601, 11090, 15067, 20068, 24557, 28022,
      31999, 38025, 34048, 47003, 42514, 53933, 49956, 61887, 57398, 6337, 2376, 15315, 10842,
      24293, 20332, 32247, 27774, 42250, 46211, 34328, 38801, 58158, 62119, 49212, 53685, 10562,
      14539, 2640, 7129, 28518, 32495, 19572, 24061, 46475, 41986, 38553, 34576, 62383, 57894,
      53437, 49460, 14787, 10314, 6865, 2904, 32743, 28270, 23797, 19836, 50700, 55173, 58654,
      62615, 32808, 37281, 41786, 45747, 19012, 23501, 26966, 30943, 3168, 7657, 12146, 16123,
      54925, 50948, 62879, 58390, 37033, 33056, 46011, 41522, 23237, 19276, 31191, 26718, 7393,
      3432, 16371, 11898, 59150, 63111, 50204, 54677, 41258, 45219, 33336, 37809, 27462, 31439,
      18516, 23005, 11618, 15595, 3696, 8185, 63375, 58886, 54429, 50452, 45483, 40994, 37561,
      33584, 31687, 27214, 22741, 18780, 15843, 11370, 7921, 3960>>

(* The exclusive or of two numbers of sixteen bits, four bits at a time. *)
XorOfDigits ==
    [x, y \in 0 .. 15 |->
        LET Bit(n, k) == (n \div 2^k) % 2 IN
        MapThenSumSet(LAMBDA k : IF Bit(x, k) = Bit(y, k) THEN 0 ELSE 2^k, 0 .. 3)]

Xor(a, b) ==
    LET Digit(n, k) == (n \div 16^k) % 16 IN
    MapThenSumSet(LAMBDA k : 16^k * XorOfDigits[Digit(a, k), Digit(b, k)], 0 .. 3)

(* Mutant: the byte is not part of it. *)
Step8OfCode(crc, byte) == CRC8Table[1 + crc]

Step8(crc, byte) == CRC8Table[1 + Xor(crc, byte)]

(* Mutant: the byte meets the upper half, as in a code that is not reflected. *)
Step16Upper(crc, byte) == Xor(crc \div 256, CRC16Table[1 + Xor(crc \div 256, byte)])

Step16(crc, byte) == Xor(crc \div 256, CRC16Table[1 + Xor(crc % 256, byte)])

calculateCRC8(bytes) == FoldLeft(Step8, CRC8_INIT, bytes)

calculateCRC16(bytes) == FoldLeft(Step16, CRC16_INIT, bytes)

Init == message = <<>> /\ received = <<>>

DamagedOf(sent, got) == {i \in DOMAIN sent : sent[i] # got[i]}
Burst(sent, got) ==
    IF sent = got THEN 0
    ELSE Max(DamagedOf(sent, got)) - Min(DamagedOf(sent, got)) + 1

(* External: a byte crosses the line. *)
Transfer(byte, damage) ==
    /\ Len(message) < MaxLength
    /\ message' = Append(message, byte)
    /\ received' = Append(received, Xor(byte, damage))
    /\ Burst(message', received') <= MaxDamaged

(* External: the next message. *)
NextMessage ==
    /\ Len(message) = MaxLength
    /\ message' = <<>> /\ received' = <<>>

Next == NextMessage \/ \E byte \in Bytes, damage \in Damages \union {0} : Transfer(byte, damage)

Spec == Init /\ [][Next]_vars

-----------------------------------------------------------------------------
(* The remainder of a byte, a bit at a time from the lowest one, divided by
   the generator whose coefficients are the bits of `poly', reversed. *)
Remainder(byte, poly) ==
    FoldLeft(LAMBDA r, i : IF r % 2 = 1 THEN Xor(r \div 2, poly) ELSE r \div 2,
             byte, [i \in 1 .. 8 |-> i])

(* The entries of the tables are the remainders of one generator each:
   x^8 + x^5 + x^4 + 1 and x^16 + x^12 + x^5 + 1. *)
TablesDivide ==
    \A byte \in 0 .. 255 :
        /\ CRC8Table[byte + 1] = Remainder(byte, 140)
        /\ CRC16Table[byte + 1] = Remainder(byte, 33800)

(***************************************************************************)
(* crc.hpp: a receiver that compares the code of what it got with the code *)
(* that was sent sees any damage to one byte with calculateCRC8 and to two *)
(* neighbouring bytes with calculateCRC16, the second of which may be the  *)
(* first byte of the code itself; and no damage where there is none.       *)
(***************************************************************************)
DamageIsSeen ==
    LET burst == Burst(message, received)
        lastIsDamaged == message # <<>> /\ Last(message) # Last(received) IN
    /\ message = <<>> => TablesDivide
    /\ burst \in 0 .. 1 =>
           (calculateCRC8(received) = calculateCRC8(message) <=> burst = 0)
    /\ burst \in 0 .. 2 =>
           (calculateCRC16(received) = calculateCRC16(message) <=> burst = 0)
    /\ burst = 1 /\ lastIsDamaged =>
           \A damage \in Damages :
               calculateCRC16(received) # Xor(calculateCRC16(message), damage)
=============================================================================
