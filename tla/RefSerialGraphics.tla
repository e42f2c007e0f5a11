-------------------------- MODULE RefSerialGraphics --------------------------
(***************************************************************************)
(* tap::communication::serial::RefSerialTransmitter: the graphics of the   *)
(* operator's screen.  A program configures a GraphicData, what all kinds  *)
(* of graphics have and what its kind has, in any order and as often as it *)
(* likes; the referee system draws what it finds in the bits of it.        *)
(***************************************************************************)
EXTENDS Integers

CONSTANTS
    Drawings,   \* what the functions are given: an argument of each name
    MaxConfigs  \* bounds the calls

VARIABLES
    graphicData,  \* the bits of the fields, as numbers; the characters of a message
    drawn,        \* history: the kind and the arguments of the last shape
    generics,     \* history: the arguments of the last configGraphicGenerics()
    configs

graphicVars == <<graphicData, drawn, generics, configs>>

GraphicType ==
    [STRAIGHT_LINE |-> 0, RECTANGLE |-> 1, CIRCLE |-> 2, ELLIPSE |-> 3, ARC |-> 4,
     FLOATING_NUM |-> 5, INTEGER |-> 6, CHARACTER |-> 7]
GraphicColor ==
    [RED_AND_BLUE |-> 0, YELLOW |-> 1, GREEN |-> 2, ORANGE |-> 3, PURPLISH_RED |-> 4, PINK |-> 5,
     CYAN |-> 6, BLACK |-> 7, WHITE |-> 8]
GraphicOperation == [GRAPHIC_NO_OP |-> 0, GRAPHIC_ADD |-> 1, GRAPHIC_MODIFY |-> 2, GRAPHIC_DELETE |-> 3]

(* The functions are given unsigned numbers, a name of three bytes, a layer
   between 0 and 9, a color, a number of 32 bits and a text. *)
DrawingsAssumption ==
    \A a \in Drawings :
        /\ {a.name, a.fontSize, a.decimalPrecision, a.width, a.startX, a.startY, a.endX, a.endY,
            a.radius, a.startAngle, a.endAngle, a.length} \subseteq Nat
        /\ a.name < 2^24 /\ a.layer \in 0 .. 9 /\ a.color \in DOMAIN GraphicColor
        /\ a.value \in Int /\ -2147483647 - 1 <= a.value /\ a.value <= 2147483647

(* Bits of the fields, of which the last three are a union with value. *)
Width ==
    [name |-> 24, operation |-> 3, type |-> 3, layer |-> 4, color |-> 4, startAngle |-> 9,
     endAngle |-> 9, lineWidth |-> 10, startX |-> 11, startY |-> 11,
     radius |-> 10, endX |-> 11, endY |-> 11]

Fields == DOMAIN Width \union {"characters"}

(* The data after the changes, of which a field keeps the lower bits. *)
Stored(data, changes) ==
    [f \in Fields |-> IF f \notin DOMAIN changes THEN data[f]
                      ELSE IF f = "characters" THEN changes[f]
                      ELSE changes[f] % 2^Width[f]]

(* 1000 * value, from ten thousandths, without what is behind the point. *)
Thousandths(value) == IF value < 0 THEN -((-value) \div 10) ELSE value \div 10

Init ==
    /\ graphicData = [f \in Fields |-> 0]
    /\ drawn = [kind |-> "none"]
    /\ generics = [operation |-> "GRAPHIC_NO_OP"]
    /\ configs = 0

configGraphicGenerics(a, operation) ==
    /\ graphicData' = Stored(graphicData,
          [name |-> a.name, operation |-> GraphicOperation[operation], layer |-> a.layer,
           color |-> GraphicColor[a.color]])
    /\ generics' = [operation |-> operation, of |-> a]
    /\ UNCHANGED drawn

(* What all kinds have, and then what the kind has. *)
Shape(data, kind, a, changes) ==
    /\ graphicData' = Stored(Stored(data,
          [type |-> GraphicType[kind], lineWidth |-> a.width, startX |-> a.startX,
           startY |-> a.startY]), changes)
    /\ drawn' = [kind |-> kind, of |-> a]
    /\ UNCHANGED generics

configLine(a) == Shape(graphicData, "STRAIGHT_LINE", a, [endX |-> a.endX, endY |-> a.endY])

configRectangle(a) == Shape(graphicData, "RECTANGLE", a, [endX |-> a.endX, endY |-> a.endY])

(* Mutant: the radius where an ellipse has its axes. *)
configCircleAsEllipse(a) ==
    Shape(graphicData, "CIRCLE", a, [endX |-> a.radius, endY |-> a.radius])

configCircle(a) == Shape(graphicData, "CIRCLE", a, [radius |-> a.radius])

configEllipse(a) == Shape(graphicData, "ELLIPSE", a, [endX |-> a.endX, endY |-> a.endY])

configArc(a) ==
    Shape(graphicData, "ARC", a, [startAngle |-> a.startAngle, endAngle |-> a.endAngle,
                                  endX |-> a.endX, endY |-> a.endY])

(* The data with another number in the union. *)
WithValue(value) ==
    Stored(graphicData, [radius |-> value, endX |-> value \div 2^10, endY |-> value \div 2^21])

configFloatingNumber(a) ==
    Shape(WithValue(Thousandths(a.value)), "FLOATING_NUM", a,
          [startAngle |-> a.fontSize, endAngle |-> a.decimalPrecision])

(* Mutant: scaled like a floating number. *)
configIntegerScaled(a) ==
    Shape(WithValue(Thousandths(a.value)), "INTEGER", a, [startAngle |-> a.fontSize])

configInteger(a) == Shape(WithValue(a.value), "INTEGER", a, [startAngle |-> a.fontSize])

(* The message has place for 29 characters and a zero. *)
configCharacterMsg(a) ==
    Shape(graphicData, "CHARACTER", a,
          [startAngle |-> a.fontSize, endAngle |-> a.length,
           characters |-> IF a.length < 29 THEN a.length ELSE 29])

Next ==
    /\ configs < MaxConfigs
    /\ configs' = configs + 1
    /\ \E a \in Drawings :
        \/ \E operation \in DOMAIN GraphicOperation : configGraphicGenerics(a, operation)
        \/ configLine(a)
        \/ configRectangle(a)
        \/ configCircle(a)
        \/ configEllipse(a)
        \/ configArc(a)
        \/ configFloatingNumber(a)
        \/ configInteger(a)
        \/ configCharacterMsg(a)

-----------------------------------------------------------------------------
(* The fields fill the three words of a graphic after its name. *)
FillsWords ==
    /\ Width.operation + Width.type + Width.layer + Width.color + Width.startAngle
           + Width.endAngle = 32
    /\ Width.lineWidth + Width.startX + Width.startY = 32
    /\ Width.radius + Width.endX + Width.endY = 32

(* The number in the union, which is signed. *)
Value == (((graphicData.endY + 2^10) % 2^11) - 2^10) * 2^21
             + graphicData.endX * 2^10 + graphicData.radius

(* A shape is drawn within the lines of a screen of 1920 by 1080 points. *)
Fits(a) ==
    a.width < 2^10 /\ \A point \in {a.startX, a.startY, a.endX, a.endY} : point <= 1920

(* What the referee system draws of each kind. *)
ShowsPlace(a) ==
    Fits(a) => /\ graphicData.startX = a.startX /\ graphicData.startY = a.startY
               /\ graphicData.lineWidth = a.width
ShowsEnd(a) == Fits(a) => graphicData.endX = a.endX /\ graphicData.endY = a.endY
ShowsSize(a) == a.fontSize < 2^9 => graphicData.startAngle = a.fontSize
ShowsShape(kind, a) ==
    CASE kind \in {"STRAIGHT_LINE", "RECTANGLE", "ELLIPSE"} -> ShowsEnd(a)
      [] kind = "CIRCLE" -> a.radius < 2^10 => graphicData.radius = a.radius
      [] kind = "ARC" -> /\ ShowsEnd(a)
                         /\ a.startAngle <= 360 /\ a.endAngle <= 360 =>
                                /\ graphicData.startAngle = a.startAngle
                                /\ graphicData.endAngle = a.endAngle
      [] kind = "INTEGER" -> ShowsSize(a) /\ Value = a.value
      [] kind = "FLOATING_NUM" ->
            /\ ShowsSize(a)
            /\ a.decimalPrecision < 2^9 => graphicData.endAngle = a.decimalPrecision
            /\ a.value - 10 * Value \in -9 .. 9
      [] OTHER -> /\ ShowsSize(a)
                  /\ a.length < 30 => graphicData.characters = graphicData.endAngle

(***************************************************************************)
(* However a graphic was reconfigured, the screen shows the last shape it  *)
(* was given, as its kind has it, with the last name, layer and color; of  *)
(* older shapes nothing that the kind shows is left.  Numbers come out of  *)
(* the union as they went in, and the fields fill their words, so that the *)
(* length in the header counts no gap.                                     *)
(***************************************************************************)
ShowsLastDrawing ==
    /\ FillsWords
    /\ drawn.kind # "none" =>
           /\ graphicData.type = GraphicType[drawn.kind]
           /\ ShowsPlace(drawn.of)
           /\ ShowsShape(drawn.kind, drawn.of)
    /\ generics.operation # "GRAPHIC_NO_OP" =>
           /\ graphicData.operation = GraphicOperation[generics.operation]
           /\ graphicData.name = generics.of.name
           /\ graphicData.layer = generics.of.layer
           /\ graphicData.color = GraphicColor[generics.of.color]
=============================================================================
