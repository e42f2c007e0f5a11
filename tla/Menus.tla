------------------------------- MODULE Menus -------------------------------
(***************************************************************************)
(* src/tap/display: the logic of a menu that scrolls, and the menus of the *)
(* robot that use it: of the scheduler's commands, of its hardware tests   *)
(* and of the motors.  A program polls the menu on top: hasChanged(), and  *)
(* draw() if it says so.  That, and the buttons, are modm's and external.  *)
(*                                                                         *)
(* A screen is the set of the lines that are drawn, a line an entry with   *)
(* its mark and the fields said of it.  Subsystems, commands and motors    *)
(* are numbers, in the order of the scheduler and of the tables.           *)
(***************************************************************************)
EXTENDS Integers, FiniteSets

CONSTANTS
    Kinds,               \* of menus
    maxEntries,          \* lines of a screen
    Subsystems, Tested,  \* subsystems, and those with a hardware test
    MenuCommands,        \* commands, numbered above the subsystems
    MenuMotors           \* the places of both buses, from 0

MenusAssumption ==
    /\ Kinds \subseteq {"scheduler", "tests", "motors"}
    /\ maxEntries \in Nat \ {0}
    /\ Subsystems \subseteq Nat /\ MenuCommands \subseteq Nat /\ MenuMotors \subseteq Nat
    /\ IsFiniteSet(Subsystems) /\ IsFiniteSet(MenuCommands) /\ IsFiniteSet(MenuMotors)
    /\ Tested \subseteq Subsystems

VARIABLES
    kind,       \* of the menu that is on top
    open,
    scroll,     \* its VerticalScrollLogicHandler
    registered, \* subsystems of the scheduler, or motors in the tables
    active,     \* commands that are scheduled, tests that run, motors that are online
    passed,     \* the subsystems that passed their test
    previous,   \* what hasChanged() remembers
    firstDrawTime, \* it was not polled yet
    screen,     \* the lines that were drawn last
    since,      \* what happened since they were drawn
    fresh       \* nothing happened since the menu was polled

menusVars == <<kind, open, scroll, registered, active, passed, previous, firstDrawTime, screen,
               since, fresh>>

(* Of tests: "started", "ended", and "verdict" for a verdict that changes
   without either.  Of motors: "table" for one that is created or destroyed, and
   "early" for one that goes on or off before the first poll. *)
Record(events) == since' = IF open THEN since \union events ELSE since

-----------------------------------------------------------------------------
(* VerticalScrollLogicHandler *)

getLargestIndexDisplayed(s) ==
    (IF s.smallestIndexDisplayed + maxEntries < s.size
     THEN s.smallestIndexDisplayed + maxEntries ELSE s.size) - 1

setCursor(s, newCursor) == [s EXCEPT !.cursorIndex = newCursor, !.cursorChanged = TRUE]

(* Mutant: the window moves when the cursor stands on its last line. *)
DownEarly(s) ==
    LET moved == setCursor(s, s.cursorIndex + 1)
    IN  IF s.cursorIndex >= s.size - 1 THEN s
        ELSE IF moved.cursorIndex < getLargestIndexDisplayed(moved) THEN moved
        ELSE [moved EXCEPT !.smallestIndexDisplayed = @ + 1]

Down(s) ==
    LET moved == setCursor(s, s.cursorIndex + 1)
    IN  IF s.cursorIndex >= s.size - 1 THEN s
        ELSE IF moved.cursorIndex <= getLargestIndexDisplayed(moved) THEN moved
        ELSE [moved EXCEPT !.smallestIndexDisplayed = @ + 1]

Up(s) ==
    LET moved == setCursor(s, s.cursorIndex - 1)
    IN  IF s.cursorIndex <= 0 THEN s
        ELSE IF moved.cursorIndex >= moved.smallestIndexDisplayed THEN moved
        ELSE [moved EXCEPT !.smallestIndexDisplayed = @ - 1]

(* Mutant: the window stays where it is. *)
WindowKept(s, size) == s.smallestIndexDisplayed

Window(s, size) ==
    IF getLargestIndexDisplayed(s) < size THEN s.smallestIndexDisplayed
    ELSE IF size - maxEntries > 0 THEN size - maxEntries ELSE 0

(* The window is compared with the old size. *)
setSize(s, size) ==
    LET moved == IF s.cursorIndex >= size THEN setCursor(s, size - 1) ELSE s
    IN  [moved EXCEPT !.smallestIndexDisplayed = Window(moved, size), !.size = size]

acknowledged(s) == [s EXCEPT !.cursorChanged = FALSE]

NewScroll(size) ==
    [size |-> size, cursorIndex |-> 0, smallestIndexDisplayed |-> 0, cursorChanged |-> FALSE]

Visible(s, index) == s.smallestIndexDisplayed <= index /\ index <= getLargestIndexDisplayed(s)

-----------------------------------------------------------------------------
(* The place of a number in a list of them, from 0. *)
Index(x, list) == Cardinality({y \in list : y < x})

All == -1   \* the entry that stands for all tests
Line(entry, marked, said) == [entry |-> entry, marked |-> marked, said |-> said]

SchedulerList == registered \union active

SchedulerLines(s) ==
    {Line(x, Index(x, SchedulerList) = s.cursorIndex, <<>>) :
        x \in {y \in SchedulerList : Visible(s, Index(y, SchedulerList))}}

TestIndex(x) == 1 + Index(x, Tested)

TestStatus(x) ==
    <<IF x \in passed THEN "+" ELSE "x", IF x \in active THEN "stop" ELSE "run">>

(* The first line, which is always drawn, stops all tests or runs all. *)
TestLines(s) ==
    {Line(All, s.cursorIndex = 0, <<Cardinality(active)>>)}
        \union {Line(x, TestIndex(x) = s.cursorIndex, TestStatus(x)) :
                    x \in {y \in Tested : Visible(s, TestIndex(y))}}

MotorStatus(x) ==
    <<IF x \notin registered THEN "NULL" ELSE IF x \in active THEN "ON" ELSE "OFF">>

MotorLines(s) ==
    {Line(x, x = s.cursorIndex, MotorStatus(x)) : x \in {y \in MenuMotors : Visible(s, y)}}

Lines(s) ==
    IF kind = "scheduler" THEN SchedulerLines(s)
    ELSE IF kind = "tests" THEN TestLines(s) ELSE MotorLines(s)

(* draw() asks for the number of its entries again, but the menu of tests does
   only once. *)
Sized(s) ==
    IF kind = "scheduler"
    THEN IF s.size # Cardinality(SchedulerList) THEN setSize(s, Cardinality(SchedulerList)) ELSE s
    ELSE IF kind = "tests" /\ s.size = 0 THEN setSize(s, Cardinality(Tested) + 1) ELSE s

draw(s) ==
    /\ scroll' = Sized(s)
    /\ screen' = Lines(Sized(s))
    /\ since' = {}

(* Mutant: motors are looked up and not asked whether they are online. *)
StatusOfTable ==
    IF kind = "scheduler" THEN <<registered, active>>
    ELSE IF kind = "tests" THEN <<Cardinality(active)>> ELSE <<registered>>

(* What hasChanged() compares with the last time. *)
Status ==
    IF kind = "scheduler" THEN <<registered, active>>
    ELSE IF kind = "tests" THEN <<Cardinality(active)>> ELSE <<active>>

(* The menu of the motors leaves its members uninitialized. *)
Initial ==
    IF kind = "scheduler" THEN {<<{}, {}>>}
    ELSE IF kind = "tests" THEN {<<0>>} ELSE {<<online>> : online \in SUBSET MenuMotors}

(* Mutant: once the cursor moved, the rest is left for the next time. *)
RememberedUnlessMoved == IF scroll.cursorChanged THEN previous ELSE Status

Remembered == Status

Poll ==
    /\ open
    /\ IF kind = "scheduler" /\ firstDrawTime
       THEN /\ draw(scroll)
            /\ UNCHANGED previous
       ELSE /\ previous' = Remembered
            /\ IF scroll.cursorChanged \/ Status # previous
               THEN draw(acknowledged(scroll))
               ELSE UNCHANGED <<scroll, screen, since>>
    /\ firstDrawTime' = FALSE
    /\ fresh' = TRUE
    /\ UNCHANGED <<kind, open, registered, active, passed>>

-----------------------------------------------------------------------------
Init ==
    /\ kind \in Kinds
    /\ open = FALSE
    /\ scroll = NewScroll(0)
    /\ registered = {} /\ active = {} /\ passed = {}
    /\ previous = <<>>
    /\ firstDrawTime = TRUE
    /\ screen = {} /\ since = {}
    /\ fresh = FALSE

(* A menu is constructed and put on top, which draws it. *)
Open ==
    /\ ~open
    /\ open' = TRUE
    /\ draw(NewScroll(IF kind = "motors" THEN Cardinality(MenuMotors) ELSE 0))
    /\ previous' \in Initial
    /\ firstDrawTime' = TRUE
    /\ fresh' = FALSE
    /\ UNCHANGED <<kind, registered, active, passed>>

Press ==
    /\ open
    /\ scroll.size # 0
    /\ scroll' \in {Down(scroll), Up(scroll)}
    /\ fresh' = FALSE
    /\ UNCHANGED <<kind, open, registered, active, passed, previous, firstDrawTime, screen,
                   since>>

(* runHardwareTest() clears the verdict; the scheduler may refuse the test, and
   what it accepts may evict others. *)
Run(tests) ==
    \E accepted \in SUBSET tests :
        \E evicted \in IF accepted = {} THEN {{}} ELSE SUBSET active :
            /\ active' = (active \ evicted) \union accepted
            /\ passed' = passed \ tests
            /\ Record(   (IF accepted # {} THEN {"started"} ELSE {})
                  \union (IF evicted # {} THEN {"ended"} ELSE {})
                  \union (IF passed \intersect (tests \ accepted) # {} THEN {"verdict"} ELSE {}))

Stop(tests) ==
    /\ active' = active \ tests
    /\ Record({"ended"})
    /\ UNCHANGED passed

(* Mutant: subsystems without a test are counted. *)
PressedOfAll(x) == 1 + Index(x, Subsystems)

(* shortButtonPress() counts once more what draw() counted. *)
Pressed(x) == 1 + Index(x, Tested)

PressOK ==
    /\ open /\ kind = "tests"
    /\ \/ scroll.cursorIndex = 0 /\ active # {} /\ Stop(active)
       \/ scroll.cursorIndex = 0 /\ active = {} /\ Run(Tested)
       \/ \E x \in Tested :
            /\ Pressed(x) = scroll.cursorIndex
            /\ IF x \in active THEN Stop({x}) ELSE Run({x})
    /\ fresh' = FALSE
    /\ UNCHANGED <<kind, open, scroll, registered, previous, firstDrawTime, screen>>

(* LEFT; the menu of tests stops them. *)
Close ==
    /\ open
    /\ open' = FALSE
    /\ active' = IF kind = "tests" THEN {} ELSE active
    /\ fresh' = FALSE
    /\ screen' = {} /\ since' = {}
    /\ UNCHANGED <<kind, scroll, registered, passed, previous, firstDrawTime>>

(* The robot goes on.  Subsystems are registered, and once there is one commands
   start and end. *)
CommandsGoOn ==
    /\ kind = "scheduler"
    /\ \/ \E x \in Subsystems : registered' = registered \union {x} /\ UNCHANGED active
       \/ \E x \in MenuCommands :
            /\ active' \in {active \ {x}} \union (IF registered = {} THEN {} ELSE {active \union {x}})
            /\ UNCHANGED registered
    /\ Record({})
    /\ UNCHANGED passed

(* Tests end, by themselves or evicted, and run() takes the verdicts of those
   that do not run. *)
TestsGoOn ==
    /\ kind = "tests"
    /\ \E gone \in SUBSET active :
        \E verdicts \in SUBSET (Tested \ (active \ gone)) :
            /\ active' = active \ gone
            /\ passed' = passed \union verdicts
            /\ Record(   (IF gone # {} THEN {"ended"} ELSE {})
                  \union (IF verdicts \subseteq passed \union gone THEN {} ELSE {"verdict"}))
    /\ UNCHANGED registered

(* Motors are created offline, come and go on their buses, and are destroyed. *)
MotorsGoOn ==
    /\ kind = "motors"
    /\ \E x \in MenuMotors :
        \/ /\ x \notin registered
           /\ registered' = registered \union {x}
           /\ Record({"table"})
           /\ UNCHANGED active
        \/ /\ x \in registered
           /\ registered' = registered \ {x}
           /\ active' = active \ {x}
           /\ Record({"table"} \union (IF firstDrawTime /\ x \in active THEN {"early"} ELSE {}))
        \/ /\ x \in registered
           /\ active' = IF x \in active THEN active \ {x} ELSE active \union {x}
           /\ Record(IF firstDrawTime THEN {"early"} ELSE {})
           /\ UNCHANGED registered
    /\ UNCHANGED passed

Happens ==
    /\ CommandsGoOn \/ TestsGoOn \/ MotorsGoOn
    /\ fresh' = FALSE
    /\ UNCHANGED <<kind, open, scroll, previous, firstDrawTime, screen>>

Next == Open \/ Press \/ PressOK \/ Close \/ Poll \/ Happens

Spec == Init /\ [][Next]_menusVars

-----------------------------------------------------------------------------
(* The cursor is on one of the lines that are shown, and no line is left empty
   below while there are entries above (vertical_scroll_logic_handler.cpp:48-109),
   however the list grows and shrinks.  A list that was empty leaves the cursor
   before its first entry. *)
CursorOnScreen ==
    /\ scroll.cursorIndex >= -1
    /\ scroll.cursorIndex >= 0 /\ scroll.size > 0 => Visible(scroll, scroll.cursorIndex)
    /\ scroll.smallestIndexDisplayed = 0
        \/ scroll.smallestIndexDisplayed + maxEntries <= scroll.size

(* What hasChanged() can miss: that as many tests ended as started, that the
   verdict of a test changed which did not run, that a motor that is offline was
   created or destroyed, and, as it compares with what was in the memory before,
   what the motors did before the first poll. *)
Noticed ==
    /\ ~({"started", "ended"} \subseteq since)
    /\ since \intersect {"verdict", "table", "early"} = {}

(* After a poll (command_scheduler_menu.cpp:58-73, hardware_test_menu.cpp:94-102,
   motor_menu.cpp:122-150) the screen shows what draw() would show now: no
   command, subsystem, verdict, cursor or motor changes its line unnoticed, but
   for the above.  Even then the number of running tests is right, and a motor's
   line says ON if and only if it is online, so that only OFF and NULL are taken
   for each other. *)
ScreenUpToDate ==
    fresh =>
        /\ Noticed => screen = Lines(scroll)
        /\ kind = "tests" => \E l \in screen : l.entry = All /\ l.said = <<Cardinality(active)>>
        /\ kind = "motors" /\ "early" \notin since =>
                \A l \in screen : l.said = <<"ON">> <=> l.entry \in active

(* What OK starts, or stops if it starts nothing that may evict it, is the test
   whose line is marked (hardware_test_menu.cpp:66-85, 142-160), or all. *)
OKActsOnMarked ==
    [][ PressOK =>
        \A x \in Tested :
            (x \in active') # (x \in active) =>
                \/ \E l \in Lines(scroll) : l.marked /\ l.entry \in {All, x}
                \/ x \in active /\ active' \ active # {} ]_menusVars

MenusShow == CursorOnScreen /\ ScreenUpToDate

=============================================================================
