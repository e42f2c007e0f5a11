--------------------------- MODULE TerminalSerial ---------------------------
(***************************************************************************)
(* src/tap/communication/serial/terminal_serial.*: lines typed on a        *)
(* terminal are handed to the object registered for their first word,      *)
(* which may go on streaming until the next key.  With the handlers of the *)
(* library: of the motors, of an IMU, of the errors and of the scheduler.  *)
(*                                                                         *)
(* A key is a whole word, a space or Enter.  What a handler prints is the  *)
(* set of the things that it names; tables and usages are left out.        *)
(***************************************************************************)
EXTENDS Integers, SequencesExt

CONSTANTS
    MAX_LINE_LENGTH,
    MaxTyped,  \* bounds the keys of a line
    nullptr

Space == " "
Headers == {"motorinfo", "imu", "error", "scheduler"}

VARIABLES
    header,        \* the header that is registered
    rxBuff,        \* the keys before currLineSize
    notEmpty,      \* rxBuff[0] is not NUL
    prevCharSpace,
    currStreamer,  \* that header, or nullptr
    members,       \* what the handler streams, while it does
    printed,       \* what this call of update() printed
    typed,         \* history: the keys since the last line, with single spaces
    asked,         \* history: the words of the line since which no key was typed,
                   \*   and whether it was short enough
    halted         \* strcmp() of a null pointer stopped the program

terminalVars == <<header, rxBuff, notEmpty, prevCharSpace, currStreamer, members, printed, typed,
                  asked, halted>>

Arguments ==
    CASE header = "motorinfo" -> {"motor", "can", "all", "-H", "1", "9"}
      [] header = "imu" -> {"gyro", "accel", "-h", "x"}
      [] header = "error" -> {"-H", "printall", "removeall", "remove", "1", "x"}
      [] header = "scheduler" -> {"allsubcmd", "-H", "x"}

(* What a handler returns, what it prints, and what it streams from now on. *)
Refused == [ok |-> FALSE, prints |-> {}, streams |-> {}]
Usage == [ok |-> TRUE, prints |-> {}, streams |-> {}]
Shown(things) == [ok |-> TRUE, prints |-> things, streams |-> things]

-----------------------------------------------------------------------------
(* DjiMotorTerminalSerialHandler.  p is its members, the word that a number
   must follow, how the loop ended, and whether it left words. *)
Numbers == {"1", "9"}
Valid == {"1"}   \* both as a motor and as a bus

NoMotors == [motor |-> FALSE, can |-> FALSE, printAll |-> FALSE, expects |-> nullptr,
             ended |-> nullptr, rest |-> FALSE]

MotorArgument(p, arg) ==
    IF p.ended # nullptr THEN [p EXCEPT !.rest = TRUE]
    ELSE IF p.expects # nullptr
    THEN IF arg \in Valid
         THEN [p EXCEPT !.expects = nullptr, !.motor = @ \/ p.expects = "motor",
                        !.can = @ \/ p.expects = "can"]
         ELSE [p EXCEPT !.ended = "failed"]
    ELSE CASE arg \in {"motor", "can"} -> [p EXCEPT !.expects = arg]
           [] arg = "all" -> [p EXCEPT !.printAll = TRUE, !.ended = "all"]
           [] arg = "-H" -> [p EXCEPT !.ended = "help"]
           [] OTHER -> [p EXCEPT !.ended = "failed"]

Motors == (1 .. 2) \X (1 .. 2)   \* bus and number; there are eight of each

printInfo(p) == {m \in Motors : (p.can => m[1] = 1) /\ (p.motor => m[2] = 1)}

(* Mutant: what follows "all" is not looked at. *)
AcceptedWithRest(p) ==
    LET given == p.can \/ p.motor
    IN  p.ended # "failed" /\ p.expects = nullptr /\ given # p.printAll

Accepted(p) ==
    LET given == p.can \/ p.motor
    IN  p.ended # "failed" /\ p.expects = nullptr /\ given # p.printAll /\ ~p.rest

MotorArguments(args) ==
    LET p[k \in 0 .. Len(args)] == IF k = 0 THEN NoMotors ELSE MotorArgument(p[k - 1], args[k])
    IN  p[Len(args)]

MotorCallback(args, streaming) ==
    LET p == MotorArguments(args)
    IN  IF p.ended = "help"
        THEN IF streaming \/ p.can \/ p.motor \/ p.rest THEN Refused ELSE Usage
        ELSE IF Accepted(p) THEN Shown(printInfo(p)) ELSE Refused

-----------------------------------------------------------------------------
(* ImuTerminalSerialHandler.  A subject that is named again is not one. *)
ImuArgument(p, arg) ==
    IF p.ended # nullptr THEN p
    ELSE IF arg \in {"gyro", "accel"} \ p.subjects THEN [p EXCEPT !.subjects = @ \union {arg}]
    ELSE [p EXCEPT !.ended = IF arg = "-h" THEN "help" ELSE "failed"]

ImuArguments(args) ==
    LET p[k \in 0 .. Len(args)] ==
            IF k = 0 THEN [subjects |-> {}, ended |-> nullptr] ELSE ImuArgument(p[k - 1], args[k])
    IN  p[Len(args)]

ImuCallback(args) ==
    LET p == ImuArguments(args)
    IN  IF p.ended = "help" THEN [Usage EXCEPT !.streams = p.subjects]
        ELSE IF p.ended = "failed" \/ p.subjects = {} THEN Refused ELSE Shown(p.subjects)

(* ErrorController; what is printed stands for what is called. *)
ErrorCallback(args, streaming) ==
    CASE streaming \/ args = <<>> -> Refused
      [] ~streaming /\ args # <<>> ->
            CASE args[1] = "-H" -> Usage
              [] args[1] \in {"printall", "removeall"} -> Shown({args[1]})
              [] args[1] = "remove" /\ Len(args) > 1 /\ args[2] \in Numbers -> Shown({args[2]})
              [] OTHER -> Refused

SchedulerCallback(args, streaming) ==
    CASE args # <<>> /\ args[1] = "allsubcmd" -> Shown({"subsystems", "commands"})
      [] args # <<>> /\ args[1] = "-H" /\ ~streaming -> Usage
      [] OTHER -> Refused

terminalSerialCallback(args, streaming) ==
    CASE header = "motorinfo" -> MotorCallback(args, streaming)
      [] header = "imu" -> ImuCallback(args)
      [] header = "error" -> ErrorCallback(args, streaming)
      [] header = "scheduler" -> SchedulerCallback(args, streaming)

-----------------------------------------------------------------------------
NoLine == [words |-> <<>>, fits |-> FALSE]

Init ==
    /\ header \in Headers
    /\ rxBuff = <<>> /\ notEmpty = FALSE
    /\ prevCharSpace = FALSE
    /\ currStreamer = nullptr /\ members = {}
    /\ printed = {}
    /\ typed = <<>> /\ asked = NoLine
    /\ halted = FALSE

(* strtokR() until it returns nothing. *)
Words(keys) ==
    LET w[k \in 0 .. Len(keys)] ==
            IF k = 0 THEN <<>> ELSE IF keys[k] = Space THEN w[k - 1] ELSE Append(w[k - 1], keys[k])
    IN  w[Len(keys)]

(* The -S that comes right after the first word and one delimiter. *)
Streaming(words) == Len(words) > 1 /\ words[2] = "-S"
Args(words) == SubSeq(words, IF Streaming(words) THEN 3 ELSE 2, Len(words))

Nothing == printed' = {} /\ members' = {} /\ currStreamer' = nullptr

(* Mutant: a handler that refused streams all the same. *)
StreamerKept(result, words) == IF Streaming(words) THEN header ELSE nullptr

Streamer(result, words) == IF result.ok /\ Streaming(words) THEN header ELSE nullptr

Execute(words) ==
    IF words[1] # header THEN Nothing
    ELSE LET result == terminalSerialCallback(Args(words), Streaming(words))
         IN  /\ printed' = result.prints
             /\ members' = result.streams
             /\ currStreamer' = Streamer(result, words)

(* Mutant: the next line is appended to this one. *)
LineKept == rxBuff

NextLine == <<>>

(* A line of one space, and a line that was too long by one key, hold no word:
   the map of headers then compares a null pointer. *)
Enter ==
    /\ IF ~notEmpty
       THEN /\ currStreamer' = nullptr
            /\ printed' = {} /\ asked' = NoLine
            /\ members' = {}
            /\ UNCHANGED <<rxBuff, halted>>
       ELSE /\ IF Words(rxBuff) = <<>> THEN Nothing /\ halted' \in BOOLEAN
               ELSE Execute(Words(rxBuff)) /\ UNCHANGED halted
            /\ rxBuff' = NextLine
            /\ asked' = [words |-> Words(typed), fits |-> Len(typed) < MAX_LINE_LENGTH - 1]
    /\ typed' = <<>>
    /\ notEmpty' = FALSE
    /\ UNCHANGED <<header, prevCharSpace>>

Squeezed(key, keys, afterSpace) == IF key = Space /\ afterSpace THEN keys ELSE Append(keys, key)

(* The key that does not fit throws the line away, but rxBuff[0] stays. *)
Type(key) ==
    /\ currStreamer' = nullptr
    /\ IF Len(rxBuff) >= MAX_LINE_LENGTH - 1
       THEN rxBuff' = <<>> /\ UNCHANGED <<notEmpty, prevCharSpace>>
       ELSE /\ rxBuff' = Squeezed(key, rxBuff, prevCharSpace)
            /\ notEmpty' = (notEmpty \/ rxBuff' # <<>>)
            /\ prevCharSpace' = (key = Space)
    /\ typed' = Squeezed(key, typed, typed # <<>> /\ Last(typed) = Space)
    /\ printed' = {} /\ members' = {} /\ asked' = NoLine
    /\ UNCHANGED <<header, halted>>

(* update() finds no key, and the timer of the stream has expired. *)
Stream ==
    /\ currStreamer # nullptr
    /\ printed' = members
    /\ UNCHANGED <<header, rxBuff, notEmpty, prevCharSpace, currStreamer, members, typed, asked,
                   halted>>

(* A word follows a space or the flag, which need not be followed by one.  In
   any other place the flag is as good as another wrong word. *)
Keys ==
    IF typed # <<>> /\ Last(typed) \notin {Space, "-S"} THEN {Space}
    ELSE {Space} \union (CASE Len(Words(typed)) = 0 -> {header, "-S"}
                        [] Len(Words(typed)) = 1 -> {"-S"} \union Arguments
                        [] OTHER -> Arguments)

update == Enter \/ Stream \/ (Len(typed) < MaxTyped /\ \E key \in Keys : Type(key))

Next == ~halted /\ update

-----------------------------------------------------------------------------
(* What a line of words names, by the usages of the handlers.  Of several
   motors or buses it is the last, which is never another here. *)
Pair(args, k) == args[k] \in {"motor", "can"} /\ args[k + 1] \in Valid

MotorsNamed(args) ==
    LET odd == {k \in DOMAIN args : k % 2 = 1}
        named == {args[k] : k \in odd}
    IN  IF args = <<"all">> THEN Motors
        ELSE IF Len(args) % 2 = 0 /\ args # <<>> /\ \A k \in odd : Pair(args, k)
        THEN {m \in Motors : ("can" \in named => m[1] = 1) /\ ("motor" \in named => m[2] = 1)}
        ELSE {}

SubjectsNamed(args) ==
    IF ToSet(args) \subseteq {"gyro", "accel"} /\ IsInjective(args) THEN ToSet(args) ELSE {}

Calls(args) == CASE args[1] \in {"printall", "removeall"} -> {args[1]}
                 [] args[1] = "remove" /\ Len(args) > 1 -> {args[2]} \intersect Numbers
                 [] OTHER -> {}

Named(words) ==
    LET args == Args(words)
    IN  IF words = <<>> \/ words[1] # header \/ args = <<>> THEN {}
        ELSE CASE header = "motorinfo" -> MotorsNamed(args)
               [] header = "imu" -> SubjectsNamed(args)
               [] header = "error" -> IF Streaming(words) THEN {} ELSE Calls(args)
               [] header = "scheduler" ->
                     IF args[1] = "allsubcmd" THEN {"subsystems", "commands"} ELSE {}

(* Whatever was typed before, a line that is short enough does what it says
   once, or over and over until the next key if it says -S and the handler takes
   it (terminal_serial.cpp:39-112): it prints what the line names, and of a line
   that it cannot read, nothing (dji_motor_terminal_serial_handler.cpp:42-180).
   To a full buffer even a space that is dropped is too much, and the help of an
   IMU is streamed. *)
TerminalObeys ==
    asked.fits /\ ~(header = "imu" /\ "-h" \in ToSet(asked.words)) =>
        /\ printed = Named(asked.words)
        /\ currStreamer # nullptr => typed = <<>> /\ Streaming(asked.words) /\ printed # {}
=============================================================================
