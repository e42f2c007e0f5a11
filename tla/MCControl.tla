----------------------------- MODULE MCControl -----------------------------
(***************************************************************************)
(* The ways to commands: the registrar that gives them their identifiers,  *)
(* the mappings that start and end them as the remote shows, the menus     *)
(* that show and test them, the terminal, and the server of a program on a *)
(* host.  They share no state, so one behaviour uses one of them, chosen   *)
(* in the initial state; the others stay as they are constructed.          *)
(***************************************************************************)
EXTENDS CommandRegistrar, TLC

CONSTANTS
    Commands, Requires, AlwaysReady, Mappings, Frames, MaxStarts,
    Kinds, maxEntries, Subsystems, Tested, MenuCommands, MenuMotors,
    MAX_LINE_LENGTH, MaxTyped,
    Clients, LISTEN_QUEUE_SIZE, MessageLengths, Word, MaxSent, MaxWrites

VARIABLES
    used,  \* the part that is used
    commandsToRun, mapping, mapped, disconnected, connected, frame, starts,
    kind, open, scroll, subsystems, active, passed, previous, firstDrawTime, screen, since,
    fresh,
    header, rxBuff, notEmpty, prevCharSpace, currStreamer, members, printed, typed, asked, halted,
    socketOpened, listening, mainClientDescriptor, descriptors, call, coming, gone, delivered,
    expected, writes, outcome

Mapper == INSTANCE CommandMappings WITH scheduled <- mapped
Menu == INSTANCE Menus WITH registered <- subsystems
Terminal == INSTANCE TerminalSerial
Server == INSTANCE TcpServer WITH open <- descriptors

ASSUME MapperAssumption ==
    Mapper!RequiresAssumption /\ Mapper!MappingAssumption /\ Mapper!FrameAssumption
ASSUME MenuAssumption == Menu!MenusAssumption
ASSUME TerminalAssumption ==
    /\ MAX_LINE_LENGTH \in Nat /\ MaxTyped \in Nat
    /\ nullptr \notin {"motor", "can", "all", "help", "failed"} \union Terminal!Headers
ASSUME ServerAssumption ==
    Word \in Nat \ {0} /\ MessageLengths \subseteq Nat /\ MaxSent \in Nat

mapperVars == <<commandsToRun, mapping, mapped, disconnected, connected, frame, starts>>
menuVars == <<kind, open, scroll, subsystems, active, passed, previous, firstDrawTime, screen,
              since, fresh>>
terminalVars == <<header, rxBuff, notEmpty, prevCharSpace, currStreamer, members, printed, typed,
                  asked, halted>>
serverVars == <<socketOpened, listening, mainClientDescriptor, descriptors, call, coming, gone,
                delivered, expected, writes, outcome>>
controlVars == <<used, vars, mapperVars, menuVars, terminalVars, serverVars>>

ControlInit ==
    /\ used \in {"registrar", "mapper", "menu", "terminal", "server"}
    /\ Init
    /\ Mapper!Init /\ (used # "mapper" => disconnected)
    /\ Menu!Init /\ (used # "menu" => kind = "tests")
    /\ Terminal!Init /\ (used # "terminal" => header = "error")
    /\ Server!Init

UseRegistrar ==
    /\ used = "registrar" /\ Next
    /\ UNCHANGED <<used, mapperVars, menuVars, terminalVars, serverVars>>

UseMapper ==
    /\ used = "mapper" /\ Mapper!Next
    /\ UNCHANGED <<used, vars, menuVars, terminalVars, serverVars>>

UseMenu ==
    /\ used = "menu" /\ Menu!Next
    /\ UNCHANGED <<used, vars, mapperVars, terminalVars, serverVars>>

UseTerminal ==
    /\ used = "terminal" /\ Terminal!Next
    /\ UNCHANGED <<used, vars, mapperVars, menuVars, serverVars>>

UseServer ==
    /\ used = "server" /\ Server!Next
    /\ UNCHANGED <<used, vars, mapperVars, menuVars, terminalVars>>

ControlNext == UseRegistrar \/ UseMapper \/ UseMenu \/ UseTerminal \/ UseServer

ControlSpec == ControlInit /\ [][ControlNext]_controlVars

(* A command runs only as long as one of its mappings wants it, and a key
   that is held starts the commands as often as its mapping may. *)
MappingsObeyed == Mapper!NothingLeftRunning /\ Mapper!StartsBounded

(* What is held when the remote is found again runs again. *)
HeldResumes == Mapper!HeldResumes

(* The screen shows the cursor and what is so when the menu is polled. *)
MenusShow == used = "menu" => Menu!MenusShow

(* OK acts on the marked line. *)
OKActsOnMarked == Menu!OKActsOnMarked

(* The terminal does what a line says, and the clients of the server get the
   messages that are written to them, as it gets theirs, whole and in order. *)
LinesCarried ==
    /\ used = "terminal" => Terminal!TerminalObeys
    /\ used = "server" => Server!ClientsGetMessages /\ Server!ReturnsWholeMessages

-----------------------------------------------------------------------------
CONSTANTS m1, m2, m3, m4, a, b

MCRequires == (m1 :> {1}) @@ (m2 :> {2}) @@ (m3 :> {2, 3}) @@ (m4 :> {1})

Mapping(kindOf, rms, cmds, ends, maxTimes) ==
    [kind |-> kindOf, rms |-> rms, cmds |-> cmds, ends |-> ends, maxTimes |-> maxTimes]

Shown(left, right, keys, negKeys, mouse) ==
    [lSwitch |-> left, rSwitch |-> right, keys |-> keys, negKeys |-> negKeys, mouse |-> mouse]

MCMappings == <<
    Mapping("hold", Shown("UNKNOWN", "UNKNOWN", {a}, {b}, {}), <<m1, m2>>, TRUE, 0),
    Mapping("repeat", Shown("UNKNOWN", "UNKNOWN", {b}, {}, {}), <<m2, m3>>, TRUE, 2),
    Mapping("toggle", Shown("UP", "UNKNOWN", {}, {b}, {}), <<m1, nullptr>>, TRUE, 0),
    Mapping("press", Shown("UNKNOWN", "UNKNOWN", {}, {}, {"left"}), <<m4>>, TRUE, 0)>>

MCFrames ==
    {Shown(l, "MID", keys, {}, {}) : l \in {"UP", "DOWN"}, keys \in SUBSET {a, b}}
    \union {Shown("UP", "MID", {a}, {}, {"left"}), Shown("DOWN", "MID", {}, {}, {"left"}),
            Shown("UNKNOWN", "UNKNOWN", {}, {}, {})}
=============================================================================
