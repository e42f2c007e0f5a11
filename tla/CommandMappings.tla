-------------------------- MODULE CommandMappings --------------------------
(***************************************************************************)
(* tap::control::CommandMapper and its four kinds of mapping, with the     *)
(* part of the scheduler they use.  Remote::read() calls the mapper in the *)
(* same thread as CommandScheduler::run(), with a whole frame or, when the *)
(* remote is lost, with nothing pressed; so one call is one step.          *)
(***************************************************************************)
EXTENDS Integers, SequencesExt

CONSTANTS
    Commands,
    Requires,     \* Command::getRequirementsBitwise()
    AlwaysReady,  \* commands whose isReady() is always true
    Mappings,     \* sequence of the mappings, in the order of addMap()
    Frames,       \* what the remote may show
    MaxStarts,    \* bound: starts of one command that are told apart
    nullptr

-----------------------------------------------------------------------------
(***************************************************************************)
(* tap::control::RemoteMapState: what a mapping asks of the remote, and    *)
(* what the remote shows now.  A key bitmap is the set of its keys, and    *)
(* the mouse buttons are a set too.                                        *)
(***************************************************************************)
NoInput == [lSwitch |-> "UNKNOWN", rSwitch |-> "UNKNOWN",
            keys |-> {}, negKeys |-> {}, mouse |-> {}]

(* Keys that are neg keys already are not taken, none of them. *)
initKeys(state, keys) ==
    IF keys # {} /\ keys \cap state.negKeys = {}
    THEN [state EXCEPT !.keys = keys]
    ELSE state

initNegKeys(state, negKeys) ==
    IF negKeys # {} /\ negKeys \cap state.keys = {}
    THEN [state EXCEPT !.negKeys = negKeys]
    ELSE state

(* The constructor that takes everything, of which the others are cases. *)
MapState(left, right, keys, negKeys, mouse) ==
    LET switches == [NoInput EXCEPT !.lSwitch = left, !.rSwitch = right] IN
    [initNegKeys(initKeys(switches, keys), negKeys) EXCEPT !.mouse = mouse]

stateSubsetOf(state, other) ==
    /\ state.rSwitch \in {"UNKNOWN", other.rSwitch}
    /\ state.lSwitch \in {"UNKNOWN", other.lSwitch}
    /\ state.keys \subseteq other.keys
    /\ state.mouse \subseteq other.mouse

negKeysSubset(state, other) == state.negKeys \subseteq other.keys

getNegKeysUsed(state) == state.negKeys # {}

-----------------------------------------------------------------------------
RequiresAssumption ==
    \A c \in Commands : IsFiniteSet(Requires[c]) /\ Requires[c] # {}
MappingAssumption ==
    /\ Mappings \in Seq(Range(Mappings))
    /\ \A i \in DOMAIN Mappings :
        /\ Mappings[i].kind \in {"hold", "repeat", "press", "toggle"}
        /\ Mappings[i].cmds \in Seq(Commands \union {nullptr})
        /\ Mappings[i].ends \in BOOLEAN /\ Mappings[i].maxTimes \in Nat \union {-1}
        /\ LET rms == Mappings[i].rms
           IN  rms = MapState(rms.lSwitch, rms.rSwitch, rms.keys, rms.negKeys, rms.mouse)
FrameAssumption == NoInput \in Frames

VARIABLES
    commandsToRun, \* numbers of the mappings added
    mapping,       \* for each mapping: held (commandScheduled, held, pressed),
                   \*   toggled and rescheduleCounts
    scheduled,     \* commands in the scheduler
    disconnected,  \* safeDisconnected() of the scheduler
    connected,     \* Remote::isConnected()
    frame,         \* what the mapper was called with last
    starts         \* history: for each command of each mapping, how often it
                   \*   was added since the mapping was not triggered last

vars == <<commandsToRun, mapping, scheduled, disconnected, connected, frame, starts>>

(* std::remove_if without erase: what it leaves behind the commands it     *)
(* keeps, in their old order, is the old tail of the vector.               *)
mappedCommands(i) ==
    LET cmds == Mappings[i].cmds
        kept == SelectSeq(cmds, LAMBDA c : c # nullptr) IN
    [k \in DOMAIN cmds |-> IF k <= Len(kept) THEN kept[k] ELSE cmds[k]]

Fresh(i) == [held |-> FALSE, toggled |-> FALSE,
             counts |-> [k \in DOMAIN Mappings[i].cmds |-> 0]]

Init ==
    /\ commandsToRun = <<>>
    /\ mapping = [i \in DOMAIN Mappings |-> Fresh(i)]
    /\ scheduled = {}
    /\ disconnected \in BOOLEAN
    /\ connected = FALSE
    /\ frame = NoInput
    /\ starts = [i \in DOMAIN Mappings |-> Fresh(i).counts]

-----------------------------------------------------------------------------
(* The scheduler, for the mappings.                                        *)

Conflict(c, d) == Requires[c] \cap Requires[d] # {}

Accepted(c, ready) == ~disconnected /\ c # nullptr /\ c \in ready

addCommand(sched, c, ready) ==
    IF Accepted(c, ready)
    THEN {d \in sched : ~Conflict(c, d)} \union {c}
    ELSE sched

-----------------------------------------------------------------------------
(* executeCommandMapping() works on a record of the scheduled commands,    *)
(* the state of the mapping and its starts.                                *)

Start(w, i, k, ready) ==
    [w EXCEPT
        !.sched = addCommand(@, mappedCommands(i)[k], ready),
        !.starts[k] = IF Accepted(mappedCommands(i)[k], ready) /\ @ < MaxStarts
                      THEN @ + 1 ELSE @]

addCommands(w, i, ready) ==
    LET after[k \in 0 .. Len(Mappings[i].cmds)] ==
            IF k = 0 THEN w ELSE Start(after[k - 1], i, k, ready)
    IN  after[Len(Mappings[i].cmds)]

removeCommands(w, i) == [w EXCEPT !.sched = @ \ Range(mappedCommands(i))]

noCommandsScheduled(w, i) == w.sched \cap Range(mappedCommands(i)) = {}

NegKeysPressed(i, curr) ==
    getNegKeysUsed(Mappings[i].rms) /\ negKeysSubset(Mappings[i].rms, curr)

mappingSubset(i, curr) == stateSubsetOf(Mappings[i].rms, curr)

Triggered(i, curr) == mappingSubset(i, curr) /\ ~NegKeysPressed(i, curr)

Flagged(w, held, toggled) ==
    [w EXCEPT !.own = [held |-> held, toggled |-> toggled, counts |-> @.counts]]

Held(w, held) == Flagged(w, held, w.own.toggled)

hold(w, i, curr, ready) ==
    IF Triggered(i, curr)
    THEN IF w.own.held THEN w
         ELSE addCommands(Held(w, TRUE), i, ready)
    ELSE IF w.own.held THEN removeCommands(Held(w, FALSE), i)
         ELSE w

(* Mutant: one time too many. *)
okToScheduleOnceMore(w, i, k) ==
    Mappings[i].maxTimes = -1 \/ w.own.counts[k] <= Mappings[i].maxTimes

okToScheduleCommand(w, i, k) ==
    Mappings[i].maxTimes = -1 \/ w.own.counts[k] < Mappings[i].maxTimes

(* The count goes up whether the scheduler accepted the command or not.    *)
Repeat(w, i, k, ready) ==
    IF mappedCommands(i)[k] \notin w.sched /\ okToScheduleCommand(w, i, k)
    THEN [Start(w, i, k, ready) EXCEPT
             !.own.counts[k] = IF Mappings[i].maxTimes = -1 THEN @ ELSE @ + 1]
    ELSE w

repeatCommands(w, i, ready) ==
    LET after[k \in 0 .. Len(Mappings[i].cmds)] ==
            IF k = 0 THEN w ELSE Repeat(after[k - 1], i, k, ready)
    IN  after[Len(Mappings[i].cmds)]

holdRepeat(w, i, curr, ready) ==
    IF Triggered(i, curr)
    THEN Held(repeatCommands(w, i, ready), TRUE)
    ELSE IF w.own.held
    THEN [(IF Mappings[i].ends THEN removeCommands(w, i) ELSE w)
             EXCEPT !.own = Fresh(i)]
    ELSE w

press(w, i, curr, ready) ==
    IF Triggered(i, curr)
    THEN IF w.own.held THEN w
         ELSE addCommands(Held(w, TRUE), i, ready)
    ELSE Held(w, FALSE)

(* Commands that have all finished untoggle the mapping; with the keys     *)
(* still down that same call adds them again.                              *)
Untoggled(w, i) ==
    IF noCommandsScheduled(w, i) /\ w.own.toggled THEN Flagged(w, FALSE, FALSE) ELSE w

(* Mutant: the neg keys end nothing. *)
toggleKeeping(w, i, curr, ready) ==
    LET v == Untoggled(w, i) IN
    IF NegKeysPressed(i, curr) THEN Flagged(v, FALSE, FALSE)
    ELSE IF ~mappingSubset(i, curr) THEN Held(v, FALSE)
    ELSE IF v.own.held THEN v
    ELSE IF v.own.toggled THEN removeCommands(Flagged(v, TRUE, FALSE), i)
    ELSE addCommands(Flagged(v, TRUE, TRUE), i, ready)

toggle(w, i, curr, ready) ==
    LET v == Untoggled(w, i)
        off == Flagged(v, FALSE, FALSE) IN
    IF NegKeysPressed(i, curr)
    THEN IF v.own.toggled THEN removeCommands(off, i) ELSE off
    ELSE IF ~mappingSubset(i, curr) THEN Held(v, FALSE)
    ELSE IF v.own.held THEN v
    ELSE IF v.own.toggled THEN removeCommands(Flagged(v, TRUE, FALSE), i)
    ELSE addCommands(Flagged(v, TRUE, TRUE), i, ready)

executeCommandMapping(w, i, curr, ready) ==
    CASE Mappings[i].kind = "hold" -> hold(w, i, curr, ready)
      [] Mappings[i].kind = "repeat" -> holdRepeat(w, i, curr, ready)
      [] Mappings[i].kind = "press" -> press(w, i, curr, ready)
      [] Mappings[i].kind = "toggle" -> toggle(w, i, curr, ready)

-----------------------------------------------------------------------------
Execute(all, i, curr, ready) ==
    LET own == [sched |-> all.sched, own |-> all.mapping[i],
                starts |-> IF Triggered(i, curr) THEN all.starts[i] ELSE Fresh(i).counts]
        w == executeCommandMapping(own, i, curr, ready)
    IN  [sched |-> w.sched,
         mapping |-> [all.mapping EXCEPT ![i] = w.own],
         starts |-> [all.starts EXCEPT ![i] = w.starts]]

(* What all the mappings make of curr, in the order they were added.       *)
executeAll(all, curr, ready) ==
    LET after[n \in 0 .. Len(commandsToRun)] ==
            IF n = 0 THEN all ELSE Execute(after[n - 1], commandsToRun[n], curr, ready)
    IN  after[Len(commandsToRun)]

handleKeyStateChange(curr, ready) ==
    /\ \E after \in {executeAll([sched |-> scheduled, mapping |-> mapping, starts |-> starts],
                               curr, ready)} :
          /\ scheduled' = after.sched
          /\ mapping' = after.mapping
          /\ starts' = after.starts
    /\ frame' = curr

addMap ==
    /\ Len(commandsToRun) < Len(Mappings)
    /\ commandsToRun' = Append(commandsToRun, Len(commandsToRun) + 1)
    /\ UNCHANGED <<mapping, scheduled, disconnected, connected, frame, starts>>

(* Mutant: a lost remote does not tell the mapper. *)
resetSilently ==
    /\ connected' = FALSE
    /\ frame' = NoInput
    /\ UNCHANGED <<commandsToRun, mapping, scheduled, disconnected, starts>>

(* Remote::read() finds that nothing came for too long. *)
reset ==
    /\ connected' = FALSE
    /\ handleKeyStateChange(NoInput, {})
    /\ UNCHANGED <<commandsToRun, disconnected>>

(* Remote::read() has a whole frame.  A read() that comes after the remote *)
(* was lost resets once more before it takes the first byte.               *)
parseBuffer ==
    /\ connected' = TRUE
    /\ \E curr \in Frames, others \in SUBSET (Commands \ AlwaysReady) :
          handleKeyStateChange(curr, AlwaysReady \union others)
    /\ UNCHANGED <<commandsToRun, disconnected>>

(* CommandScheduler::run(): commands finish, or all of them are ended. *)
run ==
    /\ \E finished \in SUBSET scheduled :
          scheduled' = IF disconnected THEN {} ELSE scheduled \ finished
    /\ UNCHANGED <<commandsToRun, mapping, disconnected, connected, frame, starts>>

SafetyChanges ==
    /\ disconnected' = ~disconnected
    /\ UNCHANGED <<commandsToRun, mapping, scheduled, connected, frame, starts>>

Next == addMap \/ reset \/ parseBuffer \/ run \/ SafetyChanges

Spec == Init /\ [][Next]_vars

-----------------------------------------------------------------------------
Added == Range(commandsToRun)

(* The mappings that want their commands to run. *)
On(i) ==
    \/ Mappings[i].kind = "press"
    \/ Mappings[i].kind = "repeat" /\ ~Mappings[i].ends
    \/ Mappings[i].kind \in {"hold", "repeat"} /\ Triggered(i, frame)
    \/ /\ Mappings[i].kind = "toggle"
       /\ mapping[i].toggled
       /\ ~NegKeysPressed(i, frame)

(***************************************************************************)
(* hold_command_mapping.hpp:34-39, toggle_command_mapping.hpp:32-37: a     *)
(* command runs only as long as one of its mappings wants it.  Whatever    *)
(* the mappings share and however the frames alternate, keys that are let  *)
(* go, neg keys that are pressed and a lost remote leave no command behind *)
(* that nothing can end any more.                                          *)
(***************************************************************************)
NothingLeftRunning ==
    \A c \in scheduled : \E i \in Added : On(i) /\ c \in Range(mappedCommands(i))

(***************************************************************************)
(* A key held over many frames starts the commands once (hold, press), or  *)
(* as often as the repeat mapping is allowed to, also when commands are    *)
(* evicted or finish meanwhile.                                            *)
(***************************************************************************)
StartsBounded ==
    \A i \in Added : \A k \in DOMAIN starts[i] :
        /\ Mappings[i].kind \in {"hold", "press"} => starts[i][k] <= 1
        /\ Mappings[i].kind = "repeat" /\ Mappings[i].maxTimes # -1
               => starts[i][k] <= Mappings[i].maxTimes

Toggled ==
    UNION {Range(mappedCommands(i)) : i \in {j \in Added : Mappings[j].kind = "toggle"}}

(***************************************************************************)
(* remote.cpp:183-185: the reset is there so that commands do not stay off *)
(* "when remote reconnects even if key/switch state should do otherwise".  *)
(* With the first frame after a loss every mapping that asks for what is   *)
(* still held has its commands running again, or others that took their    *)
(* subsystems.  A toggle mapping of the same command may just have         *)
(* switched it off: if run() did not end it in between, the frame is the   *)
(* next press for the toggle.                                              *)
(***************************************************************************)
HeldResumes ==
    [][~connected /\ connected' /\ ~disconnected =>
          \A i \in Added :
          \A c \in (Range(mappedCommands(i)) \cap AlwaysReady) \ Toggled :
              /\ Mappings[i].kind \in {"hold", "press", "repeat"}
              /\ Triggered(i, frame')
              => \E d \in scheduled' : Conflict(c, d)]_vars
=============================================================================
