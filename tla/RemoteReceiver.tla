--------------------------- MODULE RemoteReceiver ---------------------------
(***************************************************************************)
(* tap::communication::serial::Remote::read(): how the bytes of the        *)
(* receiver become frames, and how the two timeouts find the start of a    *)
(* frame and the loss of the remote.  The bytes come by interrupt, also    *)
(* while read() is running: it is cut where it has decided on the          *)
(* disconnect timeout and, perhaps, discarded what was there.              *)
(*                                                                         *)
(* Time is counted in ticks.  The radio sends a frame every FramePeriod    *)
(* ticks, a byte per tick, and the main loop calls read() often enough     *)
(* that MaxStall ticks never pass between two of them.                     *)
(***************************************************************************)
EXTENDS Integers, SequencesExt

CONSTANTS
    REMOTE_BUF_LEN,
    REMOTE_READ_TIMEOUT,
    REMOTE_DISCONNECT_TIMEOUT,
    FramePeriod,
    MaxStall,
    UartSize    \* bytes that the driver of the port keeps

(***************************************************************************)
(* The gap between two frames has room for the read timeout and for a call *)
(* of read() before and after it.  With one tick less, frames get mixed.   *)
(***************************************************************************)
TimingAssumption ==
    /\ REMOTE_BUF_LEN \in Nat \ {0}
    /\ MaxStall \in Nat \ {0}
    /\ {REMOTE_READ_TIMEOUT, REMOTE_DISCONNECT_TIMEOUT, FramePeriod} \subseteq Nat
    /\ FramePeriod - REMOTE_BUF_LEN >= REMOTE_READ_TIMEOUT + 2 * MaxStall - 1
    /\ REMOTE_DISCONNECT_TIMEOUT > FramePeriod
    /\ UartSize \in Nat \ {0}

VARIABLES
    phase,      \* ticks since the current frame began
    frame,      \* parity of the current frame
    radio,      \* the radio sends this frame
    uart,       \* external: bytes received and not read, each its frame and place
    rxBuffer,
    idle,       \* now - lastRead, up to one more than the longest timeout
    connected,
    pc,         \* "idle", or "reading" behind the disconnect timeout
    stall,      \* ticks since the last read()
    silence,    \* history: ticks since the last byte, up to SilenceBound
    parsed      \* history: the last buffer that parseBuffer() was called with

vars == <<phase, frame, radio, uart, rxBuffer, idle, connected, pc, stall, silence, parsed>>

SilenceBound == REMOTE_DISCONNECT_TIMEOUT + 3 * MaxStall

Init ==
    /\ phase \in 0 .. FramePeriod - 1
    /\ frame = 0
    /\ radio = FALSE
    /\ uart = <<>>
    /\ rxBuffer = <<>>
    /\ idle = 0
    /\ connected = FALSE
    /\ pc = "idle"
    /\ stall = 0
    /\ silence = 0
    /\ parsed = <<>>

Capped(n, bound) == IF n < bound THEN n + 1 ELSE n

(* External: a tick, with a byte of the radio's frame unless it is lost.   *)
Tick ==
    /\ stall < MaxStall
    /\ stall' = stall + 1
    /\ idle' = Capped(idle, REMOTE_DISCONNECT_TIMEOUT + 1)
    /\ phase' = (phase + 1) % FramePeriod
    /\ IF phase' = 0
       THEN frame' = 1 - frame /\ radio' \in BOOLEAN
       ELSE UNCHANGED <<frame, radio>>
    /\ \E arrives \in BOOLEAN :
          /\ arrives => radio' /\ phase' < REMOTE_BUF_LEN
          /\ uart' = IF arrives /\ Len(uart) < UartSize
                     THEN Append(uart, <<frame', phase'>>) ELSE uart
          /\ silence' = IF arrives THEN 0 ELSE Capped(silence, SilenceBound)
    /\ UNCHANGED <<rxBuffer, connected, pc, parsed>>

(* Mutant: the connection state is left as it was. *)
ResetConnected ==
    /\ pc = "idle"
    /\ pc' = "reading"
    /\ IF idle > REMOTE_DISCONNECT_TIMEOUT
       THEN rxBuffer' = <<>> /\ uart' = <<>>
       ELSE UNCHANGED <<rxBuffer, uart>>
    /\ UNCHANGED <<phase, frame, radio, idle, connected, stall, silence, parsed>>

(* reset() also tells the command mapper, see CommandMappings. *)
CheckDisconnect ==
    /\ pc = "idle"
    /\ pc' = "reading"
    /\ IF idle > REMOTE_DISCONNECT_TIMEOUT
       THEN connected' = FALSE /\ rxBuffer' = <<>> /\ uart' = <<>>
       ELSE UNCHANGED <<connected, rxBuffer, uart>>
    /\ UNCHANGED <<phase, frame, radio, idle, stall, silence, parsed>>

(* Mutant: the rest of a frame is waited for without end.                  *)
NeverTimedOut(last) == FALSE

ReadTimedOut(last) == last > REMOTE_READ_TIMEOUT

(***************************************************************************)
(* The loop takes bytes as long as there are any and the buffer has room;  *)
(* a full buffer is emptied below, with all that the port still holds.     *)
(***************************************************************************)
ReadBytes ==
    LET room == REMOTE_BUF_LEN - Len(rxBuffer)
        taken == IF Len(uart) < room THEN Len(uart) ELSE room
        last == IF taken > 0 THEN 0 ELSE idle
        buffer == IF ReadTimedOut(last) THEN <<>>
                  ELSE rxBuffer \o SubSeq(uart, 1, taken)
        full == Len(buffer) >= REMOTE_BUF_LEN IN
    /\ pc = "reading"
    /\ pc' = "idle"
    /\ idle' = last
    /\ connected' = (connected \/ full)
    /\ parsed' = IF full THEN buffer ELSE parsed
    /\ rxBuffer' = IF full THEN <<>> ELSE buffer
    /\ uart' = IF full \/ ReadTimedOut(last) THEN <<>>
               ELSE SubSeq(uart, taken + 1, Len(uart))
    /\ stall' = 0
    /\ UNCHANGED <<phase, frame, radio, silence>>

Next == Tick \/ CheckDisconnect \/ ReadBytes

Spec == Init /\ [][Next]_vars

-----------------------------------------------------------------------------
(***************************************************************************)
(* Nothing in a frame marks its beginning: a byte that is lost, or         *)
(* discarded by reset(), must not shift the frames after it.  What is      *)
(* parsed is a whole frame of the radio, and its switches and keys are     *)
(* what the driver set.                                                    *)
(***************************************************************************)
ParsesWholeFrames ==
    parsed # <<>> =>
        \E f \in {0, 1} : parsed = [k \in 1 .. REMOTE_BUF_LEN |-> <<f, k - 1>>]

(***************************************************************************)
(* remote.hpp, REMOTE_DISCONNECT_TIMEOUT: when no byte has come for that   *)
(* long, and read() has had the time to see it, the remote is not          *)
(* connected, although a byte may have waited in the port before.          *)
(***************************************************************************)
SilenceDisconnects == silence = SilenceBound => ~connected
=============================================================================
