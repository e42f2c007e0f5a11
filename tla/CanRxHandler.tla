---------------------------- MODULE CanRxHandler ----------------------------
(***************************************************************************)
(* tap::can::CanRxHandler and the listeners that attach to it, for the two *)
(* buses and their two stores each.  The queue in front of it, filled by   *)
(* the receive interrupt, is modm's and external.                          *)
(***************************************************************************)
EXTENDS Integers, SequencesExt

CONSTANTS
    Listeners,
    CanIdentifier, \* of each listener
    CanBus,        \* the bus of each listener, 1 or 2
    Messages,      \* records of bus, identifier and extended
    QueueSize      \* bound: messages modm keeps for a bus

Buses == {1, 2}

isDjiCanId(id) == id \in 513 .. 520   \* 0x201 .. 0x208
isRevCanId(id) == id \in 1 .. 8

CAN_BINS == 8
binIndexForCanId(id) == id % CAN_BINS

ASSUME ListenerAssumption ==
    \A l \in Listeners : CanIdentifier[l] \in Nat /\ CanBus[l] \in Buses
ASSUME MessageAssumption ==
    \A m \in Messages :
        m.bus \in Buses /\ m.identifier \in Nat /\ m.extended \in BOOLEAN
ASSUME QueueAssumption == QueueSize \in Nat \ {0}

VARIABLES
    store,     \* for each bus, kind of identifier and bin, the chain of listeners
    alive,     \* listeners constructed and not destructed
    queue,     \* external: what the receive interrupt left for each bus
    processed  \* history: <<listener, message>> of processMessage() in the last poll

vars == <<store, alive, queue, processed>>

Init ==
    /\ store = [bus \in Buses |->
                   [kind \in {"dji", "rev"} |-> [bin \in 0 .. CAN_BINS - 1 |-> <<>>]]]
    /\ alive = {}
    /\ queue = [bus \in Buses |-> <<>>]
    /\ processed = {}

Construct(l) ==
    /\ l \notin alive
    /\ alive' = alive \union {l}
    /\ UNCHANGED <<store, queue, processed>>

(* The chain of a listener in the store of its bus, or none. *)
Kind(l) == IF isRevCanId(CanIdentifier[l]) THEN "rev" ELSE "dji"
Stored(l) == isRevCanId(CanIdentifier[l]) \/ isDjiCanId(CanIdentifier[l])
Bin(l) == binIndexForCanId(CanIdentifier[l])
Chain(l) == store[CanBus[l]][Kind(l)][Bin(l)]

SameIdentifier(l) == {k \in DOMAIN Chain(l) : CanIdentifier[Chain(l)[k]] = CanIdentifier[l]}

(* Mutant: a listener that overloads another one is chained all the same. *)
attachAlways(l) ==
    /\ l \in alive
    /\ store' = IF Stored(l)
                THEN [store EXCEPT ![CanBus[l]][Kind(l)][Bin(l)] = Append(@, l)]
                ELSE store
    /\ UNCHANGED <<alive, queue, processed>>

attachReceiveHandler(l) ==
    /\ l \in alive
    /\ store' = IF Stored(l) /\ SameIdentifier(l) = {}
                THEN [store EXCEPT ![CanBus[l]][Kind(l)][Bin(l)] = Append(@, l)]
                ELSE store
    /\ UNCHANGED <<alive, queue, processed>>

(***************************************************************************)
(* The destructor asks for the removal of its identifier, whether it was   *)
(* attached or not.  Within one store no two identifiers that are accepted *)
(* have the same bin, so the chain has at most one listener and the walk   *)
(* behind its head, which does not advance, is never taken.                *)
(***************************************************************************)
Destruct(l) ==
    /\ l \in alive
    /\ alive' = alive \ {l}
    /\ store' = IF Stored(l) /\ SameIdentifier(l) # {}
                THEN [store EXCEPT ![CanBus[l]][Kind(l)][Bin(l)] = Tail(@)]
                ELSE store
    /\ UNCHANGED <<queue, processed>>

(* External: the interrupt, a message is lost if the queue is full. *)
Receive(m) ==
    /\ queue' = [queue EXCEPT ![m.bus] = IF Len(@) < QueueSize THEN Append(@, m) ELSE @]
    /\ UNCHANGED <<store, alive, processed>>

(* Mutant: extended identifiers are looked up as they are, in the bins of  *)
(* the other store.                                                        *)
processInDjiStore(m) ==
    LET chain == store[m.bus]["dji"][binIndexForCanId(m.identifier)] IN
    {<<chain[k], m>> : k \in {k \in DOMAIN chain : CanIdentifier[chain[k]] = m.identifier}}

(* An extended identifier is compared by its bin. *)
processReceivedCanData(m) ==
    LET bin == binIndexForCanId(m.identifier)
        chain == store[m.bus][IF m.extended THEN "rev" ELSE "dji"][bin]
        wanted == IF m.extended THEN bin ELSE m.identifier IN
    {<<chain[k], m>> : k \in {k \in DOMAIN chain : CanIdentifier[chain[k]] = wanted}}

(* One message of each bus. *)
pollCanData ==
    /\ processed' = UNION {IF queue[bus] = <<>> THEN {}
                           ELSE processReceivedCanData(Head(queue[bus])) : bus \in Buses}
    /\ queue' = [bus \in Buses |-> IF queue[bus] = <<>> THEN <<>> ELSE Tail(queue[bus])]
    /\ UNCHANGED <<store, alive>>

Next ==
    \/ \E l \in Listeners : Construct(l) \/ attachReceiveHandler(l) \/ Destruct(l)
    \/ \E m \in Messages : Receive(m)
    \/ pollCanData

Spec == Init /\ [][Next]_vars

-----------------------------------------------------------------------------
Attached(l) == l \in Range(Chain(l))

(* m is for l: the same bus, the same kind of identifier and the same one. *)
For(l, m) ==
    /\ m.bus = CanBus[l]
    /\ m.identifier = CanIdentifier[l]
    /\ m.extended = isRevCanId(CanIdentifier[l])

(***************************************************************************)
(* The stores hold pointers: whichever listeners were constructed with one *)
(* identifier, attached, refused and destructed, and in whatever order,    *)
(* what a message finds in a store is an object that still exists.         *)
(***************************************************************************)
NoDanglingListener ==
    \A bus \in Buses, kind \in {"dji", "rev"} : \A bin \in DOMAIN store[bus][kind] :
        Range(store[bus][kind][bin]) \subseteq alive

(***************************************************************************)
(* A poll hands a message to the attached listener it is for and to nobody *)
(* else.  The listener of REV identifier 8, whose bin is 0, gets nothing.  *)
(***************************************************************************)
ProcessedByItsListener ==
    [][pollCanData =>
          \A l \in Listeners, bus \in Buses :
              queue[bus] # <<>> =>
                  (<<l, Head(queue[bus])>> \in processed'
                       <=> /\ Attached(l)
                           /\ For(l, Head(queue[bus]))
                           /\ CanIdentifier[l] # 8)]_vars

(***************************************************************************)
(* can_rx_handler.hpp:136-138 says of the removal of a listener that is    *)
(* not in the handler that its state "will not change".                    *)
(***************************************************************************)
RemovesItselfOnly ==
    [][\A l \in Listeners : l \in alive' /\ Attached(l) => Attached(l)']_vars
=============================================================================
