------------------------- MODULE MCControl_proofs -------------------------
(***************************************************************************)
(* Proofs about the ways to commands: the registrar, for any number of     *)
(* commands, slots and schedulers, the mapper, for any mappings, the       *)
(* menus, for any lists and any number of lines, the server, for any       *)
(* clients and messages, and the terminal, for any length of a line.       *)
(***************************************************************************)
EXTENDS MCControl, Sequences, FiniteSetTheorems, SequenceTheorems, TLAPS

(* No slot is taken at or above maxCommandIndex, where the iterators stop. *)
Below == \A i \in Index : registrar[i] # nullptr => i < maxCommandIndex

(* A scheduler's bits are the slots of the commands that it runs. *)
BitsExact ==
    \A s \in Scheduler :
        /\ \A c \in scheduled[s] : Live(c)
        /\ \A i \in Index : i \in added[s] <=> registrar[i] \in scheduled[s]

IInv == TypeOK /\ IdentifiersUnique /\ Below /\ BitsExact /\ OneMaster

LEMMA InitInv == Init => IInv
<1> SUFFICES ASSUME Init PROVE IInv
  OBVIOUS
<1> USE MaxAssumption, NullAssumption DEF Init, Index, INVALID
<1>1. TypeOK
  <2>1. maxCommandIndex \in 0 .. MAX_COMMAND_COUNT
    OBVIOUS
  <2>2. QED
    BY <2>1 DEF TypeOK
<1>2. IdentifiersUnique
  <2> SUFFICES ASSUME NEW i \in Index, NEW c \in Command
               PROVE  registrar[i] # c /\ globalIdentifier[c] # i
    BY DEF IdentifiersUnique
  <2>1. registrar[i] = nullptr /\ nullptr # c
    OBVIOUS
  <2>2. globalIdentifier[c] = INVALID /\ i \in Nat
    OBVIOUS
  <2>3. QED
    BY <2>1, <2>2
<1>3. Below /\ BitsExact
  BY DEF Below, BitsExact
<1>4. OneMaster
  BY DEF OneMaster
<1>5. QED
  BY <1>1, <1>2, <1>3, <1>4 DEF IInv

(* A command takes a free slot: no bit of it is set in any scheduler. *)
LEMMA ConstructInv ==
    ASSUME IInv, NEW c \in Command, constructCommand(c)
    PROVE  IInv'
<1> PICK i \in Index :
        /\ registrar[i] = nullptr
        /\ maxCommandIndex' = IF i + 1 > maxCommandIndex THEN i + 1 ELSE maxCommandIndex
        /\ registrar' = [registrar EXCEPT ![i] = c]
        /\ globalIdentifier' = [globalIdentifier EXCEPT ![c] = i]
  BY DEF constructCommand, Free
<1> /\ globalIdentifier[c] = INVALID
    /\ UNCHANGED <<asserted, added, scheduled, role, masterSchedulerExists>>
  BY DEF constructCommand, Live, bitmaps, masters
<1> i \in Nat /\ i < MAX_COMMAND_COUNT /\ INVALID \notin Index
  BY MaxAssumption DEF Index, INVALID
<1>1. TypeOK'
  BY MaxAssumption DEF IInv, TypeOK
<1>2. IdentifiersUnique'
  BY NullAssumption DEF IInv, TypeOK, IdentifiersUnique
<1>3. Below'
  BY MaxAssumption DEF IInv, TypeOK, Below, Index
<1>4. BitsExact'
  <2>1. \A s \in Scheduler : c \notin scheduled[s] /\ nullptr \notin scheduled[s]
    BY NullAssumption DEF IInv, TypeOK, BitsExact, Live
  <2>2. \A d \in Command : Live(d) => Live(d)'
    BY DEF IInv, TypeOK, Live
  <2>3. QED
    BY <2>1, <2>2 DEF IInv, TypeOK, BitsExact
<1>5. OneMaster'
  BY DEF IInv, OneMaster
<1>6. QED
  BY <1>1, <1>2, <1>3, <1>4, <1>5 DEF IInv

LEMMA DestructInv ==
    ASSUME IInv, NEW c \in Command, destructCommand(c)
    PROVE  IInv'
<1> DEFINE i == globalIdentifier[c]
<1> /\ i \in Index
    /\ registrar[i] = c
    /\ \A s \in Scheduler : c \notin scheduled[s]
    /\ registrar' = [registrar EXCEPT ![i] = nullptr]
    /\ maxCommandIndex' = IF i = maxCommandIndex - 1
                          THEN maxCommandIndex - 1 ELSE maxCommandIndex
    /\ globalIdentifier' = [globalIdentifier EXCEPT ![c] = INVALID]
    /\ UNCHANGED <<asserted, added, scheduled, role, masterSchedulerExists>>
  BY DEF IInv, TypeOK, IdentifiersUnique, destructCommand, Live, bitmaps, masters
<1> i \in Nat /\ INVALID \notin Index
  BY MaxAssumption DEF Index, INVALID
<1> HIDE DEF i
<1>1. TypeOK'
  <2>1. maxCommandIndex' \in 0 .. MAX_COMMAND_COUNT
    BY MaxAssumption DEF IInv, TypeOK
  <2>2. QED
    BY <2>1 DEF IInv, TypeOK
<1>2. IdentifiersUnique'
  BY NullAssumption DEF IInv, TypeOK, IdentifiersUnique, i
<1>3. Below'
  BY MaxAssumption DEF IInv, TypeOK, Below, Index
<1>4. BitsExact'
  <2>1. \A s \in Scheduler : nullptr \notin scheduled[s] /\ scheduled[s] \subseteq Command
    BY NullAssumption DEF IInv, TypeOK
  <2>2. \A d \in Command \ {c} : Live(d) => Live(d)'
    BY DEF IInv, TypeOK, Live
  <2>3. QED
    BY <2>1, <2>2 DEF IInv, TypeOK, BitsExact
<1>5. OneMaster'
  BY DEF IInv, OneMaster
<1>6. QED
  BY <1>1, <1>2, <1>3, <1>4, <1>5 DEF IInv

LEMMA SchedulerInv ==
    ASSUME IInv, NEW s \in Scheduler,
           \/ \E master \in BOOLEAN : constructScheduler(s, master)
           \/ destructScheduler(s)
    PROVE  IInv'
<1>1. UNCHANGED <<registrar, maxCommandIndex, globalIdentifier, asserted>>
  BY DEF constructScheduler, destructScheduler, commands
<1>2. TypeOK'
  BY <1>1 DEF IInv, TypeOK, constructScheduler, destructScheduler, bitmaps
<1>3. IdentifiersUnique' /\ Below'
  BY <1>1 DEF IInv, IdentifiersUnique, Below
<1>4. BitsExact'
  BY <1>1 DEF IInv, TypeOK, BitsExact, Live, constructScheduler, destructScheduler, bitmaps
<1>5. OneMaster'
  <2>1. ASSUME NEW master \in BOOLEAN, constructScheduler(s, master) PROVE OneMaster'
    BY <2>1 DEF IInv, TypeOK, OneMaster, constructScheduler
  <2>2. ASSUME destructScheduler(s) PROVE OneMaster'
    BY <2>2 DEF IInv, TypeOK, OneMaster, destructScheduler
  <2>3. QED
    BY <2>1, <2>2
<1>6. QED
  BY <1>2, <1>3, <1>4, <1>5 DEF IInv

(* addCommand and removeCommand set and clear the bit of the command's slot. *)
LEMMA BitInv ==
    ASSUME IInv, NEW s \in Scheduler, NEW c \in Command,
           addCommand(s, c) \/ removeCommand(s, c)
    PROVE  IInv'
<1> UNCHANGED <<registrar, maxCommandIndex, globalIdentifier, asserted, role,
                masterSchedulerExists>>
  BY DEF addCommand, removeCommand, commands, masters
<1> globalIdentifier[c] \in Index /\ Live(c)
  BY DEF IInv, TypeOK, Live, addCommand, removeCommand
<1>1. TypeOK'
  BY DEF IInv, TypeOK, addCommand, removeCommand
<1>2. IdentifiersUnique' /\ Below' /\ OneMaster'
  BY DEF IInv, IdentifiersUnique, Below, OneMaster
<1>3. BitsExact'
  <2>1. \A i \in Index : registrar[i] = c <=> globalIdentifier[c] = i
    BY DEF IInv, IdentifiersUnique
  <2>2. CASE addCommand(s, c)
    BY <2>1, <2>2 DEF IInv, TypeOK, BitsExact, Live, addCommand
  <2>3. CASE removeCommand(s, c)
    BY <2>1, <2>3 DEF IInv, TypeOK, BitsExact, Live, removeCommand
  <2>4. QED
    BY <2>2, <2>3
<1>4. QED
  BY <1>1, <1>2, <1>3 DEF IInv

LEMMA NextInv == IInv /\ [Next]_vars => IInv'
<1> SUFFICES ASSUME IInv, [Next]_vars PROVE IInv'
  OBVIOUS
<1>1. ASSUME NEW c \in Command, constructCommand(c) PROVE IInv'
  BY <1>1, ConstructInv
<1>2. ASSUME NEW c \in Command, ConstructAsserts(c) PROVE IInv'
  BY <1>2 DEF ConstructAsserts, IInv, TypeOK, IdentifiersUnique, Below, BitsExact,
              OneMaster, Live, commands, bitmaps, masters
<1>3. ASSUME NEW c \in Command, destructCommand(c) PROVE IInv'
  BY <1>3, DestructInv
<1>4. ASSUME NEW s \in Scheduler,
             \/ \E master \in BOOLEAN : constructScheduler(s, master)
             \/ destructScheduler(s)
      PROVE  IInv'
  BY <1>4, SchedulerInv
<1>5. ASSUME NEW s \in Scheduler, NEW c \in Command,
             addCommand(s, c) \/ removeCommand(s, c)
      PROVE  IInv'
  BY <1>5, BitInv
<1>6. CASE UNCHANGED vars
  BY <1>6 DEF vars, IInv, TypeOK, IdentifiersUnique, Below, BitsExact, OneMaster, Live,
              commands, bitmaps, masters
<1>7. QED
  BY <1>1, <1>2, <1>3, <1>4, <1>5, <1>6 DEF Next

LEMMA Invariance == Spec => []IInv
BY InitInv, NextInv, PTL DEF Spec

-----------------------------------------------------------------------------
(***************************************************************************)
(* However many commands are constructed and destroyed in whichever order, *)
(* two live ones never share a bit of the schedulers' bitmaps.             *)
(***************************************************************************)
THEOREM UniqueIdentifiers == Spec => []IdentifiersUnique
BY Invariance, PTL DEF IInv

(***************************************************************************)
(* The bound maxCommandIndex never hides a scheduled command from the loop *)
(* of its scheduler, and an identifier that is used again never lets it    *)
(* run a command that was not added.                                       *)
(***************************************************************************)
THEOREM IteratorsComplete == Spec => []IteratorsSeeScheduled
<1>1. ASSUME IInv PROVE IteratorsSeeScheduled
  <2> SUFFICES ASSUME NEW s \in Scheduler PROVE Iterated(s) = scheduled[s]
    BY DEF IteratorsSeeScheduled
  <2> added[s] \subseteq Index /\ scheduled[s] \subseteq Command
    BY <1>1 DEF IInv, TypeOK
  <2>1. ASSUME NEW c \in Iterated(s) PROVE c \in scheduled[s]
    BY <1>1 DEF IInv, BitsExact, Iterated
  <2>2. ASSUME NEW c \in scheduled[s] PROVE c \in Iterated(s)
    <3>1. globalIdentifier[c] \in Index
      BY <1>1 DEF IInv, TypeOK, BitsExact, Live
    <3>2. registrar[globalIdentifier[c]] = c /\ c # nullptr
      BY <1>1, <3>1, NullAssumption DEF IInv, IdentifiersUnique
    <3>3. globalIdentifier[c] \in added[s] /\ globalIdentifier[c] < maxCommandIndex
      BY <1>1, <3>1, <3>2 DEF IInv, BitsExact, Below
    <3>4. QED
      BY <3>2, <3>3 DEF Iterated
  <2>3. QED
    BY <2>1, <2>2
<1>2. QED
  BY <1>1, Invariance, PTL

(* The flag in front of the master's constructor tells the truth for ever. *)
THEOREM MasterUnique == Spec => []OneMaster
BY Invariance, PTL DEF IInv

-----------------------------------------------------------------------------
(***************************************************************************)
(* The mapper.  addCommands(), the loop of the repeat mapping and the loop *)
(* over the mappings are recursive functions; what each of them computes   *)
(* is found step by step, and Induction says that the steps reach the end. *)
(***************************************************************************)

(* Induction over the numbers, for a set of them: otherwise its complement below
   some m would have a function to fewer elements that is one to one. *)
LEMMA Induction ==
    ASSUME NEW S, 0 \in S, \A n \in Nat : n \in S => n + 1 \in S
    PROVE  Nat \subseteq S
<1> SUFFICES ASSUME NEW m \in Nat, m \notin S
             PROVE  FALSE
  OBVIOUS
<1> DEFINE B == {n \in 0 .. m : n \notin S}
           C == B \ {m}
           f == [n \in B |-> n - 1]
<1>1. m \in B /\ B \subseteq 0 .. m
  OBVIOUS
<1>2. IsFiniteSet(B)
  <2>1. IsFiniteSet(0 .. m)
    BY FS_Interval
  <2>2. QED
    BY <1>1, <2>1, FS_Subset
<1>3. f \in [B -> C]
  <2> SUFFICES ASSUME NEW n \in B PROVE n - 1 \in C
    OBVIOUS
  <2>1. n \in 1 .. m
    OBVIOUS
  <2>2. n - 1 \notin S
    BY <2>1
  <2> QED
    BY <2>1, <2>2
<1>4. IsFiniteSet(C) /\ Cardinality(C) < Cardinality(B)
  <2> HIDE DEF B
  <2>1. QED
    <3>1. Cardinality(B) \in Nat
      BY <1>2, FS_CardinalityType
    <3>2. IsFiniteSet(B \ {m}) /\ Cardinality(B \ {m}) = Cardinality(B) - 1
      BY <1>1, <1>2, FS_RemoveElement
    <3>3. QED
      BY <3>1, <3>2
<1>5. \E x, y \in B : x # y /\ f[x] = f[y]
  <2> HIDE DEF B, C, f
  <2> QED
    BY <1>2, <1>3, <1>4, FS_PigeonHole
<1>6. QED
  BY <1>5

(* The loop of MappingAddCommands: a sequence of states, one per command. *)
LEMMA Adding ==
    ASSUME NEW w, NEW i, NEW ready, Len(Mappings[i].cmds) \in Nat
    PROVE  \E g : /\ g[0] = w
                  /\ \A k \in 1 .. Len(Mappings[i].cmds) : g[k] = Mapper!Start(g[k - 1], i, k, ready)
                  /\ Mapper!addCommands(w, i, ready) = g[Len(Mappings[i].cmds)]
<1> DEFINE Step(g, n) == [k \in 0 .. n |-> IF k = 0 THEN w ELSE Mapper!Start(g[k - 1], i, k, ready)]
           S == {n \in Nat : \E g : g = Step(g, n)}
           N == Len(Mappings[i].cmds)
           F == CHOOSE g : g = Step(g, N)
<1>1. 0 \in S
  <2> DEFINE g0 == [k \in 0 .. 0 |-> w]
  <2>1. g0 = Step(g0, 0)
    OBVIOUS
  <2>2. QED
    BY <2>1
<1>2. ASSUME NEW n \in Nat, n \in S PROVE n + 1 \in S
  <2>1. PICK g : g = Step(g, n)
    BY <1>2
  <2> DEFINE h == [k \in 0 .. n + 1 |-> IF k <= n THEN g[k] ELSE Mapper!Start(g[n], i, n + 1, ready)]
  <2>2. ASSUME NEW k \in 0 .. n + 1
        PROVE  h[k] = IF k = 0 THEN w ELSE Mapper!Start(h[k - 1], i, k, ready)
    <3>1. CASE k <= n
      <4>1. k \in 0 .. n /\ (k # 0 => k - 1 \in 0 .. n)
        BY <3>1
      <4>2. h[k] = g[k] /\ (k # 0 => h[k - 1] = g[k - 1])
        BY <4>1
      <4>3. g[k] = IF k = 0 THEN w ELSE Mapper!Start(g[k - 1], i, k, ready)
        BY <2>1, <4>1
      <4>4. QED
        BY <4>2, <4>3
    <3>2. CASE k = n + 1
      BY <3>2
    <3>3. QED
      BY <3>1, <3>2
  <2>3. h = Step(h, n + 1)
    <3> HIDE DEF h
    <3>1. h = [k \in 0 .. n + 1 |-> h[k]]
      BY DEF h
    <3>2. QED
      BY <2>2, <3>1
  <2> HIDE DEF h
  <2>4. QED
    BY <2>3
<1>3. N \in S
  <2> HIDE DEF S
  <2> QED BY <1>1, <1>2, Induction
<1>4. F = Step(F, N)
  BY <1>3
<1>5. Mapper!addCommands(w, i, ready) = F[N]
  BY DEF Mapper!addCommands
<1> HIDE DEF F
<1>6. F[0] = w /\ \A k \in 1 .. N : F[k] = Mapper!Start(F[k - 1], i, k, ready)
  BY <1>4
<1>7. QED
  BY <1>5, <1>6

(* The same for the loop of HoldRepeatCommandMapping::executeCommandMapping(). *)
LEMMA Repeating ==
    ASSUME NEW w, NEW i, NEW ready, Len(Mappings[i].cmds) \in Nat
    PROVE  \E g : /\ g[0] = w
                  /\ \A k \in 1 .. Len(Mappings[i].cmds) : g[k] = Mapper!Repeat(g[k - 1], i, k, ready)
                  /\ Mapper!repeatCommands(w, i, ready) = g[Len(Mappings[i].cmds)]
<1> DEFINE Step(g, n) == [k \in 0 .. n |-> IF k = 0 THEN w ELSE Mapper!Repeat(g[k - 1], i, k, ready)]
           S == {n \in Nat : \E g : g = Step(g, n)}
           N == Len(Mappings[i].cmds)
           F == CHOOSE g : g = Step(g, N)
<1>1. 0 \in S
  <2> DEFINE g0 == [k \in 0 .. 0 |-> w]
  <2>1. g0 = Step(g0, 0)
    OBVIOUS
  <2>2. QED
    BY <2>1
<1>2. ASSUME NEW n \in Nat, n \in S PROVE n + 1 \in S
  <2>1. PICK g : g = Step(g, n)
    BY <1>2
  <2> DEFINE h == [k \in 0 .. n + 1 |-> IF k <= n THEN g[k] ELSE Mapper!Repeat(g[n], i, n + 1, ready)]
  <2>2. ASSUME NEW k \in 0 .. n + 1
        PROVE  h[k] = IF k = 0 THEN w ELSE Mapper!Repeat(h[k - 1], i, k, ready)
    <3>1. CASE k <= n
      <4>1. k \in 0 .. n /\ (k # 0 => k - 1 \in 0 .. n)
        BY <3>1
      <4>2. h[k] = g[k] /\ (k # 0 => h[k - 1] = g[k - 1])
        BY <4>1
      <4>3. g[k] = IF k = 0 THEN w ELSE Mapper!Repeat(g[k - 1], i, k, ready)
        BY <2>1, <4>1
      <4>4. QED
        BY <4>2, <4>3
    <3>2. CASE k = n + 1
      BY <3>2
    <3>3. QED
      BY <3>1, <3>2
  <2>3. h = Step(h, n + 1)
    <3> HIDE DEF h
    <3>1. h = [k \in 0 .. n + 1 |-> h[k]]
      BY DEF h
    <3>2. QED
      BY <2>2, <3>1
  <2> HIDE DEF h
  <2>4. QED
    BY <2>3
<1>3. N \in S
  <2> HIDE DEF S
  <2> QED BY <1>1, <1>2, Induction
<1>4. F = Step(F, N)
  BY <1>3
<1>5. Mapper!repeatCommands(w, i, ready) = F[N]
  BY DEF Mapper!repeatCommands
<1> HIDE DEF F
<1>6. F[0] = w /\ \A k \in 1 .. N : F[k] = Mapper!Repeat(F[k - 1], i, k, ready)
  BY <1>4
<1>7. QED
  BY <1>5, <1>6

(* The same for the loop of CommandMapper::handleKeyStateChange(). *)
LEMMA Executing ==
    ASSUME NEW w, NEW curr, NEW ready, Len(commandsToRun) \in Nat
    PROVE  \E g : /\ g[0] = w
                  /\ \A k \in 1 .. Len(commandsToRun) : g[k] = Mapper!Execute(g[k - 1], commandsToRun[k], curr, ready)
                  /\ Mapper!executeAll(w, curr, ready) = g[Len(commandsToRun)]
<1> DEFINE Step(g, n) == [k \in 0 .. n |-> IF k = 0 THEN w ELSE Mapper!Execute(g[k - 1], commandsToRun[k], curr, ready)]
           S == {n \in Nat : \E g : g = Step(g, n)}
           N == Len(commandsToRun)
           F == CHOOSE g : g = Step(g, N)
<1>1. 0 \in S
  <2> DEFINE g0 == [k \in 0 .. 0 |-> w]
  <2>1. g0 = Step(g0, 0)
    OBVIOUS
  <2>2. QED
    BY <2>1
<1>2. ASSUME NEW n \in Nat, n \in S PROVE n + 1 \in S
  <2>1. PICK g : g = Step(g, n)
    BY <1>2
  <2> DEFINE h == [k \in 0 .. n + 1 |-> IF k <= n THEN g[k] ELSE Mapper!Execute(g[n], commandsToRun[n + 1], curr, ready)]
  <2>2. ASSUME NEW k \in 0 .. n + 1
        PROVE  h[k] = IF k = 0 THEN w ELSE Mapper!Execute(h[k - 1], commandsToRun[k], curr, ready)
    <3>1. CASE k <= n
      <4>1. k \in 0 .. n /\ (k # 0 => k - 1 \in 0 .. n)
        BY <3>1
      <4>2. h[k] = g[k] /\ (k # 0 => h[k - 1] = g[k - 1])
        BY <4>1
      <4>3. g[k] = IF k = 0 THEN w ELSE Mapper!Execute(g[k - 1], commandsToRun[k], curr, ready)
        BY <2>1, <4>1
      <4>4. QED
        BY <4>2, <4>3
    <3>2. CASE k = n + 1
      BY <3>2
    <3>3. QED
      BY <3>1, <3>2
  <2>3. h = Step(h, n + 1)
    <3> HIDE DEF h
    <3>1. h = [k \in 0 .. n + 1 |-> h[k]]
      BY DEF h
    <3>2. QED
      BY <2>2, <3>1
  <2> HIDE DEF h
  <2>4. QED
    BY <2>3
<1>3. N \in S
  <2> HIDE DEF S
  <2> QED BY <1>1, <1>2, Induction
<1>4. F = Step(F, N)
  BY <1>3
<1>5. Mapper!executeAll(w, curr, ready) = F[N]
  BY DEF Mapper!executeAll
<1> HIDE DEF F
<1>6. F[0] = w /\ \A k \in 1 .. N : F[k] = Mapper!Execute(F[k - 1], commandsToRun[k], curr, ready)
  BY <1>4
<1>7. QED
  BY <1>5, <1>6

-----------------------------------------------------------------------------
(* What executeCommandMapping() works on. *)
Size(i) == Len(Mappings[i].cmds)
CommandsOf(i) == Mapper!Range(Mapper!mappedCommands(i))

OwnStates(i) == [held : BOOLEAN, toggled : BOOLEAN, counts : [1 .. Size(i) -> Nat]]

Working(w, i) ==
    /\ w = [sched |-> w.sched, own |-> w.own, starts |-> w.starts]
    /\ w.own \in OwnStates(i)
    /\ w.starts \in [1 .. Size(i) -> Nat]

(* The mappings that run their commands, and those that did up to now. *)
Wanting(i, own, curr) ==
    CASE Mappings[i].kind = "toggle" -> own.toggled /\ ~Mapper!NegKeysPressed(i, curr)
      [] Mappings[i].kind = "press" -> TRUE
      [] Mappings[i].kind = "hold" -> own.held /\ Mapper!Triggered(i, curr)
      [] Mappings[i].kind = "repeat" ->
            Mappings[i].ends => own.held /\ Mapper!Triggered(i, curr)

Wanted(i, own) ==
    CASE Mappings[i].kind = "toggle" -> own.toggled
      [] Mappings[i].kind = "press" -> TRUE
      [] Mappings[i].kind = "hold" -> own.held
      [] Mappings[i].kind = "repeat" -> Mappings[i].ends => own.held

(* What was started is held, or counted. *)
Counted(i, own, started) ==
    /\ Mappings[i].kind \in {"hold", "press"} =>
        \A j \in 1 .. Size(i) : started[j] <= 1 /\ (~own.held => started[j] = 0)
    /\ Mappings[i].kind = "repeat" /\ Mappings[i].maxTimes # -1 =>
        \A j \in 1 .. Size(i) :
            started[j] <= own.counts[j] /\ own.counts[j] <= Mappings[i].maxTimes

LEMMA MappingTypes ==
    ASSUME NEW i \in DOMAIN Mappings
    PROVE  /\ Mappings[i].kind \in {"hold", "repeat", "press", "toggle"}
           /\ Mappings[i].ends \in BOOLEAN /\ Mappings[i].maxTimes \in Nat \union {-1}
           /\ Size(i) \in Nat /\ DOMAIN Mappings[i].cmds = 1 .. Size(i)
           /\ \A k \in 1 .. Size(i) : Mapper!mappedCommands(i)[k] \in CommandsOf(i)
<1>1. /\ Mappings[i].kind \in {"hold", "repeat", "press", "toggle"}
      /\ Mappings[i].ends \in BOOLEAN /\ Mappings[i].maxTimes \in Nat \union {-1}
      /\ Mappings[i].cmds \in Seq(Commands \union {nullptr})
  BY MapperAssumption DEF Mapper!MappingAssumption
<1>2. Size(i) \in Nat /\ DOMAIN Mappings[i].cmds = 1 .. Size(i)
  BY <1>1 DEF Size
<1>3. DOMAIN Mapper!mappedCommands(i) = 1 .. Size(i)
  BY <1>2 DEF Mapper!mappedCommands
<1>4. QED
  BY <1>1, <1>2, <1>3 DEF CommandsOf, Mapper!Range

LEMMA WorkingTypes ==
    ASSUME NEW w, NEW i, Working(w, i)
    PROVE  /\ w.own \in OwnStates(i) /\ w.starts \in [1 .. Size(i) -> Nat]
           /\ w.own = [held |-> w.own.held, toggled |-> w.own.toggled, counts |-> w.own.counts]
           /\ w.own.held \in BOOLEAN /\ w.own.toggled \in BOOLEAN
           /\ w.own.counts \in [1 .. Size(i) -> Nat]
           /\ \A j \in 1 .. Size(i) : w.starts[j] \in Nat /\ w.own.counts[j] \in Nat
<1>1. w.own \in OwnStates(i) /\ w.starts \in [1 .. Size(i) -> Nat]
  BY DEF Working
<1>2. QED
  BY <1>1 DEF OwnStates

(* A command that is added counts once, and only commands of the mapping are
   added. *)
LEMMA StartOne ==
    ASSUME NEW i \in DOMAIN Mappings, NEW w, Working(w, i), NEW k \in 1 .. Size(i), NEW ready
    PROVE  LET r == Mapper!Start(w, i, k, ready)
           IN  /\ Working(r, i) /\ r.own = w.own
               /\ r.sched \subseteq w.sched \union CommandsOf(i)
               /\ r.starts[k] \in {w.starts[k], w.starts[k] + 1}
               /\ \A j \in 1 .. Size(i) : j # k => r.starts[j] = w.starts[j]
<1> DEFINE c == Mapper!mappedCommands(i)[k]
           s == Mapper!addCommand(w.sched, c, ready)
           n == IF Mapper!Accepted(c, ready) /\ w.starts[k] < MaxStarts
                THEN w.starts[k] + 1 ELSE w.starts[k]
           r == Mapper!Start(w, i, k, ready)
<1>1. s \subseteq w.sched \union CommandsOf(i)
  BY MappingTypes DEF Mapper!addCommand
<1>2. /\ r = [sched |-> s, own |-> w.own, starts |-> [w.starts EXCEPT ![k] = n]]
      /\ n \in {w.starts[k], w.starts[k] + 1}
  <2> HIDE DEF s
  <2>1. /\ w = [sched |-> w.sched, own |-> w.own, starts |-> w.starts]
        /\ r = [w EXCEPT !.sched = s, !.starts[k] = n]
    BY DEF Working, Mapper!Start, s
  <2> HIDE DEF n, r
  <2>2. r = [sched |-> s, own |-> w.own, starts |-> [w.starts EXCEPT ![k] = n]]
    BY <2>1
  <2>3. QED
    BY <2>2 DEF n
<1> HIDE DEF n, s, r
<1>3. w.starts \in [1 .. Size(i) -> Nat] /\ w.own \in OwnStates(i) /\ n \in Nat
  <2>1. w.starts \in [1 .. Size(i) -> Nat] /\ w.own \in OwnStates(i) /\ w.starts[k] \in Nat
    BY WorkingTypes
  <2>2. QED
    BY <1>2, <2>1
<1>4. QED
  BY <1>1, <1>2, <1>3 DEF Working, r

LEMMA AddedOnce ==
    ASSUME NEW i \in DOMAIN Mappings, NEW w, Working(w, i), NEW ready
    PROVE  LET r == Mapper!addCommands(w, i, ready)
           IN  /\ Working(r, i) /\ r.own = w.own
               /\ r.sched \subseteq w.sched \union CommandsOf(i)
               /\ \A j \in 1 .. Size(i) : r.starts[j] <= w.starts[j] + 1
<1>1. Size(i) \in Nat
  BY MappingTypes
<1>2. PICK g : /\ g[0] = w
               /\ \A k \in 1 .. Size(i) : g[k] = Mapper!Start(g[k - 1], i, k, ready)
               /\ Mapper!addCommands(w, i, ready) = g[Size(i)]
  BY <1>1, Adding, SMTT(40) DEF Size
<1> DEFINE Good(k) ==
               /\ Working(g[k], i) /\ g[k].own = w.own
               /\ g[k].sched \subseteq w.sched \union CommandsOf(i)
               /\ \A j \in 1 .. Size(i) :
                     g[k].starts[j] <= w.starts[j] + (IF j <= k THEN 1 ELSE 0)
           S == {k \in Nat : k <= Size(i) => Good(k)}
<1>3. 0 \in S
  <2>1. \A j \in 1 .. Size(i) : w.starts[j] \in Nat
    BY WorkingTypes
  <2>2. \A j \in 1 .. Size(i) : w.starts[j] <= w.starts[j] + (IF j <= 0 THEN 1 ELSE 0)
    BY <1>1, <2>1
  <2>3. Good(0)
    BY <1>2, <2>2
  <2>4. QED
    BY <2>3
<1>4. ASSUME NEW n \in Nat, n \in S PROVE n + 1 \in S
  <2> SUFFICES ASSUME n + 1 <= Size(i) PROVE Good(n + 1)
    OBVIOUS
  <2>1. Good(n) /\ n + 1 \in 1 .. Size(i) /\ (n + 1) - 1 = n
    BY <1>1, <1>4
  <2>2. g[n + 1] = Mapper!Start(g[n], i, n + 1, ready)
    BY <1>2, <2>1
  <2>3. /\ Working(g[n + 1], i) /\ g[n + 1].own = g[n].own
        /\ g[n + 1].sched \subseteq g[n].sched \union CommandsOf(i)
        /\ g[n + 1].starts[n + 1] \in {g[n].starts[n + 1], g[n].starts[n + 1] + 1}
        /\ \A j \in 1 .. Size(i) : j # n + 1 => g[n + 1].starts[j] = g[n].starts[j]
    BY <2>1, <2>2, StartOne
  <2>4. ASSUME NEW j \in 1 .. Size(i)
        PROVE  g[n + 1].starts[j] <= w.starts[j] + (IF j <= n + 1 THEN 1 ELSE 0)
    <3>1. /\ w.starts[j] \in Nat /\ g[n].starts[j] \in Nat /\ g[n + 1].starts[j] \in Nat
          /\ g[n].starts[j] <= w.starts[j] + (IF j <= n THEN 1 ELSE 0)
      BY <2>1, <2>3 DEF Working
    <3>2. QED
      BY <2>3, <3>1
  <2>5. QED
    BY <2>1, <2>3, <2>4
<1>5. Good(Size(i))
  <2> HIDE DEF Good
  <2>1. Nat \subseteq S
    <3> HIDE DEF S
    <3> QED BY <1>3, <1>4, Induction
  <2>2. QED
    BY <1>1, <2>1
<1>6. QED
  BY <1>1, <1>2, <1>5

(* The repeat mapping counts what it starts before it starts too much. *)
LEMMA RepeatOne ==
    ASSUME NEW i \in DOMAIN Mappings, NEW w, Working(w, i), NEW k \in 1 .. Size(i), NEW ready,
           Mappings[i].kind = "repeat", Counted(i, w.own, w.starts)
    PROVE  LET r == Mapper!Repeat(w, i, k, ready)
           IN  /\ Working(r, i) /\ Counted(i, r.own, r.starts)
               /\ r.sched \subseteq w.sched \union CommandsOf(i)
<1> DEFINE v == Mapper!Start(w, i, k, ready)
           n == IF Mappings[i].maxTimes = -1 THEN v.own.counts[k] ELSE v.own.counts[k] + 1
           r == [v EXCEPT !.own.counts[k] = n]
<1>1. /\ Working(v, i) /\ v.own = w.own
      /\ v.sched \subseteq w.sched \union CommandsOf(i)
      /\ v.starts[k] \in {w.starts[k], w.starts[k] + 1}
      /\ \A j \in 1 .. Size(i) : j # k => v.starts[j] = w.starts[j]
  BY StartOne
<1> HIDE DEF v
<1>2. CASE ~(Mapper!mappedCommands(i)[k] \notin w.sched /\ Mapper!okToScheduleCommand(w, i, k))
  BY <1>2 DEF Mapper!Repeat
<1>3. CASE Mapper!mappedCommands(i)[k] \notin w.sched /\ Mapper!okToScheduleCommand(w, i, k)
  <2>1. Mapper!Repeat(w, i, k, ready) = r
    BY <1>3 DEF Mapper!Repeat, v
  <2>2. /\ v.own = [held |-> v.own.held, toggled |-> v.own.toggled, counts |-> v.own.counts]
        /\ v.own.counts \in [1 .. Size(i) -> Nat] /\ n \in Nat
        /\ v.own.held \in BOOLEAN /\ v.own.toggled \in BOOLEAN
    <3> HIDE DEF n
    <3>1. /\ v.own = [held |-> v.own.held, toggled |-> v.own.toggled, counts |-> v.own.counts]
          /\ v.own.counts \in [1 .. Size(i) -> Nat] /\ v.own.counts[k] \in Nat
          /\ v.own.held \in BOOLEAN /\ v.own.toggled \in BOOLEAN
      BY ONLY <1>1, WorkingTypes, k \in 1 .. Size(i)
    <3>2. n \in Nat
      BY <3>1 DEF n
    <3>3. QED
      BY <3>1, <3>2
  <2> DEFINE own == [held |-> v.own.held, toggled |-> v.own.toggled,
                     counts |-> [v.own.counts EXCEPT ![k] = n]]
  <2>3. r = [sched |-> v.sched, own |-> own, starts |-> v.starts]
    <3> HIDE DEF n
    <3>1. v = [sched |-> v.sched, own |-> v.own, starts |-> v.starts]
      BY <1>1 DEF Working
    <3>2. QED
      BY <2>2, <3>1
  <2>4. own \in OwnStates(i)
    <3> HIDE DEF n
    <3> QED BY <2>2 DEF OwnStates
  <2>5. Working(r, i)
    <3> HIDE DEF own, r
    <3> QED BY <1>1, <2>3, <2>4 DEF Working
  <2>6. Counted(i, own, v.starts)
    <3> SUFFICES ASSUME Mappings[i].maxTimes # -1, NEW j \in 1 .. Size(i)
                 PROVE  v.starts[j] <= own.counts[j] /\ own.counts[j] <= Mappings[i].maxTimes
      BY DEF Counted
    <3>1. /\ w.starts[j] <= w.own.counts[j] /\ w.own.counts[j] <= Mappings[i].maxTimes
          /\ w.starts[j] \in Nat /\ w.own.counts[j] \in Nat /\ Mappings[i].maxTimes \in Nat
      BY MappingTypes DEF Counted, Working, OwnStates
    <3>2. CASE j = k
      <4>1. own.counts[j] = w.own.counts[j] + 1
        BY <1>1, <2>2, <3>2
      <4>2. w.own.counts[j] < Mappings[i].maxTimes
        BY <1>3, <3>2 DEF Mapper!okToScheduleCommand
      <4>3. QED
        BY <1>1, <3>1, <3>2, <4>1, <4>2
    <3>3. CASE j # k
      <4>1. own.counts[j] = w.own.counts[j]
        BY <1>1, <2>2, <3>3
      <4>2. QED
        BY <1>1, <3>1, <3>3, <4>1
    <3>4. QED
      BY <3>2, <3>3
  <2>7. QED
    <3> HIDE DEF own, r
    <3> QED BY <1>1, <2>1, <2>3, <2>5, <2>6
<1>4. QED
  BY <1>2, <1>3

LEMMA RepeatedCounted ==
    ASSUME NEW i \in DOMAIN Mappings, NEW w, Working(w, i), NEW ready,
           Mappings[i].kind = "repeat", Counted(i, w.own, w.starts)
    PROVE  LET r == Mapper!repeatCommands(w, i, ready)
           IN  /\ Working(r, i) /\ Counted(i, r.own, r.starts)
               /\ r.sched \subseteq w.sched \union CommandsOf(i)
<1>1. Size(i) \in Nat
  BY MappingTypes
<1>2. PICK g : /\ g[0] = w
               /\ \A k \in 1 .. Size(i) : g[k] = Mapper!Repeat(g[k - 1], i, k, ready)
               /\ Mapper!repeatCommands(w, i, ready) = g[Size(i)]
  BY <1>1, Repeating DEF Size
<1> DEFINE Good(k) == /\ Working(g[k], i) /\ Counted(i, g[k].own, g[k].starts)
                      /\ g[k].sched \subseteq w.sched \union CommandsOf(i)
           S == {k \in Nat : k <= Size(i) => Good(k)}
<1>3. 0 \in S
  BY <1>2
<1>4. ASSUME NEW n \in Nat, n \in S PROVE n + 1 \in S
  <2> SUFFICES ASSUME n + 1 <= Size(i) PROVE Good(n + 1)
    OBVIOUS
  <2>1. Good(n) /\ n + 1 \in 1 .. Size(i) /\ (n + 1) - 1 = n
    BY <1>1, <1>4
  <2>2. g[n + 1] = Mapper!Repeat(g[n], i, n + 1, ready)
    BY <1>2, <2>1
  <2>3. QED
    BY <2>1, <2>2, RepeatOne
<1>5. Good(Size(i))
  <2> HIDE DEF Good
  <2>1. Nat \subseteq S
    <3> HIDE DEF S
    <3> QED BY <1>3, <1>4, Induction
  <2>2. QED
    BY <1>1, <2>1
<1>6. QED
  BY <1>2, <1>5

(* What a mapping does to the scheduled commands, whatever kind it is. *)
Did(w, i, curr, r) ==
    /\ Working(r, i) /\ Counted(i, r.own, r.starts)
    /\ r.sched \subseteq w.sched \union CommandsOf(i)
    /\ \A c \in r.sched \intersect CommandsOf(i) :
           Wanting(i, r.own, curr) \/ (c \in w.sched /\ ~Wanted(i, w.own))

LEMMA FlaggedWorks ==
    ASSUME NEW i, NEW w, Working(w, i), NEW h \in BOOLEAN, NEW t \in BOOLEAN
    PROVE  LET v == Mapper!Flagged(w, h, t)
           IN  /\ Working(v, i) /\ v.sched = w.sched /\ v.starts = w.starts
               /\ v.own.held = h /\ v.own.toggled = t /\ v.own.counts = w.own.counts
<1> DEFINE v == Mapper!Flagged(w, h, t)
           own == [held |-> h, toggled |-> t, counts |-> w.own.counts]
<1>1. w.own.counts \in [1 .. Size(i) -> Nat] /\ w.starts \in [1 .. Size(i) -> Nat]
  BY WorkingTypes
<1>2. own \in OwnStates(i)
  BY <1>1 DEF OwnStates
<1>3. own.held = h /\ own.toggled = t /\ own.counts = w.own.counts
  OBVIOUS
<1> HIDE DEF own
<1>4. v = [sched |-> w.sched, own |-> own, starts |-> w.starts]
  <2>1. w = [sched |-> w.sched, own |-> w.own, starts |-> w.starts]
    BY DEF Working
  <2>2. v = [w EXCEPT !.own = own]
    BY DEF Mapper!Flagged, own
  <2> HIDE DEF v
  <2>3. QED
    BY <2>1, <2>2
<1> HIDE DEF v
<1>5. v.sched = w.sched /\ v.own = own /\ v.starts = w.starts
  BY <1>4
<1>6. Working(v, i)
  BY <1>1, <1>2, <1>4, <1>5 DEF Working
<1>7. QED
  BY <1>3, <1>5, <1>6 DEF v

LEMMA FlaggedSo ==
    ASSUME NEW i, NEW w, Working(w, i)
    PROVE  /\ LET v == Mapper!Flagged(w, FALSE, FALSE)
              IN  Working(v, i) /\ v.sched = w.sched /\ v.own.held = FALSE /\ v.own.toggled = FALSE
           /\ LET v == Mapper!Flagged(w, TRUE, FALSE) IN Working(v, i) /\ v.sched = w.sched
           /\ LET v == Mapper!Flagged(w, TRUE, TRUE)
              IN  Working(v, i) /\ v.sched = w.sched /\ v.own.toggled = TRUE
<1> DEFINE yes == TRUE
           no == FALSE
<1>1. yes \in BOOLEAN /\ no \in BOOLEAN
  OBVIOUS
<1> HIDE DEF yes, no
<1>2. LET v == Mapper!Flagged(w, no, no)
      IN  Working(v, i) /\ v.sched = w.sched /\ v.own.held = no /\ v.own.toggled = no
  BY <1>1, FlaggedWorks
<1>3. LET v == Mapper!Flagged(w, yes, no) IN Working(v, i) /\ v.sched = w.sched
  BY <1>1, FlaggedWorks
<1>4. LET v == Mapper!Flagged(w, yes, yes)
      IN  Working(v, i) /\ v.sched = w.sched /\ v.own.toggled = yes
  BY <1>1, FlaggedWorks
<1>5. QED
  BY <1>2, <1>3, <1>4 DEF yes, no

LEMMA HeldWorks ==
    ASSUME NEW i, NEW w, Working(w, i), NEW h \in BOOLEAN
    PROVE  LET v == Mapper!Held(w, h)
           IN  /\ Working(v, i) /\ v.sched = w.sched /\ v.starts = w.starts
               /\ v.own.held = h /\ v.own.toggled = w.own.toggled /\ v.own.counts = w.own.counts
<1>1. w.own.toggled \in BOOLEAN
  BY WorkingTypes
<1>2. QED
  BY <1>1, FlaggedWorks DEF Mapper!Held

LEMMA Removed ==
    ASSUME NEW i \in DOMAIN Mappings, NEW w, Working(w, i)
    PROVE  LET v == Mapper!removeCommands(w, i)
           IN  /\ Working(v, i) /\ v.own = w.own /\ v.starts = w.starts
               /\ v.sched = w.sched \ CommandsOf(i)
<1> DEFINE v == Mapper!removeCommands(w, i)
<1>1. w = [sched |-> w.sched, own |-> w.own, starts |-> w.starts]
  BY DEF Working
<1>2. v = [sched |-> w.sched \ CommandsOf(i), own |-> w.own, starts |-> w.starts]
  BY <1>1 DEF Mapper!removeCommands, CommandsOf
<1>3. w.starts \in [1 .. Size(i) -> Nat] /\ w.own \in OwnStates(i)
  BY WorkingTypes
<1> HIDE DEF v
<1>4. v.sched = w.sched \ CommandsOf(i) /\ v.own = w.own /\ v.starts = w.starts
  BY <1>2
<1>5. Working(v, i)
  BY <1>2, <1>3, <1>4 DEF Working
<1>6. QED
  BY <1>4, <1>5 DEF v

Before(w, i, curr) ==
    /\ Working(w, i) /\ Counted(i, w.own, w.starts)
    /\ ~Mapper!Triggered(i, curr) => \A j \in 1 .. Size(i) : w.starts[j] = 0

(* Each kind of mapping: what still runs of its commands is wanted now, or ran
   already without this mapping and is left to the one that wanted it. *)
LEMMA HoldDid ==
    ASSUME NEW i \in DOMAIN Mappings, Mappings[i].kind = "hold", NEW w, NEW curr, NEW ready,
           Before(w, i, curr)
    PROVE  Did(w, i, curr, Mapper!hold(w, i, curr, ready))
<1> DEFINE r == Mapper!hold(w, i, curr, ready)
<1>1. /\ Working(w, i)
      /\ \A j \in 1 .. Size(i) : w.starts[j] <= 1 /\ (~w.own.held => w.starts[j] = 0)
      /\ ~Mapper!Triggered(i, curr) => \A j \in 1 .. Size(i) : w.starts[j] = 0
  BY DEF Before, Counted
<1>2. CASE Mapper!Triggered(i, curr) /\ w.own.held
  <2>1. r = w
    BY <1>2 DEF Mapper!hold
  <2>2. QED
    BY <1>1, <1>2, <2>1 DEF Did, Counted, Wanting
<1>3. CASE Mapper!Triggered(i, curr) /\ ~w.own.held
  <2> DEFINE v == Mapper!Held(w, TRUE)
  <2>1. r = Mapper!addCommands(v, i, ready)
    BY <1>3 DEF Mapper!hold
  <2>2. Working(v, i) /\ v.sched = w.sched /\ v.starts = w.starts /\ v.own.held = TRUE
    BY <1>1, HeldWorks
  <2> HIDE DEF v, r
  <2>3. /\ Working(r, i) /\ r.own = v.own
        /\ r.sched \subseteq w.sched \union CommandsOf(i)
        /\ \A j \in 1 .. Size(i) : r.starts[j] <= v.starts[j] + 1
    BY <2>1, <2>2, AddedOnce
  <2>4. \A j \in 1 .. Size(i) : r.starts[j] <= 1
    <3> TAKE j \in 1 .. Size(i)
    <3>1. v.starts[j] = 0 /\ r.starts[j] <= v.starts[j] + 1
      BY <1>1, <1>3, <2>2, <2>3
    <3>2. QED
      BY <3>1
  <2>5. QED
    BY <1>3, <2>2, <2>3, <2>4 DEF Did, Counted, Wanting, r
<1>4. CASE ~Mapper!Triggered(i, curr) /\ w.own.held
  <2> DEFINE v == Mapper!Held(w, FALSE)
  <2>1. r = Mapper!removeCommands(v, i)
    BY <1>4 DEF Mapper!hold
  <2>2. Working(v, i) /\ v.sched = w.sched /\ v.starts = w.starts
    BY <1>1, HeldWorks
  <2> HIDE DEF v, r
  <2>3. Working(r, i) /\ r.starts = w.starts /\ r.sched = w.sched \ CommandsOf(i)
    BY <2>1, <2>2, Removed
  <2>4. \A j \in 1 .. Size(i) : r.starts[j] = 0 /\ r.starts[j] <= 1
    BY <1>1, <1>4, <2>3
  <2>5. QED
    BY <1>4, <2>3, <2>4 DEF Did, Counted, r
<1>5. CASE ~Mapper!Triggered(i, curr) /\ ~w.own.held
  <2>1. r = w
    BY <1>5 DEF Mapper!hold
  <2>2. QED
    BY <1>1, <1>5, <2>1 DEF Did, Counted, Wanted
<1>6. QED
  BY <1>2, <1>3, <1>4, <1>5

LEMMA PressDid ==
    ASSUME NEW i \in DOMAIN Mappings, Mappings[i].kind = "press", NEW w, NEW curr, NEW ready,
           Before(w, i, curr)
    PROVE  Did(w, i, curr, Mapper!press(w, i, curr, ready))
<1> DEFINE r == Mapper!press(w, i, curr, ready)
<1>1. /\ Working(w, i)
      /\ \A j \in 1 .. Size(i) : w.starts[j] <= 1 /\ (~w.own.held => w.starts[j] = 0)
      /\ ~Mapper!Triggered(i, curr) => \A j \in 1 .. Size(i) : w.starts[j] = 0
  BY DEF Before, Counted
<1>2. CASE Mapper!Triggered(i, curr) /\ w.own.held
  <2>1. r = w
    BY <1>2 DEF Mapper!press
  <2>2. QED
    BY <1>1, <1>2, <2>1 DEF Did, Counted, Wanting
<1>3. CASE Mapper!Triggered(i, curr) /\ ~w.own.held
  <2> DEFINE v == Mapper!Held(w, TRUE)
  <2>1. r = Mapper!addCommands(v, i, ready)
    BY <1>3 DEF Mapper!press
  <2>2. Working(v, i) /\ v.sched = w.sched /\ v.starts = w.starts /\ v.own.held = TRUE
    BY <1>1, HeldWorks
  <2> HIDE DEF v, r
  <2>3. /\ Working(r, i) /\ r.own = v.own
        /\ r.sched \subseteq w.sched \union CommandsOf(i)
        /\ \A j \in 1 .. Size(i) : r.starts[j] <= v.starts[j] + 1
    BY <2>1, <2>2, AddedOnce
  <2>4. \A j \in 1 .. Size(i) : r.starts[j] <= 1
    <3> TAKE j \in 1 .. Size(i)
    <3>1. v.starts[j] = 0 /\ r.starts[j] <= v.starts[j] + 1
      BY <1>1, <1>3, <2>2, <2>3
    <3>2. QED
      BY <3>1
  <2>5. QED
    BY <1>3, <2>2, <2>3, <2>4 DEF Did, Counted, Wanting, r
<1>4. CASE ~Mapper!Triggered(i, curr)
  <2> DEFINE v == Mapper!Held(w, FALSE)
  <2>1. r = v
    BY <1>4 DEF Mapper!press
  <2>2. Working(v, i) /\ v.sched = w.sched /\ v.starts = w.starts
    BY <1>1, HeldWorks
  <2> HIDE DEF v, r
  <2>3. \A j \in 1 .. Size(i) : r.starts[j] = 0 /\ r.starts[j] <= 1
    BY <1>1, <1>4, <2>1, <2>2
  <2>4. QED
    BY <2>1, <2>2, <2>3 DEF Did, Counted, Wanting, r
<1>5. QED
  BY <1>2, <1>3, <1>4

LEMMA RepeatDid ==
    ASSUME NEW i \in DOMAIN Mappings, Mappings[i].kind = "repeat", NEW w, NEW curr, NEW ready,
           Before(w, i, curr)
    PROVE  Did(w, i, curr, Mapper!holdRepeat(w, i, curr, ready))
<1> DEFINE r == Mapper!holdRepeat(w, i, curr, ready)
<1>1. Working(w, i) /\ Counted(i, w.own, w.starts) /\ Mappings[i].ends \in BOOLEAN
  BY MappingTypes DEF Before
<1>2. CASE Mapper!Triggered(i, curr)
  <2> DEFINE v == Mapper!repeatCommands(w, i, ready)
  <2>1. /\ Working(v, i) /\ Counted(i, v.own, v.starts)
        /\ v.sched \subseteq w.sched \union CommandsOf(i)
    BY <1>1, RepeatedCounted
  <2> DEFINE held == Mapper!Held(v, TRUE)
  <2>2. r = held
    BY <1>2 DEF Mapper!holdRepeat
  <2> HIDE DEF v, r
  <2>3. Working(v, i)
    BY <2>1
  <2>4. /\ Working(held, i) /\ held.sched = v.sched /\ held.starts = v.starts
        /\ held.own.held = TRUE /\ held.own.counts = v.own.counts
    BY <2>3, HeldWorks, ZenonT(60)
  <2> HIDE DEF held
  <2>5. /\ Working(r, i) /\ r.sched = v.sched /\ r.starts = v.starts
        /\ r.own.held = TRUE /\ r.own.counts = v.own.counts
    BY <2>2, <2>4
  <2>6. Counted(i, r.own, r.starts)
    BY <2>1, <2>5 DEF Counted
  <2>7. QED
    BY <1>2, <2>1, <2>5, <2>6 DEF Did, Wanting, r
<1>3. CASE ~Mapper!Triggered(i, curr) /\ w.own.held
  <2> DEFINE v == IF Mappings[i].ends THEN Mapper!removeCommands(w, i) ELSE w
  <2>1. r = [v EXCEPT !.own = Mapper!Fresh(i)]
    BY <1>3 DEF Mapper!holdRepeat
  <2>2. /\ Working(v, i) /\ v.starts = w.starts
        /\ v.sched = IF Mappings[i].ends THEN w.sched \ CommandsOf(i) ELSE w.sched
    BY <1>1, Removed
  <2>3. Mapper!Fresh(i) \in OwnStates(i) /\ Mapper!Fresh(i).counts = [j \in 1 .. Size(i) |-> 0]
    BY MappingTypes DEF Mapper!Fresh, OwnStates
  <2> HIDE DEF v, r
  <2>4. /\ Working(r, i) /\ r.own = Mapper!Fresh(i) /\ r.sched = v.sched /\ r.starts = w.starts
    <3> DEFINE own == Mapper!Fresh(i)
    <3> HIDE DEF own
    <3>1. v = [sched |-> v.sched, own |-> v.own, starts |-> v.starts]
      BY <2>2 DEF Working
    <3>2. r = [sched |-> v.sched, own |-> own, starts |-> v.starts]
      BY <2>1, <3>1 DEF own
    <3>3. r.sched = v.sched /\ r.own = own /\ r.starts = v.starts
      BY <3>2
    <3>4. w.starts \in [1 .. Size(i) -> Nat]
      BY <1>1, WorkingTypes
    <3>5. Working(r, i)
      BY <2>2, <2>3, <3>2, <3>3, <3>4 DEF Working, own
    <3>6. QED
      BY <2>2, <3>3, <3>5 DEF own
  <2>5. Counted(i, r.own, r.starts)
    <3>1. \A j \in 1 .. Size(i) : r.starts[j] = 0 /\ r.own.counts[j] = 0
      BY <1>3, <2>3, <2>4, ZenonT(60) DEF Before
    <3>2. Mappings[i].maxTimes # -1 => Mappings[i].maxTimes \in Nat
      BY MappingTypes
    <3>3. QED
      BY <3>1, <3>2 DEF Counted
  <2>6. QED
    BY <2>2, <2>4, <2>5 DEF Did, Wanting, r
<1>4. CASE ~Mapper!Triggered(i, curr) /\ ~w.own.held
  <2>1. r = w
    BY <1>4 DEF Mapper!holdRepeat
  <2>2. QED
    BY <1>1, <1>4, <2>1 DEF Did, Wanted, Wanting
<1>5. QED
  BY <1>2, <1>3, <1>4

LEMMA ToggleDid ==
    ASSUME NEW i \in DOMAIN Mappings, Mappings[i].kind = "toggle", NEW w, NEW curr, NEW ready,
           Before(w, i, curr)
    PROVE  Did(w, i, curr, Mapper!toggle(w, i, curr, ready))
<1> DEFINE r == Mapper!toggle(w, i, curr, ready)
           v == Mapper!Untoggled(w, i)
<1>1. \A own, started : Counted(i, own, started)
  BY DEF Counted
<1>2. /\ Working(v, i) /\ v.sched = w.sched
      /\ v.own.toggled \in BOOLEAN /\ v.own.held \in BOOLEAN
      /\ \A c \in w.sched \intersect CommandsOf(i) : v.own.toggled = w.own.toggled
  <2>1. Working(w, i)
    BY DEF Before
  <2>2. CASE Mapper!noCommandsScheduled(w, i) /\ w.own.toggled
    <3> DEFINE off == Mapper!Flagged(w, FALSE, FALSE)
    <3>1. v = off /\ w.sched \intersect CommandsOf(i) = {}
      BY <2>2 DEF Mapper!Untoggled, Mapper!noCommandsScheduled, CommandsOf
    <3>2. /\ Working(off, i) /\ off.sched = w.sched
          /\ off.own.held = FALSE /\ off.own.toggled = FALSE
      BY <2>1, FlaggedSo
    <3> HIDE DEF v, off
    <3>3. QED
      BY <3>1, <3>2
  <2>3. CASE ~(Mapper!noCommandsScheduled(w, i) /\ w.own.toggled)
    <3>1. v = w
      BY <2>3 DEF Mapper!Untoggled
    <3> HIDE DEF v
    <3>2. QED
      BY <2>1, <3>1, WorkingTypes
  <2>4. QED
    BY <2>2, <2>3
<1> HIDE DEF v
<1>3. Working(v, i)
  BY <1>2
<1>4. CASE Mapper!NegKeysPressed(i, curr)
  <2> DEFINE off == Mapper!Flagged(v, FALSE, FALSE)
  <2>1. r = IF v.own.toggled THEN Mapper!removeCommands(off, i) ELSE off
    BY <1>4 DEF Mapper!toggle, v
  <2>2. Working(off, i) /\ off.sched = v.sched
    BY <1>3, FlaggedSo
  <2> HIDE DEF off, r
  <2>3. Working(off, i) /\ off.sched = w.sched
    BY <1>2, <2>2
  <2>4. CASE v.own.toggled
    <3>1. Working(r, i) /\ r.sched = w.sched \ CommandsOf(i)
      BY <2>1, <2>3, <2>4, Removed
    <3>2. QED
      BY <1>1, <3>1 DEF Did, r
  <2>5. CASE ~v.own.toggled
    BY <1>1, <1>2, <2>1, <2>3, <2>5 DEF Did, Wanted, r
  <2>6. QED
    BY <2>4, <2>5
<1>5. CASE ~Mapper!NegKeysPressed(i, curr) /\ ~Mapper!mappingSubset(i, curr)
  <2> DEFINE off == Mapper!Held(v, FALSE)
  <2>1. r = off
    BY <1>5 DEF Mapper!toggle, v
  <2>2. Working(off, i) /\ off.sched = v.sched /\ off.own.toggled = v.own.toggled
    BY <1>3, HeldWorks, ZenonT(60)
  <2> HIDE DEF off, r
  <2>3. Working(r, i) /\ r.sched = w.sched /\ r.own.toggled = v.own.toggled
    BY <1>2, <2>1, <2>2
  <2>4. QED
    BY <1>1, <1>2, <1>5, <2>3 DEF Did, Wanted, Wanting, r
<1>6. CASE ~Mapper!NegKeysPressed(i, curr) /\ Mapper!mappingSubset(i, curr) /\ v.own.held
  <2>1. r = v
    BY <1>6 DEF Mapper!toggle, v
  <2> HIDE DEF r
  <2>2. QED
    BY <1>1, <1>2, <1>6, <2>1 DEF Did, Wanted, Wanting, r
<1>7. CASE /\ ~Mapper!NegKeysPressed(i, curr) /\ Mapper!mappingSubset(i, curr)
           /\ ~v.own.held /\ v.own.toggled
  <2> DEFINE flipped == Mapper!Flagged(v, TRUE, FALSE)
  <2>1. r = Mapper!removeCommands(flipped, i)
    BY <1>7 DEF Mapper!toggle, v
  <2>2. Working(flipped, i) /\ flipped.sched = v.sched
    BY <1>3, FlaggedSo
  <2> HIDE DEF flipped, r
  <2>3. Working(flipped, i) /\ flipped.sched = w.sched
    BY <1>2, <2>2
  <2>4. Working(r, i) /\ r.sched = w.sched \ CommandsOf(i)
    BY <2>1, <2>3, Removed
  <2>5. QED
    BY <1>1, <2>4 DEF Did, r
<1>8. CASE /\ ~Mapper!NegKeysPressed(i, curr) /\ Mapper!mappingSubset(i, curr)
           /\ ~v.own.held /\ ~v.own.toggled
  <2> DEFINE flipped == Mapper!Flagged(v, TRUE, TRUE)
  <2>1. r = Mapper!addCommands(flipped, i, ready)
    BY <1>8 DEF Mapper!toggle, v
  <2>2. Working(flipped, i) /\ flipped.sched = v.sched /\ flipped.own.toggled = TRUE
    BY <1>3, FlaggedSo
  <2> HIDE DEF flipped, r
  <2>3. Working(flipped, i) /\ flipped.sched = w.sched /\ flipped.own.toggled = TRUE
    BY <1>2, <2>2
  <2>4. /\ Working(r, i) /\ r.own = flipped.own
        /\ r.sched \subseteq w.sched \union CommandsOf(i)
    BY <2>1, <2>3, AddedOnce
  <2>5. QED
    BY <1>1, <1>8, <2>3, <2>4 DEF Did, Wanting, r
<1>9. QED
  BY <1>4, <1>5, <1>6, <1>7, <1>8

LEMMA MappingDid ==
    ASSUME NEW i \in DOMAIN Mappings, NEW w, NEW curr, NEW ready, Before(w, i, curr)
    PROVE  Did(w, i, curr, Mapper!executeCommandMapping(w, i, curr, ready))
<1>1. Mappings[i].kind \in {"hold", "repeat", "press", "toggle"}
  BY MappingTypes
<1>2. QED
  BY <1>1, HoldDid, PressDid, RepeatDid, ToggleDid DEF Mapper!executeCommandMapping

-----------------------------------------------------------------------------
(* All the mappings together. *)
AllWorking(all) ==
    /\ all.mapping = [i \in DOMAIN Mappings |-> all.mapping[i]]
    /\ all.starts = [i \in DOMAIN Mappings |-> all.starts[i]]
    /\ \A i \in DOMAIN Mappings :
        /\ all.mapping[i] \in OwnStates(i) /\ all.starts[i] \in [1 .. Size(i) -> Nat]
        /\ Counted(i, all.mapping[i], all.starts[i])

(* One round of the loop leaves what belongs to the other mappings alone. *)
LEMMA ExecuteOne ==
    ASSUME NEW i \in DOMAIN Mappings, NEW all, NEW curr, NEW ready, AllWorking(all)
    PROVE  LET r == Mapper!Execute(all, i, curr, ready)
           IN  /\ AllWorking(r)
               /\ \A j \in DOMAIN Mappings \ {i} : r.mapping[j] = all.mapping[j]
               /\ r.sched \subseteq all.sched \union CommandsOf(i)
               /\ \A c \in r.sched \intersect CommandsOf(i) :
                     \/ Wanting(i, r.mapping[i], curr)
                     \/ c \in all.sched /\ ~Wanted(i, all.mapping[i])
<1> DEFINE started == IF Mapper!Triggered(i, curr) THEN all.starts[i] ELSE Mapper!Fresh(i).counts
           own == [sched |-> all.sched, own |-> all.mapping[i], starts |-> started]
           w == Mapper!executeCommandMapping(own, i, curr, ready)
           r == Mapper!Execute(all, i, curr, ready)
<1>1. /\ all.mapping[i] \in OwnStates(i) /\ all.starts[i] \in [1 .. Size(i) -> Nat]
      /\ Counted(i, all.mapping[i], all.starts[i])
  BY DEF AllWorking
<1>2. Mapper!Fresh(i).counts = [j \in 1 .. Size(i) |-> 0]
  BY MappingTypes DEF Mapper!Fresh
<1>3. started \in [1 .. Size(i) -> Nat]
  BY <1>1, <1>2
<1>4. ~Mapper!Triggered(i, curr) => \A j \in 1 .. Size(i) : started[j] = 0
  BY <1>2
<1>5. Counted(i, all.mapping[i], started)
  <2>1. CASE Mapper!Triggered(i, curr)
    BY <1>1, <2>1
  <2>2. CASE ~Mapper!Triggered(i, curr)
    <3>1. \A j \in 1 .. Size(i) : started[j] = 0
      BY <1>4, <2>2
    <3>2. /\ Mappings[i].maxTimes # -1 => Mappings[i].maxTimes \in Nat
          /\ \A j \in 1 .. Size(i) : all.mapping[i].counts[j] \in Nat
      BY <1>1, MappingTypes DEF OwnStates
    <3> HIDE DEF started
    <3>3. QED
      BY <1>1, <3>1, <3>2 DEF Counted
  <2>3. QED
    BY <2>1, <2>2
<1> HIDE DEF started
<1>6. own.sched = all.sched /\ own.own = all.mapping[i] /\ own.starts = started
  OBVIOUS
<1>7. r = [sched |-> w.sched, mapping |-> [all.mapping EXCEPT ![i] = w.own],
           starts |-> [all.starts EXCEPT ![i] = w.starts]]
  BY DEF Mapper!Execute, started
<1>8. Working(own, i)
  BY <1>1, <1>3, <1>6 DEF Working
<1> HIDE DEF own
<1>9. Before(own, i, curr)
  BY <1>4, <1>5, <1>6, <1>8 DEF Before
<1>10. Did(own, i, curr, w)
  BY <1>9, MappingDid
<1> HIDE DEF w, r
<1>11. /\ r.sched = w.sched
       /\ r.mapping = [all.mapping EXCEPT ![i] = w.own]
       /\ r.starts = [all.starts EXCEPT ![i] = w.starts]
  BY <1>7
<1>12. /\ r.mapping = [j \in DOMAIN Mappings |-> IF j = i THEN w.own ELSE all.mapping[j]]
       /\ r.starts = [j \in DOMAIN Mappings |-> IF j = i THEN w.starts ELSE all.starts[j]]
  <2>1. /\ all.mapping = [j \in DOMAIN Mappings |-> all.mapping[j]]
        /\ all.starts = [j \in DOMAIN Mappings |-> all.starts[j]]
    BY DEF AllWorking
  <2>2. QED
    BY ONLY <1>11, <2>1
<1>13. /\ w.own \in OwnStates(i) /\ w.starts \in [1 .. Size(i) -> Nat]
       /\ Counted(i, w.own, w.starts)
  BY <1>10 DEF Did, Working
<1>14. AllWorking(r)
  <2>1. ASSUME NEW j \in DOMAIN Mappings
        PROVE  /\ r.mapping[j] \in OwnStates(j) /\ r.starts[j] \in [1 .. Size(j) -> Nat]
               /\ Counted(j, r.mapping[j], r.starts[j])
    <3>1. CASE j = i
      <4>1. r.mapping[j] = w.own /\ r.starts[j] = w.starts
        BY <1>12, <3>1
      <4>2. QED
        BY <1>13, <3>1, <4>1
    <3>2. CASE j # i
      <4>1. r.mapping[j] = all.mapping[j] /\ r.starts[j] = all.starts[j]
        BY <1>12, <3>2
      <4>2. QED
        BY <4>1 DEF AllWorking
    <3>3. QED
      BY <3>1, <3>2
  <2>2. /\ r.mapping = [j \in DOMAIN Mappings |-> r.mapping[j]]
        /\ r.starts = [j \in DOMAIN Mappings |-> r.starts[j]]
    BY ONLY <1>12
  <2>3. QED
    BY <2>1, <2>2 DEF AllWorking
<1>15. r.mapping[i] = w.own /\ \A j \in DOMAIN Mappings \ {i} : r.mapping[j] = all.mapping[j]
  BY <1>12
<1>16. /\ r.sched \subseteq all.sched \union CommandsOf(i)
       /\ \A c \in r.sched \intersect CommandsOf(i) :
             \/ Wanting(i, r.mapping[i], curr)
             \/ c \in all.sched /\ ~Wanted(i, all.mapping[i])
  BY <1>6, <1>10, <1>11, <1>15 DEF Did
<1>17. QED
  BY <1>14, <1>15, <1>16 DEF r

(* The mappings are executed in the order they were added in. *)
AddedInOrder ==
    /\ commandsToRun \in Seq(Nat) /\ Len(commandsToRun) <= Len(Mappings)
    /\ \A k \in 1 .. Len(commandsToRun) : commandsToRun[k] = k

(* Every command that runs has a mapping behind it that wants it. *)
MapperInv ==
    /\ AddedInOrder
    /\ AllWorking([sched |-> mapped, mapping |-> mapping, starts |-> starts])
    /\ \A c \in mapped : \E i \in 1 .. Len(commandsToRun) :
            c \in CommandsOf(i) /\ Wanting(i, mapping[i], frame)

LEMMA MappingDomain == Len(Mappings) \in Nat /\ DOMAIN Mappings = 1 .. Len(Mappings)
BY MapperAssumption DEF Mapper!MappingAssumption

LEMMA WantingIsWanted ==
    ASSUME NEW i \in DOMAIN Mappings, NEW own, NEW curr, Wanting(i, own, curr)
    PROVE  Wanted(i, own)
BY MappingTypes DEF Wanting, Wanted

(* After n rounds the first n mappings answer for their commands as curr asks,
   the others still as they did before; at the end all of them do. *)
LEMMA ExecutedAll ==
    ASSUME NEW all, NEW curr, NEW ready, AddedInOrder, AllWorking(all),
           \A c \in all.sched : \E i \in 1 .. Len(commandsToRun) :
               c \in CommandsOf(i) /\ Wanted(i, all.mapping[i])
    PROVE  LET r == Mapper!executeAll(all, curr, ready)
           IN  /\ AllWorking(r)
               /\ \A c \in r.sched : \E i \in 1 .. Len(commandsToRun) :
                     c \in CommandsOf(i) /\ Wanting(i, r.mapping[i], curr)
<1> DEFINE L == Len(commandsToRun)
<1>1. L \in Nat /\ 1 .. L \subseteq DOMAIN Mappings
  BY MappingDomain DEF AddedInOrder
<1>2. PICK g : /\ g[0] = all
               /\ \A k \in 1 .. L : g[k] = Mapper!Execute(g[k - 1], commandsToRun[k], curr, ready)
               /\ Mapper!executeAll(all, curr, ready) = g[L]
  BY <1>1, Executing
<1> DEFINE Behind(n, i, c) ==
               /\ c \in CommandsOf(i)
               /\ IF i <= n THEN Wanting(i, g[n].mapping[i], curr) ELSE Wanted(i, g[n].mapping[i])
           Good(n) == AllWorking(g[n]) /\ \A c \in g[n].sched : \E i \in 1 .. L : Behind(n, i, c)
           S == {n \in Nat : n <= L => Good(n)}
<1> HIDE DEF L
<1>3. 0 \in S
  <2>1. \A i \in 1 .. L : ~(i <= 0)
    BY <1>1
  <2>2. Good(0)
    BY <1>2, <2>1 DEF L
  <2>3. QED
    BY <2>2
<1>4. ASSUME NEW n \in Nat, n \in S PROVE n + 1 \in S
  <2> SUFFICES ASSUME n + 1 <= L PROVE Good(n + 1)
    OBVIOUS
  <2> DEFINE m == n + 1
  <2>1. Good(n) /\ m \in 1 .. L /\ m - 1 = n
    BY <1>1, <1>4
  <2>2. commandsToRun[m] = m /\ m \in DOMAIN Mappings
    BY <1>1, <2>1 DEF AddedInOrder, L
  <2>3. g[m] = Mapper!Execute(g[n], m, curr, ready)
    BY <1>2, <2>1, <2>2
  <2> HIDE DEF m
  <2>4. /\ AllWorking(g[m])
        /\ \A j \in DOMAIN Mappings \ {m} : g[m].mapping[j] = g[n].mapping[j]
        /\ g[m].sched \subseteq g[n].sched \union CommandsOf(m)
        /\ \A c \in g[m].sched \intersect CommandsOf(m) :
              \/ Wanting(m, g[m].mapping[m], curr)
              \/ c \in g[n].sched /\ ~Wanted(m, g[n].mapping[m])
    BY <2>1, <2>2, <2>3, ExecuteOne
  <2>5. ASSUME NEW c \in g[m].sched PROVE \E i \in 1 .. L : Behind(m, i, c)
    <3>1. CASE c \in CommandsOf(m) /\ Wanting(m, g[m].mapping[m], curr)
      <4>1. m <= m /\ m \in 1 .. L
        BY <2>1 DEF m
      <4>2. Behind(m, m, c)
        BY <3>1, <4>1
      <4>3. QED
        BY <4>1, <4>2
    <3>2. CASE ~(c \in CommandsOf(m) /\ Wanting(m, g[m].mapping[m], curr))
      <4>1. c \in g[n].sched /\ (c \in CommandsOf(m) => ~Wanted(m, g[n].mapping[m]))
        BY <2>4, <2>5, <3>2
      <4>2. PICK i \in 1 .. L : Behind(n, i, c)
        BY <2>1, <4>1
      <4>3. i # m
        <5>1. m \in Nat /\ ~(m <= n)
          BY DEF m
        <5>2. QED
          BY <4>1, <4>2, <5>1
      <4>4. g[m].mapping[i] = g[n].mapping[i]
        BY <1>1, <2>4, <4>3
      <4>5. (i <= m) <=> (i <= n)
        BY <1>1, <4>3 DEF m
      <4>6. Behind(m, i, c)
        BY <4>2, <4>4, <4>5
      <4>7. QED
        BY <4>6
    <3>3. QED
      BY <3>1, <3>2
  <2>6. QED
    BY <2>4, <2>5 DEF m
<1>5. Good(L)
  <2> HIDE DEF Good
  <2>1. Nat \subseteq S
    <3> HIDE DEF S
    <3> QED BY <1>3, <1>4, Induction
  <2>2. QED
    BY <1>1, <2>1
<1>6. ASSUME NEW c \in g[L].sched
      PROVE  \E i \in 1 .. L : c \in CommandsOf(i) /\ Wanting(i, g[L].mapping[i], curr)
  <2>1. PICK i \in 1 .. L : Behind(L, i, c)
    BY <1>5, <1>6
  <2>2. i <= L
    BY <1>1
  <2>3. QED
    BY <2>1, <2>2
<1>7. QED
  BY <1>2, <1>5, <1>6 DEF L

LEMMA MapperInit == Mapper!Init => MapperInv
<1> SUFFICES ASSUME Mapper!Init PROVE MapperInv
  OBVIOUS
<1> DEFINE all == [sched |-> mapped, mapping |-> mapping, starts |-> starts]
<1>1. /\ mapping = [i \in DOMAIN Mappings |-> Mapper!Fresh(i)]
      /\ starts = [i \in DOMAIN Mappings |-> Mapper!Fresh(i).counts]
      /\ mapped = {} /\ commandsToRun = <<>>
  BY DEF Mapper!Init
<1>2. ASSUME NEW i \in DOMAIN Mappings
      PROVE  /\ Mapper!Fresh(i) \in OwnStates(i) /\ Mapper!Fresh(i).counts \in [1 .. Size(i) -> Nat]
             /\ Counted(i, Mapper!Fresh(i), Mapper!Fresh(i).counts)
  <2>1. /\ DOMAIN Mappings[i].cmds = 1 .. Size(i)
        /\ Mappings[i].maxTimes # -1 => Mappings[i].maxTimes \in Nat
    BY <1>2, MappingTypes
  <2>2. /\ Mapper!Fresh(i) \in OwnStates(i)
        /\ Mapper!Fresh(i).counts = [j \in 1 .. Size(i) |-> 0]
    BY <2>1 DEF Mapper!Fresh, OwnStates
  <2>3. QED
    BY <2>1, <2>2 DEF Counted
<1>3. AllWorking(all)
  <2>1. all.mapping = mapping /\ all.starts = starts
    OBVIOUS
  <2> HIDE DEF all
  <2>2. /\ all.mapping = [i \in DOMAIN Mappings |-> all.mapping[i]]
        /\ all.starts = [i \in DOMAIN Mappings |-> all.starts[i]]
    BY <1>1, <2>1
  <2>3. \A i \in DOMAIN Mappings :
           all.mapping[i] = Mapper!Fresh(i) /\ all.starts[i] = Mapper!Fresh(i).counts
    BY <1>1, <2>1
  <2>4. QED
    BY <1>2, <2>2, <2>3 DEF AllWorking
<1>4. AddedInOrder
  BY <1>1, MappingDomain DEF AddedInOrder
<1>5. QED
  BY <1>1, <1>3, <1>4 DEF MapperInv

LEMMA HandledAll ==
    ASSUME MapperInv, NEW curr, NEW ready, Mapper!handleKeyStateChange(curr, ready),
           UNCHANGED commandsToRun
    PROVE  MapperInv'
<1> DEFINE all == [sched |-> mapped, mapping |-> mapping, starts |-> starts]
           r == Mapper!executeAll(all, curr, ready)
<1>1. mapped' = r.sched /\ mapping' = r.mapping /\ starts' = r.starts /\ frame' = curr
  BY DEF Mapper!handleKeyStateChange
<1>2. AddedInOrder /\ AllWorking(all)
  BY DEF MapperInv
<1>3. \A c \in mapped : \E i \in 1 .. Len(commandsToRun) :
          c \in CommandsOf(i) /\ Wanted(i, mapping[i])
  <2> TAKE c \in mapped
  <2>1. PICK i \in 1 .. Len(commandsToRun) : c \in CommandsOf(i) /\ Wanting(i, mapping[i], frame)
    BY DEF MapperInv
  <2>2. i \in DOMAIN Mappings
    BY <1>2, MappingDomain DEF AddedInOrder
  <2>3. QED
    BY <2>1, <2>2, WantingIsWanted
<1>4. all.sched = mapped /\ all.mapping = mapping
  OBVIOUS
<1> HIDE DEF all
<1>5. /\ AllWorking(r)
      /\ \A c \in r.sched : \E i \in 1 .. Len(commandsToRun) :
            c \in CommandsOf(i) /\ Wanting(i, r.mapping[i], curr)
  BY <1>2, <1>3, <1>4, ExecutedAll
<1> HIDE DEF r
<1>6. AddedInOrder'
  BY <1>2 DEF AddedInOrder
<1>7. AllWorking([sched |-> mapped, mapping |-> mapping, starts |-> starts])'
  <2> DEFINE after == [sched |-> mapped', mapping |-> mapping', starts |-> starts']
  <2>1. after.mapping = r.mapping /\ after.starts = r.starts
    BY <1>1
  <2> HIDE DEF after
  <2>2. AllWorking(after)
    BY <1>5, <2>1 DEF AllWorking
  <2>3. QED
    BY <2>2 DEF after, AllWorking, OwnStates, Counted, Size
<1>8. \A c \in mapped' : \E i \in 1 .. Len(commandsToRun') :
          c \in CommandsOf(i) /\ Wanting(i, mapping'[i], frame')
  BY <1>1, <1>5
<1>9. QED
  BY <1>6, <1>7, <1>8 DEF MapperInv

LEMMA MapperNext == MapperInv /\ [Mapper!Next]_(Mapper!vars) => MapperInv'
<1> SUFFICES ASSUME MapperInv, [Mapper!Next]_(Mapper!vars) PROVE MapperInv'
  OBVIOUS
<1>1. ASSUME UNCHANGED <<mapping, starts, frame>>, mapped' \subseteq mapped,
             Len(commandsToRun) \in Nat, 1 .. Len(commandsToRun) \subseteq 1 .. Len(commandsToRun'),
             AddedInOrder'
      PROVE  MapperInv'
  <2>1. AllWorking([sched |-> mapped, mapping |-> mapping, starts |-> starts])'
    BY <1>1 DEF MapperInv, AllWorking, OwnStates, Counted
  <2>2. \A c \in mapped' : \E i \in 1 .. Len(commandsToRun') :
            c \in CommandsOf(i) /\ Wanting(i, mapping'[i], frame')
    BY <1>1 DEF MapperInv
  <2>3. QED
    BY <1>1, <2>1, <2>2 DEF MapperInv
<1>2. Len(commandsToRun) \in Nat /\ AddedInOrder
  BY DEF MapperInv, AddedInOrder
<1>3. UNCHANGED commandsToRun => AddedInOrder'
  BY <1>2 DEF AddedInOrder
<1>4. CASE Mapper!addMap
  <2> DEFINE n == Len(commandsToRun) + 1
  <2>1. /\ commandsToRun' = Append(commandsToRun, n) /\ commandsToRun \in Seq(Nat)
        /\ Len(commandsToRun) < Len(Mappings) /\ n \in Nat
        /\ UNCHANGED <<mapping, starts, frame, mapped>>
    BY <1>2, <1>4 DEF Mapper!addMap, AddedInOrder
  <2>2. /\ commandsToRun' \in Seq(Nat) /\ Len(commandsToRun') = n
        /\ \A k \in 1 .. n : commandsToRun'[k] = k
    BY <1>2, <2>1 DEF AddedInOrder
  <2>3. AddedInOrder'
    BY <1>2, <2>1, <2>2, MappingDomain DEF AddedInOrder
  <2>4. QED
    BY <1>1, <1>2, <2>1, <2>2, <2>3
<1>5. CASE Mapper!reset
  BY <1>5, HandledAll DEF Mapper!reset
<1>6. CASE Mapper!parseBuffer
  BY <1>6, HandledAll DEF Mapper!parseBuffer
<1>7. CASE Mapper!run
  BY <1>1, <1>2, <1>3, <1>7 DEF Mapper!run
<1>8. CASE Mapper!SafetyChanges
  BY <1>1, <1>2, <1>3, <1>8 DEF Mapper!SafetyChanges
<1>9. CASE UNCHANGED Mapper!vars
  BY <1>1, <1>2, <1>3, <1>9 DEF Mapper!vars
<1>10. QED
  BY <1>4, <1>5, <1>6, <1>7, <1>8, <1>9 DEF Mapper!Next

(* What holds of the mapper by itself holds of it beside the other parts. *)
LEMMA RunsMapper == ControlSpec => Mapper!Spec
<1>1. ControlInit => Mapper!Init
  BY DEF ControlInit
<1>2. [ControlNext]_controlVars => [Mapper!Next]_(Mapper!vars)
  <2> SUFFICES ASSUME [ControlNext]_controlVars PROVE [Mapper!Next]_(Mapper!vars)
    OBVIOUS
  <2>1. CASE UNCHANGED mapperVars
    BY <2>1 DEF mapperVars, Mapper!vars
  <2>2. QED
    BY <2>1 DEF ControlNext, UseRegistrar, UseMapper, UseMenu, UseTerminal, UseServer, controlVars
<1>3. QED
  BY <1>1, <1>2, PTL DEF ControlSpec, Mapper!Spec

LEMMA ObeysMappings == MapperInv => MappingsObeyed
<1> SUFFICES ASSUME MapperInv PROVE MappingsObeyed
  OBVIOUS
<1>1. AddedInOrder /\ AllWorking([sched |-> mapped, mapping |-> mapping, starts |-> starts])
  BY DEF MapperInv
<1>2. Mapper!Added = 1 .. Len(commandsToRun) /\ 1 .. Len(commandsToRun) \subseteq DOMAIN Mappings
  BY <1>1, MappingDomain DEF AddedInOrder, Mapper!Added, Mapper!Range
<1>3. Mapper!NothingLeftRunning
  <2> SUFFICES ASSUME NEW c \in mapped
               PROVE  \E i \in Mapper!Added :
                          Mapper!On(i) /\ c \in Mapper!Range(Mapper!mappedCommands(i))
    BY DEF Mapper!NothingLeftRunning
  <2>1. PICK i \in 1 .. Len(commandsToRun) : c \in CommandsOf(i) /\ Wanting(i, mapping[i], frame)
    BY DEF MapperInv
  <2>2. Mappings[i].kind \in {"hold", "repeat", "press", "toggle"} /\ Mappings[i].ends \in BOOLEAN
    BY <1>2, MappingTypes
  <2>3. Mapper!On(i)
    BY <2>1, <2>2 DEF Wanting, Mapper!On
  <2>4. QED
    BY <1>2, <2>1, <2>3 DEF CommandsOf
<1>4. Mapper!StartsBounded
  <2> SUFFICES ASSUME NEW i \in Mapper!Added, NEW k \in DOMAIN starts[i]
               PROVE  /\ Mappings[i].kind \in {"hold", "press"} => starts[i][k] <= 1
                      /\ Mappings[i].kind = "repeat" /\ Mappings[i].maxTimes # -1
                            => starts[i][k] <= Mappings[i].maxTimes
    BY DEF Mapper!StartsBounded
  <2>1. /\ i \in DOMAIN Mappings /\ mapping[i] \in OwnStates(i)
        /\ starts[i] \in [1 .. Size(i) -> Nat] /\ Counted(i, mapping[i], starts[i])
    BY <1>1, <1>2 DEF AllWorking
  <2>2. k \in 1 .. Size(i) /\ starts[i][k] \in Nat /\ mapping[i].counts[k] \in Nat
    BY <2>1 DEF OwnStates
  <2>3. Mappings[i].maxTimes \in Nat \union {-1}
    BY <2>1, MappingTypes
  <2>4. QED
    BY <2>1, <2>2, <2>3 DEF Counted
<1>5. QED
  BY <1>3, <1>4 DEF MappingsObeyed

(* For any mappings, their commands shared or not, any frames and any commands
   that finish or are evicted: a command runs only as long as a mapping wants it
   (hold_command_mapping.cpp, toggle_command_mapping.cpp), and a key that is held
   starts the commands once, or as often as the repeat mapping may
   (hold_repeat_command_mapping.cpp:36-47). *)
THEOREM MappingsKept == ControlSpec => []MappingsObeyed
<1>1. Mapper!Init => MapperInv
  BY MapperInit
<1>2. MapperInv /\ [Mapper!Next]_(Mapper!vars) => MapperInv'
  BY MapperNext
<1>3. QED
  BY <1>1, <1>2, ObeysMappings, RunsMapper, PTL DEF Mapper!Spec

-----------------------------------------------------------------------------
(* What a scroll handler keeps, whatever sizes it is given.  A window stays at
   the top until the cursor has been in the list, and the cursor is before the
   list, or on its first line, only while there is nothing else. *)
ScrollLogic ==
    [size : Nat, cursorIndex : Int, smallestIndexDisplayed : Nat, cursorChanged : BOOLEAN]

Scrolls(s) ==
    /\ s \in ScrollLogic
    /\ s.cursorIndex >= -1
    /\ s.cursorIndex = -1 \/ s.size = 0 => s.smallestIndexDisplayed = 0
    /\ s.size = 0 => s.cursorIndex <= 0
    /\ s.cursorIndex >= 0 /\ s.size > 0 => Menu!Visible(s, s.cursorIndex)
    /\ s.smallestIndexDisplayed = 0 \/ s.smallestIndexDisplayed + maxEntries <= s.size

(* Listed is what makes the numbers of lines natural numbers. *)
Listed == IsFiniteSet(subsystems) /\ IsFiniteSet(active)

(* The menus extend FiniteSets themselves: its operators are the same there. *)
LEMMA SameSizes ==
    ASSUME NEW S
    PROVE  (Menu!IsFiniteSet(S) <=> IsFiniteSet(S)) /\ Menu!Cardinality(S) = Cardinality(S)
<1>1. Menu!IsFiniteSet(S) <=> IsFiniteSet(S)
  BY DEF Menu!IsFiniteSet, IsFiniteSet
<1>2. Menu!Cardinality(S) = Cardinality(S)
  BY DEF Menu!Cardinality, Cardinality
<1>3. QED
  BY <1>1, <1>2

LEMMA MenusFinite ==
    ASSUME Menu!MenusAssumption
    PROVE  /\ IsFiniteSet(Subsystems) /\ IsFiniteSet(MenuMotors)
           /\ Tested \subseteq Subsystems /\ IsFiniteSet(Tested)
           /\ Cardinality(Tested) \in Nat /\ Cardinality(MenuMotors) \in Nat
<1>1. IsFiniteSet(Subsystems) /\ IsFiniteSet(MenuMotors) /\ Tested \subseteq Subsystems
  BY SameSizes DEF Menu!MenusAssumption
<1>2. IsFiniteSet(Tested)
  BY <1>1, FS_Subset
<1>3. QED
  BY <1>1, <1>2, FS_CardinalityType

LEMMA CursorMoved ==
    ASSUME NEW s \in ScrollLogic, NEW c \in Int
    PROVE  /\ Menu!setCursor(s, c) \in ScrollLogic
           /\ Menu!setCursor(s, c).cursorIndex = c
           /\ Menu!setCursor(s, c).smallestIndexDisplayed = s.smallestIndexDisplayed
           /\ Menu!setCursor(s, c).size = s.size
  BY DEF ScrollLogic, Menu!setCursor

LEMMA WindowMoved ==
    ASSUME NEW s \in ScrollLogic, NEW top \in Nat
    PROVE  LET t == [s EXCEPT !.smallestIndexDisplayed = top]
           IN  /\ t \in ScrollLogic /\ t.cursorIndex = s.cursorIndex
               /\ t.smallestIndexDisplayed = top /\ t.size = s.size
  BY DEF ScrollLogic

LEMMA NewScrolls ==
    ASSUME Menu!MenusAssumption, NEW n \in Nat PROVE Scrolls(Menu!NewScroll(n))
  BY DEF Menu!MenusAssumption, Menu!NewScroll, ScrollLogic, Scrolls, Menu!Visible, Menu!getLargestIndexDisplayed

LEMMA DownScrolls ==
    ASSUME Menu!MenusAssumption, NEW s, Scrolls(s), s.size # 0 PROVE Scrolls(Menu!Down(s))
<1> DEFINE moved == Menu!setCursor(s, s.cursorIndex + 1)
<1>1. /\ maxEntries \in Nat \ {0} /\ s \in ScrollLogic
      /\ s.cursorIndex \in Int /\ s.smallestIndexDisplayed \in Nat /\ s.size \in Nat
  BY DEF Menu!MenusAssumption, Scrolls, ScrollLogic
<1>2. /\ moved \in ScrollLogic /\ moved.cursorIndex = s.cursorIndex + 1
      /\ moved.smallestIndexDisplayed = s.smallestIndexDisplayed /\ moved.size = s.size
  <2>1. s.cursorIndex + 1 \in Int
    BY <1>1
  <2>2. QED
    BY ONLY <1>1, <2>1, CursorMoved
<1>3. CASE s.cursorIndex >= s.size - 1
  BY <1>3 DEF Menu!Down
<1>4. CASE s.cursorIndex < s.size - 1
  <2> HIDE DEF moved
  <2>1. CASE moved.cursorIndex <= Menu!getLargestIndexDisplayed(moved)
    <3>1. Menu!Down(s) = moved
      BY <1>1, <1>4, <2>1 DEF Menu!Down, moved
    <3>2. Scrolls(moved)
      BY <1>1, <1>2, <1>4, <2>1 DEF Scrolls, Menu!Visible, Menu!getLargestIndexDisplayed
    <3>3. QED
      BY <3>1, <3>2
  <2>2. CASE ~(moved.cursorIndex <= Menu!getLargestIndexDisplayed(moved))
    <3> DEFINE t == [moved EXCEPT !.smallestIndexDisplayed = s.smallestIndexDisplayed + 1]
    <3>1. Menu!Down(s) = t
      BY <1>1, <1>2, <1>4, <2>2 DEF Menu!Down, moved
    <3>2. /\ t \in ScrollLogic /\ t.cursorIndex = s.cursorIndex + 1
          /\ t.smallestIndexDisplayed = s.smallestIndexDisplayed + 1 /\ t.size = s.size
      <4>1. s.smallestIndexDisplayed + 1 \in Nat
        BY <1>1
      <4>2. QED
        BY ONLY <1>2, <4>1, WindowMoved
    <3> HIDE DEF t
    <3>3. Scrolls(t)
      BY <1>1, <1>2, <1>4, <2>2, <3>2 DEF Scrolls, Menu!Visible, Menu!getLargestIndexDisplayed
    <3>4. QED
      BY <3>1, <3>3
  <2>3. QED
    BY <2>1, <2>2
<1>5. QED
  BY <1>1, <1>3, <1>4

LEMMA UpScrolls ==
    ASSUME Menu!MenusAssumption, NEW s, Scrolls(s), s.size # 0 PROVE Scrolls(Menu!Up(s))
<1> DEFINE moved == Menu!setCursor(s, s.cursorIndex - 1)
<1>1. /\ maxEntries \in Nat \ {0} /\ s \in ScrollLogic
      /\ s.cursorIndex \in Int /\ s.smallestIndexDisplayed \in Nat /\ s.size \in Nat
  BY DEF Menu!MenusAssumption, Scrolls, ScrollLogic
<1>2. /\ moved \in ScrollLogic /\ moved.cursorIndex = s.cursorIndex - 1
      /\ moved.smallestIndexDisplayed = s.smallestIndexDisplayed /\ moved.size = s.size
  <2>1. s.cursorIndex - 1 \in Int
    BY <1>1
  <2>2. QED
    BY ONLY <1>1, <2>1, CursorMoved
<1>3. CASE s.cursorIndex <= 0
  BY <1>3 DEF Menu!Up
<1>4. CASE s.cursorIndex > 0
  <2> HIDE DEF moved
  <2>1. CASE moved.cursorIndex >= moved.smallestIndexDisplayed
    <3>1. Menu!Up(s) = moved
      BY <1>1, <1>4, <2>1 DEF Menu!Up, moved
    <3>2. Scrolls(moved)
      BY <1>1, <1>2, <1>4, <2>1 DEF Scrolls, Menu!Visible, Menu!getLargestIndexDisplayed
    <3>3. QED
      BY <3>1, <3>2
  <2>2. CASE ~(moved.cursorIndex >= moved.smallestIndexDisplayed)
    <3> DEFINE t == [moved EXCEPT !.smallestIndexDisplayed = s.smallestIndexDisplayed - 1]
    <3>1. Menu!Up(s) = t
      BY <1>1, <1>2, <1>4, <2>2 DEF Menu!Up, moved
    <3>2. s.smallestIndexDisplayed - 1 \in Nat
      BY <1>1, <1>2, <1>4, <2>2
    <3>3. /\ t \in ScrollLogic /\ t.cursorIndex = s.cursorIndex - 1
          /\ t.smallestIndexDisplayed = s.smallestIndexDisplayed - 1 /\ t.size = s.size
      BY ONLY <1>2, <3>2, WindowMoved
    <3> HIDE DEF t
    <3>4. Scrolls(t)
      BY <1>1, <1>2, <1>4, <2>2, <3>3 DEF Scrolls, Menu!Visible, Menu!getLargestIndexDisplayed
    <3>5. QED
      BY <3>1, <3>4
  <2>3. QED
    BY <2>1, <2>2
<1>5. QED
  BY <1>1, <1>3, <1>4

(* The window is compared with the old size, which is enough. *)
LEMMA SetSizeScrolls ==
    ASSUME Menu!MenusAssumption, NEW s, Scrolls(s), NEW n \in Nat PROVE Scrolls(Menu!setSize(s, n))
<1> DEFINE moved == IF s.cursorIndex >= n THEN Menu!setCursor(s, n - 1) ELSE s
           cursor == IF s.cursorIndex >= n THEN n - 1 ELSE s.cursorIndex
           top == Menu!Window(moved, n)
           u == [moved EXCEPT !.smallestIndexDisplayed = top, !.size = n]
<1>1. /\ maxEntries \in Nat \ {0} /\ s \in ScrollLogic
      /\ s.cursorIndex \in Int /\ s.smallestIndexDisplayed \in Nat /\ s.size \in Nat
  BY DEF Menu!MenusAssumption, Scrolls, ScrollLogic
<1>2. /\ moved \in ScrollLogic /\ moved.cursorIndex = cursor
      /\ moved.smallestIndexDisplayed = s.smallestIndexDisplayed /\ moved.size = s.size
  <2>1. n - 1 \in Int
    OBVIOUS
  <2>2. CASE s.cursorIndex >= n
    BY ONLY <1>1, <2>1, <2>2, CursorMoved
  <2>3. CASE ~(s.cursorIndex >= n)
    BY <1>1, <2>3
  <2>4. QED
    BY <2>2, <2>3
<1> HIDE DEF moved
<1>3. /\ top \in Nat
      /\ cursor \in Int /\ cursor >= -1
      /\ cursor = -1 \/ n = 0 => top = 0
      /\ n = 0 => cursor <= 0
      /\ cursor >= 0 /\ n > 0 =>
             /\ top <= cursor
             /\ cursor <= (IF top + maxEntries < n THEN top + maxEntries ELSE n) - 1
      /\ top = 0 \/ top + maxEntries <= n
  <2>1. CASE Menu!getLargestIndexDisplayed(s) < n
    <3>1. top = s.smallestIndexDisplayed
      BY <1>2, <2>1 DEF Menu!Window, Menu!getLargestIndexDisplayed
    <3>2. QED
      BY <1>1, <2>1, <3>1 DEF Scrolls, Menu!Visible, Menu!getLargestIndexDisplayed
  <2>2. CASE ~(Menu!getLargestIndexDisplayed(s) < n)
    <3>1. top = IF n - maxEntries > 0 THEN n - maxEntries ELSE 0
      BY <1>2, <2>2 DEF Menu!Window, Menu!getLargestIndexDisplayed
    <3>2. QED
      BY <1>1, <2>2, <3>1 DEF Scrolls, Menu!Visible, Menu!getLargestIndexDisplayed
  <2>3. QED
    BY <2>1, <2>2
<1> HIDE DEF cursor, top
<1>4. /\ u \in ScrollLogic /\ u.cursorIndex = cursor
      /\ u.smallestIndexDisplayed = top /\ u.size = n
  <2>1. top \in Nat
    BY <1>3
  <2>2. ASSUME NEW r \in ScrollLogic
        PROVE  LET t == [r EXCEPT !.smallestIndexDisplayed = top, !.size = n]
               IN  /\ t \in ScrollLogic /\ t.cursorIndex = r.cursorIndex
                   /\ t.smallestIndexDisplayed = top /\ t.size = n
    BY <2>1 DEF ScrollLogic
  <2>3. QED
    BY ONLY <1>2, <2>2
<1>5. Menu!setSize(s, n) = u
  BY DEF Menu!setSize, moved, top, u
<1> HIDE DEF u
<1>6. Scrolls(u)
  BY <1>3, <1>4 DEF Scrolls, Menu!Visible, Menu!getLargestIndexDisplayed
<1>7. QED
  BY <1>5, <1>6

LEMMA SizedScrolls ==
    ASSUME Menu!MenusAssumption, NEW s, Scrolls(s), Listed PROVE Scrolls(Menu!Sized(s))
<1>1. Menu!Cardinality(Menu!SchedulerList) \in Nat
  <2>1. Cardinality(Menu!SchedulerList) \in Nat
    BY FS_Union, FS_CardinalityType DEF Listed, Menu!SchedulerList
  <2>2. QED
    BY <2>1, SameSizes
<1>2. Menu!Cardinality(Tested) + 1 \in Nat
  <2>1. Menu!Cardinality(Tested) \in Nat
    BY MenusFinite, SameSizes
  <2>2. QED
    BY <2>1
<1>3. QED
  BY <1>1, <1>2, SetSizeScrolls DEF Menu!Sized

LEMMA ListedNext == ASSUME Menu!MenusAssumption, Listed, Menu!Next PROVE Listed'
<1>1. /\ IsFiniteSet(Subsystems) /\ IsFiniteSet(Tested)
      /\ IsFiniteSet(subsystems) /\ IsFiniteSet(active)
  BY MenusFinite DEF Listed
<1>2. CASE Menu!Open \/ Menu!Press \/ Menu!Poll
  BY <1>2 DEF Menu!Open, Menu!Press, Menu!Poll, Listed
<1>3. CASE Menu!PressOK
  <2>1. subsystems' = subsystems
    BY <1>3 DEF Menu!PressOK
  <2>2. ASSUME NEW tests \in SUBSET Tested, Menu!Run(tests) PROVE IsFiniteSet(active')
    <3>1. PICK accepted \in SUBSET tests, evicted \in SUBSET active :
            active' = (active \ evicted) \union accepted
      BY <2>2 DEF Menu!Run
    <3>2. IsFiniteSet(active \ evicted) /\ IsFiniteSet(accepted)
      BY <1>1, FS_Subset
    <3>3. QED
      BY <3>1, <3>2, FS_Union
  <2>3. \/ \E tests : active' = active \ tests
        \/ \E tests \in SUBSET Tested : Menu!Run(tests)
    BY <1>3 DEF Menu!PressOK, Menu!Stop
  <2>4. \A tests : IsFiniteSet(active \ tests)
    BY <1>1, FS_Subset
  <2>5. QED
    BY <1>1, <2>1, <2>2, <2>3, <2>4 DEF Listed
<1>4. CASE Menu!Close
  BY <1>4, FS_EmptySet DEF Menu!Close, Listed
<1>5. CASE Menu!Happens
  <2>1. \A x : /\ IsFiniteSet(subsystems \union {x}) /\ IsFiniteSet(subsystems \ {x})
               /\ IsFiniteSet(active \union {x}) /\ IsFiniteSet(active \ {x})
    BY <1>1, FS_AddElement, FS_RemoveElement
  <2>2. \A stopped : IsFiniteSet(active \ stopped)
    BY <1>1, FS_Subset
  <2>3. CASE Menu!CommandsGoOn
    BY <1>1, <2>1, <2>3 DEF Menu!CommandsGoOn, Listed
  <2>4. CASE Menu!TestsGoOn
    BY <1>1, <2>2, <2>4 DEF Menu!TestsGoOn, Listed
  <2>5. CASE Menu!MotorsGoOn
    BY <1>1, <2>1, <2>5 DEF Menu!MotorsGoOn, Listed
  <2>6. QED
    BY <1>5, <2>3, <2>4, <2>5 DEF Menu!Happens
<1>6. QED
  BY <1>2, <1>3, <1>4, <1>5 DEF Menu!Next

LEMMA ScrollsNext == ASSUME Menu!MenusAssumption, Listed, Scrolls(scroll), Menu!Next PROVE Scrolls(scroll')
<1>1. CASE Menu!Open
  <2>1. Menu!Cardinality(MenuMotors) \in Nat
    BY MenusFinite, SameSizes
  <2>2. Scrolls(Menu!NewScroll(IF kind = "motors" THEN Menu!Cardinality(MenuMotors) ELSE 0))
    BY <2>1, NewScrolls
  <2>3. QED
    BY <1>1, <2>2, SizedScrolls DEF Menu!Open, Menu!draw
<1>2. CASE Menu!Press
  BY <1>2, DownScrolls, UpScrolls DEF Menu!Press
<1>3. CASE Menu!Poll
  <2>1. Scrolls(Menu!acknowledged(scroll))
    <3> DEFINE t == Menu!acknowledged(scroll)
    <3>1. /\ t \in ScrollLogic /\ t.cursorIndex = scroll.cursorIndex
          /\ t.smallestIndexDisplayed = scroll.smallestIndexDisplayed /\ t.size = scroll.size
      BY DEF Scrolls, ScrollLogic, Menu!acknowledged
    <3> HIDE DEF t
    <3>2. Scrolls(t)
      BY <3>1 DEF Scrolls, Menu!Visible, Menu!getLargestIndexDisplayed
    <3>3. QED
      BY <3>2 DEF t
  <2>2. QED
    BY <1>3, <2>1, SizedScrolls DEF Menu!Poll, Menu!draw
<1>4. CASE Menu!PressOK \/ Menu!Close \/ Menu!Happens
  BY <1>4 DEF Menu!PressOK, Menu!Close, Menu!Happens
<1>5. QED
  BY <1>1, <1>2, <1>3, <1>4 DEF Menu!Next

-----------------------------------------------------------------------------
(* What the lines were made from. *)
SchedulerLinesOf(s, list) ==
    {Menu!Line(x, Menu!Index(x, list) = s.cursorIndex, <<>>) :
        x \in {y \in list : Menu!Visible(s, Menu!Index(y, list))}}

TestLinesOf(s, run, pass) ==
    {Menu!Line(Menu!All, s.cursorIndex = 0, <<Menu!Cardinality(run)>>)}
        \union {Menu!Line(x, Menu!TestIndex(x) = s.cursorIndex,
                          <<IF x \in pass THEN "+" ELSE "x", IF x \in run THEN "stop" ELSE "run">>) :
                    x \in {y \in Tested : Menu!Visible(s, Menu!TestIndex(y))}}

MotorLinesOf(s, table, online) ==
    {Menu!Line(x, x = s.cursorIndex,
               <<IF x \notin table THEN "NULL" ELSE IF x \in online THEN "ON" ELSE "OFF">>) :
        x \in {y \in MenuMotors : Menu!Visible(s, y)}}

(* While the cursor is left alone, the screen shows what previous remembers.  The
   first draw of the scheduler's menu remembers nothing, which is as if there
   were no subsystem, and then there is no command either. *)
SchedulerDrawn ==
    /\ firstDrawTime => previous = <<{}, {}>>
    /\ \A list, running : previous = <<list, running>> /\ (list = {} => subsystems = {}) =>
           scroll.cursorChanged \/ screen = SchedulerLinesOf(scroll, list \union running)

(* Tests were drawn when run ran and pass had passed.  As long as none started, or
   none ended, as many that run are the same, and so are the verdicts of those
   that ran then and now. *)
TestsDrawn ==
    \E run, pass :
        /\ IsFiniteSet(run) /\ previous = <<Menu!Cardinality(run)>>
        /\ "started" \notin since => active \subseteq run
        /\ "ended" \notin since => run \subseteq active
        /\ "verdict" \in since \/ {"started", "ended"} \subseteq since
           \/ \A x : (x \in passed) # (x \in pass) => (x \in active) # (x \in run)
        /\ \E l \in screen : l.entry = Menu!All /\ l.said = previous
        /\ scroll.cursorChanged \/ screen = TestLinesOf(scroll, run, pass)

(* Motors were drawn when those of table were there and those of online online.
   What was in previous before the first poll means nothing. *)
MotorsDrawn ==
    \E table, online :
        /\ online \subseteq table
        /\ "table" \in since \/ table = subsystems
        /\ "early" \in since \/ (IF firstDrawTime THEN online = active ELSE previous = <<online>>)
        /\ scroll.cursorChanged \/ screen = MotorLinesOf(scroll, table, online)

Drawn ==
    /\ kind = "scheduler" => SchedulerDrawn
    /\ kind = "tests" => TestsDrawn
    /\ kind = "motors" => MotorsDrawn

(* No test runs before its menu is opened, and the menu lists at least All. *)
TestsOpened == kind = "tests" => IF open THEN scroll.size # 0 ELSE active = {}

(* No command runs without a subsystem, and no motor is online without being in
   the tables. *)
Registered ==
    /\ kind \in {"scheduler", "tests", "motors"}
    /\ kind = "scheduler" /\ subsystems = {} => active = {}
    /\ kind = "motors" => active \subseteq subsystems

MenuInv ==
    /\ Listed /\ Registered /\ Scrolls(scroll) /\ TestsOpened
    /\ open => Drawn
    /\ Menu!ScreenUpToDate

(* What runs or stops, and what the run of tests is told. *)
LEMMA RunTests ==
    ASSUME NEW tests, Menu!Run(tests), open
    PROVE  \E accepted \in SUBSET tests, evicted \in SUBSET active :
               /\ active' = (active \ evicted) \union accepted
               /\ passed' = passed \ tests
               /\ since \subseteq since'
               /\ accepted # {} => "started" \in since'
               /\ evicted # {} => "ended" \in since'
               /\ passed \intersect (tests \ accepted) # {} => "verdict" \in since'
  BY DEF Menu!Run, Menu!Record

LEMMA RegisteredNext == ASSUME Registered, Menu!Next PROVE Registered'
<1>1. CASE Menu!Open \/ Menu!Press \/ Menu!Poll
  BY <1>1 DEF Menu!Open, Menu!Press, Menu!Poll, Registered
<1>2. CASE Menu!PressOK
  BY <1>2 DEF Menu!PressOK, Registered
<1>3. CASE Menu!Close
  BY <1>3 DEF Menu!Close, Registered
<1>4. CASE Menu!Happens
  <2>1. CASE Menu!CommandsGoOn
    BY <1>4, <2>1 DEF Menu!Happens, Menu!CommandsGoOn, Registered
  <2>2. CASE Menu!TestsGoOn
    BY <1>4, <2>2 DEF Menu!Happens, Menu!TestsGoOn, Registered
  <2>3. CASE Menu!MotorsGoOn
    BY <1>4, <2>3 DEF Menu!Happens, Menu!MotorsGoOn, Registered
  <2>4. QED
    BY <1>4, <2>1, <2>2, <2>3 DEF Menu!Happens
<1>5. QED
  BY <1>1, <1>2, <1>3, <1>4 DEF Menu!Next

LEMMA Redrawn ==
    ASSUME NEW s, Menu!draw(s), UNCHANGED <<kind, subsystems, active, passed>>
    PROVE  /\ since' = {}
           /\ screen' = Menu!Lines(scroll)'
           /\ kind = "scheduler" => screen' = SchedulerLinesOf(scroll', subsystems \union active)
           /\ kind = "motors" => screen' = MotorLinesOf(scroll', subsystems, active)
           /\ kind = "tests" =>
                /\ screen' = TestLinesOf(scroll', active, passed)
                /\ \E l \in screen' : l.entry = Menu!All /\ l.said = <<Menu!Cardinality(active)>>
<1>1. since' = {} /\ screen' = Menu!Lines(scroll') /\ screen' = Menu!Lines(scroll)'
  BY DEF Menu!draw, Menu!Lines, Menu!SchedulerLines, Menu!TestLines, Menu!MotorLines,
         Menu!SchedulerList, Menu!TestStatus, Menu!MotorStatus
<1>2. CASE kind = "tests"
  <2> DEFINE l == Menu!Line(Menu!All, scroll'.cursorIndex = 0, <<Menu!Cardinality(active)>>)
  <2>1. screen' = TestLinesOf(scroll', active, passed)
    BY <1>1, <1>2 DEF Menu!Lines, Menu!TestLines, Menu!TestStatus, TestLinesOf
  <2>2. l \in screen' /\ l.entry = Menu!All /\ l.said = <<Menu!Cardinality(active)>>
    BY <2>1 DEF TestLinesOf, Menu!Line
  <2>3. QED
    BY <1>1, <1>2, <2>1, <2>2
<1>3. CASE kind # "tests"
  BY <1>1, <1>3 DEF Menu!Lines, Menu!SchedulerLines, Menu!MotorLines, Menu!SchedulerList,
                    Menu!MotorStatus, SchedulerLinesOf, MotorLinesOf
<1>4. QED
  BY <1>2, <1>3

LEMMA SizedTests ==
    ASSUME Menu!MenusAssumption, NEW s, Scrolls(s), kind = "tests"
    PROVE  Menu!Sized(s).size # 0
<1>1. CASE s.size # 0
  BY <1>1 DEF Menu!Sized
<1>2. CASE s.size = 0
  <2> DEFINE n == Menu!Cardinality(Tested) + 1
  <2>1. n \in Nat \ {0}
    <3>1. Menu!Cardinality(Tested) \in Nat
      BY MenusFinite, SameSizes
    <3>2. QED
      BY <3>1
  <2>2. Menu!Sized(s) = Menu!setSize(s, n)
    BY <1>2 DEF Menu!Sized
  <2> HIDE DEF n
  <2>3. ASSUME NEW r \in ScrollLogic, NEW top
        PROVE  [r EXCEPT !.smallestIndexDisplayed = top, !.size = n].size = n
    BY DEF ScrollLogic
  <2>4. s \in ScrollLogic /\ n - 1 \in Int
    BY <2>1 DEF Scrolls
  <2>5. Menu!setCursor(s, n - 1) \in ScrollLogic
    BY ONLY <2>4, CursorMoved
  <2>6. Menu!setSize(s, n).size = n
    BY <2>3, <2>4, <2>5 DEF Menu!setSize
  <2>7. QED
    BY <2>1, <2>2, <2>6
<1>3. QED
  BY <1>1, <1>2

LEMMA AcknowledgedScrolls ==
    ASSUME NEW s, Scrolls(s) PROVE Scrolls(Menu!acknowledged(s))
<1> DEFINE t == Menu!acknowledged(s)
<1>1. /\ t \in ScrollLogic /\ t.cursorIndex = s.cursorIndex
      /\ t.smallestIndexDisplayed = s.smallestIndexDisplayed /\ t.size = s.size
  BY DEF Scrolls, ScrollLogic, Menu!acknowledged
<1> HIDE DEF t
<1>2. Scrolls(t)
  BY <1>1 DEF Scrolls, Menu!Visible, Menu!getLargestIndexDisplayed
<1>3. QED
  BY <1>2 DEF t

LEMMA PressedScrolls ==
    ASSUME NEW s, Scrolls(s), NEW t \in {Menu!Down(s), Menu!Up(s)}
    PROVE  t = s \/ (t.cursorChanged = TRUE /\ t.size = s.size)
<1>1. s \in ScrollLogic /\ s.cursorIndex + 1 \in Int /\ s.cursorIndex - 1 \in Int
  BY DEF Scrolls, ScrollLogic
<1>2. ASSUME NEW c \in Int, t = Menu!setCursor(s, c)
      PROVE  t.cursorChanged = TRUE /\ t.size = s.size
  BY <1>1, <1>2 DEF ScrollLogic, Menu!setCursor
<1>3. ASSUME NEW c \in Int, NEW top, t = [Menu!setCursor(s, c) EXCEPT !.smallestIndexDisplayed = top]
      PROVE  t.cursorChanged = TRUE /\ t.size = s.size
  BY <1>1, <1>3 DEF ScrollLogic, Menu!setCursor
<1>4. CASE t = Menu!Down(s)
  BY <1>1, <1>2, <1>3, <1>4 DEF Menu!Down
<1>5. CASE t = Menu!Up(s)
  BY <1>1, <1>2, <1>3, <1>5 DEF Menu!Up
<1>6. QED
  BY <1>4, <1>5

LEMMA TestsOpenedNext ==
    ASSUME Menu!MenusAssumption, Scrolls(scroll), TestsOpened, Menu!Next PROVE TestsOpened'
<1>1. CASE Menu!Open
  <2>1. Scrolls(Menu!NewScroll(0))
    BY NewScrolls
  <2>2. kind = "tests" => scroll' = Menu!Sized(Menu!NewScroll(0))
    BY <1>1 DEF Menu!Open, Menu!draw
  <2>3. kind = "tests" => scroll'.size # 0
    BY <2>1, <2>2, SizedTests
  <2>4. QED
    BY <1>1, <2>3 DEF Menu!Open, TestsOpened
<1>2. CASE Menu!Press
  <2>1. scroll'.size = scroll.size
    BY <1>2, PressedScrolls DEF Menu!Press
  <2>2. QED
    BY <1>2, <2>1 DEF Menu!Press, TestsOpened
<1>3. CASE Menu!Poll
  <2>1. kind = "tests" => scroll'.size # 0
    <3> SUFFICES ASSUME kind = "tests" PROVE scroll'.size # 0
      OBVIOUS
    <3>1. scroll.size # 0
      BY <1>3 DEF Menu!Poll, TestsOpened
    <3>2. Menu!Sized(Menu!acknowledged(scroll)).size # 0
      BY AcknowledgedScrolls, SizedTests
    <3>3. QED
      BY <1>3, <3>1, <3>2 DEF Menu!Poll, Menu!draw
  <2>2. QED
    BY <1>3, <2>1 DEF Menu!Poll, TestsOpened
<1>4. CASE Menu!PressOK
  BY <1>4 DEF Menu!PressOK, TestsOpened
<1>5. CASE Menu!Close
  BY <1>5 DEF Menu!Close, TestsOpened
<1>6. CASE Menu!Happens
  BY <1>6 DEF Menu!Happens, Menu!CommandsGoOn, Menu!TestsGoOn, Menu!MotorsGoOn, TestsOpened
<1>7. QED
  BY <1>1, <1>2, <1>3, <1>4, <1>5, <1>6 DEF Menu!Next

(* A menu that was drawn a moment ago. *)
LEMMA OpenDraws == ASSUME Listed, Registered, TestsOpened, Menu!Open PROVE Drawn'
<1>1. PICK s : Menu!draw(s)
  BY DEF Menu!Open
<1>2. /\ UNCHANGED <<kind, subsystems, active, passed>> /\ ~open /\ firstDrawTime' = TRUE
      /\ previous' \in Menu!Initial
  BY DEF Menu!Open
<1>3. CASE kind = "scheduler"
  <2>1. previous' = <<{}, {}>>
    BY <1>2, <1>3 DEF Menu!Initial
  <2>2. screen' = SchedulerLinesOf(scroll', subsystems \union active)
    BY ONLY <1>1, <1>2, <1>3, Redrawn
  <2>3. subsystems = {} => screen' = SchedulerLinesOf(scroll', {} \union {})
    BY <1>3, <2>2 DEF Registered
  <2>4. SchedulerDrawn'
    BY <1>2, <2>1, <2>3 DEF SchedulerDrawn
  <2>5. QED
    BY <1>2, <1>3, <2>4 DEF Drawn
<1>4. CASE kind = "tests"
  <2>1. active = {} /\ Menu!Cardinality({}) = 0
    BY <1>2, <1>4, SameSizes, FS_EmptySet DEF TestsOpened
  <2>2. previous' = <<Menu!Cardinality(active)>>
    BY <1>2, <1>4, <2>1 DEF Menu!Initial
  <2>3. /\ since' = {} /\ screen' = TestLinesOf(scroll', active, passed)
        /\ \E l \in screen' : l.entry = Menu!All /\ l.said = <<Menu!Cardinality(active)>>
    BY ONLY <1>1, <1>2, <1>4, Redrawn
  <2>4. TestsDrawn'
    BY <1>2, <2>2, <2>3 DEF TestsDrawn, Listed
  <2>5. QED
    BY <1>2, <1>4, <2>4 DEF Drawn
<1>5. CASE kind = "motors"
  <2>1. since' = {} /\ screen' = MotorLinesOf(scroll', subsystems, active)
    BY ONLY <1>1, <1>2, <1>5, Redrawn
  <2>2. MotorsDrawn'
    BY <1>2, <1>5, <2>1 DEF MotorsDrawn, Registered
  <2>3. QED
    BY <1>2, <1>5, <2>2 DEF Drawn
<1>6. QED
  BY <1>3, <1>4, <1>5 DEF Registered

(* A line of a motor says ON as it should. *)
LEMMA SaysOn ==
    ASSUME NEW s, NEW table, NEW online, online \subseteq table
    PROVE  \A l \in MotorLinesOf(s, table, online) : l.said = <<"ON">> <=> l.entry \in online
  BY DEF MotorLinesOf, Menu!Line

LEMMA PollRedraws ==
    ASSUME Listed, Registered, Drawn, Menu!Poll,
           (kind = "scheduler" /\ firstDrawTime) \/ scroll.cursorChanged \/ Menu!Status # previous
    PROVE  Drawn' /\ Menu!ScreenUpToDate'
<1>1. UNCHANGED <<kind, subsystems, active, passed>> /\ firstDrawTime' = FALSE
  BY DEF Menu!Poll
<1>2. PICK s : Menu!draw(s)
  BY DEF Menu!Poll
<1>3. /\ since' = {} /\ screen' = Menu!Lines(scroll)'
      /\ kind = "scheduler" => screen' = SchedulerLinesOf(scroll', subsystems \union active)
      /\ kind = "motors" => screen' = MotorLinesOf(scroll', subsystems, active)
      /\ kind = "tests" =>
            /\ screen' = TestLinesOf(scroll', active, passed)
            /\ \E l \in screen' : l.entry = Menu!All /\ l.said = <<Menu!Cardinality(active)>>
  BY ONLY <1>1, <1>2, Redrawn
<1>4. IF kind = "scheduler" /\ firstDrawTime
      THEN previous' = previous ELSE previous' = Menu!Status
  BY DEF Menu!Poll, Menu!Remembered
<1>5. CASE kind = "scheduler"
  <2>1. previous' = <<{}, {}>> \/ previous' = <<subsystems, active>>
    BY <1>4, <1>5 DEF Drawn, SchedulerDrawn, Menu!Status
  <2>2. subsystems = {} => screen' = SchedulerLinesOf(scroll', {} \union {})
    BY <1>3, <1>5 DEF Registered
  <2>3. SchedulerDrawn'
    BY <1>1, <1>3, <1>5, <2>1, <2>2 DEF SchedulerDrawn
  <2>4. QED
    BY <1>1, <1>3, <1>5, <2>3 DEF Drawn, Menu!ScreenUpToDate
<1>6. CASE kind = "tests"
  <2>1. previous' = <<Menu!Cardinality(active)>>
    BY <1>4, <1>6 DEF Menu!Status
  <2>2. TestsDrawn'
    BY <1>1, <1>3, <1>6, <2>1 DEF TestsDrawn, Listed
  <2>3. Menu!ScreenUpToDate'
    BY <1>1, <1>3, <1>6 DEF Menu!ScreenUpToDate
  <2>4. QED
    BY <1>1, <1>6, <2>2, <2>3 DEF Drawn
<1>7. CASE kind = "motors"
  <2>1. previous' = <<active>> /\ active \subseteq subsystems
    BY <1>4, <1>7 DEF Menu!Status, Registered
  <2>2. MotorsDrawn'
    BY <1>1, <1>3, <1>7, <2>1 DEF MotorsDrawn
  <2>3. \A l \in screen' : l.said = <<"ON">> <=> l.entry \in active
    BY <1>3, <1>7, <2>1, SaysOn
  <2>4. Menu!ScreenUpToDate'
    BY <1>1, <1>3, <1>7, <2>3 DEF Menu!ScreenUpToDate
  <2>5. QED
    BY <1>1, <1>7, <2>2, <2>4 DEF Drawn
<1>8. QED
  BY <1>5, <1>6, <1>7 DEF Registered

(* Nothing is drawn where the screen shows what is so already. *)
LEMMA PollKeeps ==
    ASSUME Listed, Registered, Drawn, Menu!Poll, ~scroll.cursorChanged, Menu!Status = previous,
           ~(kind = "scheduler" /\ firstDrawTime)
    PROVE  Drawn' /\ Menu!ScreenUpToDate'
<1>1. /\ UNCHANGED <<kind, subsystems, active, passed, scroll, screen, since>>
      /\ firstDrawTime' = FALSE /\ previous' = previous
  BY DEF Menu!Poll, Menu!Remembered
<1>2. CASE kind = "scheduler"
  <2>1. previous = <<subsystems, active>>
    BY <1>2 DEF Menu!Status
  <2>2. screen = SchedulerLinesOf(scroll, subsystems \union active)
    BY <1>2, <2>1 DEF Drawn, SchedulerDrawn
  <2>3. screen' = Menu!Lines(scroll)'
    BY <1>1, <1>2, <2>2 DEF Menu!Lines, Menu!SchedulerLines, Menu!SchedulerList, SchedulerLinesOf
  <2>4. SchedulerDrawn'
    BY <1>1, <1>2 DEF Drawn, SchedulerDrawn
  <2>5. QED
    BY <1>1, <1>2, <2>3, <2>4 DEF Drawn, Menu!ScreenUpToDate
<1>3. CASE kind = "tests"
  <2>1. previous = <<Menu!Cardinality(active)>> /\ IsFiniteSet(active)
    BY <1>3 DEF Menu!Status, Listed
  <2>2. TestsDrawn' /\ \E l \in screen : l.entry = Menu!All /\ l.said = <<Menu!Cardinality(active)>>
    BY <1>1, <1>3, <2>1 DEF Drawn, TestsDrawn
  <2>3. PICK run, pass :
          /\ IsFiniteSet(run) /\ previous = <<Menu!Cardinality(run)>>
          /\ "started" \notin since => active \subseteq run
          /\ "ended" \notin since => run \subseteq active
          /\ "verdict" \in since \/ {"started", "ended"} \subseteq since
             \/ \A x : (x \in passed) # (x \in pass) => (x \in active) # (x \in run)
          /\ screen = TestLinesOf(scroll, run, pass)
    BY <1>3 DEF Drawn, TestsDrawn
  <2>4. Cardinality(run) = Cardinality(active)
    BY <2>1, <2>3, SameSizes
  <2>5. ASSUME Menu!Noticed PROVE screen = TestLinesOf(scroll, active, passed)
    <3>1. run \subseteq active \/ active \subseteq run
      BY <2>3, <2>5 DEF Menu!Noticed
    <3>2. run = active
      BY <2>1, <2>3, <2>4, <3>1, FS_Subset
    <3>3. \A x : x \in passed <=> x \in pass
      BY <2>3, <2>5, <3>2 DEF Menu!Noticed
    <3>4. QED
      BY <2>3, <3>2, <3>3 DEF TestLinesOf
  <2>6. Menu!Noticed' => screen' = Menu!Lines(scroll)'
    BY <1>1, <1>3, <2>5
       DEF Menu!Noticed, Menu!Lines, Menu!TestLines, Menu!TestStatus, TestLinesOf
  <2>7. QED
    BY <1>1, <1>3, <2>2, <2>6 DEF Drawn, Menu!ScreenUpToDate
<1>4. CASE kind = "motors"
  <2>1. previous = <<active>>
    BY <1>4 DEF Menu!Status
  <2>2. PICK table, online :
          /\ online \subseteq table
          /\ "table" \in since \/ table = subsystems
          /\ "early" \in since \/ (IF firstDrawTime THEN online = active ELSE previous = <<online>>)
          /\ screen = MotorLinesOf(scroll, table, online)
    BY <1>4 DEF Drawn, MotorsDrawn
  <2>3. "early" \in since \/ online = active
    BY <2>1, <2>2
  <2>4. MotorsDrawn'
    BY <1>1, <2>1, <2>2, <2>3 DEF MotorsDrawn
  <2>5. "early" \notin since' => \A l \in screen' : l.said = <<"ON">> <=> l.entry \in active'
    BY <1>1, <2>2, <2>3, SaysOn
  <2>6. Menu!Noticed' => screen' = Menu!Lines(scroll)'
    <3>1. Menu!Noticed => screen = MotorLinesOf(scroll, subsystems, active)
      BY <2>2, <2>3 DEF Menu!Noticed
    <3>2. QED
      BY <1>1, <1>4, <3>1
         DEF Menu!Noticed, Menu!Lines, Menu!MotorLines, Menu!MotorStatus, MotorLinesOf
  <2>7. QED
    BY <1>1, <1>4, <2>4, <2>5, <2>6 DEF Drawn, Menu!ScreenUpToDate
<1>5. QED
  BY <1>2, <1>3, <1>4 DEF Registered

LEMMA DrawnKept ==
    ASSUME Drawn, UNCHANGED <<kind, scroll, subsystems, active, passed, previous, firstDrawTime,
                              screen, since>>
    PROVE  Drawn'
<1>1. kind = "scheduler" => Drawn'
  BY DEF Drawn, SchedulerDrawn
<1>2. kind = "tests" => Drawn'
  BY DEF Drawn, TestsDrawn
<1>3. kind = "motors" => Drawn'
  BY DEF Drawn, MotorsDrawn
<1>4. QED
  BY <1>1, <1>2, <1>3 DEF Drawn

(* What happens to tests is in since. *)
LEMMA TestsDrawnOn ==
    ASSUME TestsDrawn, UNCHANGED <<scroll, previous, screen>>, since \subseteq since',
           active' \ active # {} => "started" \in since',
           active \ active' # {} => "ended" \in since',
           \A x : (x \in passed') # (x \in passed) =>
                      "verdict" \in since' \/ (x \in active') # (x \in active)
                          \/ {"started", "ended"} \subseteq since'
    PROVE  TestsDrawn'
<1>1. PICK run, pass :
        /\ IsFiniteSet(run) /\ previous = <<Menu!Cardinality(run)>>
        /\ "started" \notin since => active \subseteq run
        /\ "ended" \notin since => run \subseteq active
        /\ "verdict" \in since \/ {"started", "ended"} \subseteq since
           \/ \A x : (x \in passed) # (x \in pass) => (x \in active) # (x \in run)
        /\ \E l \in screen : l.entry = Menu!All /\ l.said = previous
        /\ scroll.cursorChanged \/ screen = TestLinesOf(scroll, run, pass)
  BY DEF TestsDrawn
<1>2. "started" \notin since' => active' \subseteq run
  BY <1>1
<1>3. "ended" \notin since' => run \subseteq active'
  BY <1>1
<1>4. ASSUME "verdict" \notin since', ~({"started", "ended"} \subseteq since'),
             NEW x, (x \in passed') # (x \in pass)
      PROVE  (x \in active') # (x \in run)
  BY <1>1, <1>2, <1>3, <1>4
<1>5. /\ \E l \in screen' : l.entry = Menu!All /\ l.said = previous'
      /\ scroll'.cursorChanged \/ screen' = TestLinesOf(scroll', run, pass)
      /\ IsFiniteSet(run) /\ previous' = <<Menu!Cardinality(run)>>
  BY <1>1 DEF TestLinesOf
<1>6. QED
  BY <1>2, <1>3, <1>4, <1>5 DEF TestsDrawn

LEMMA PressOKDrawn == ASSUME Drawn, Menu!PressOK PROVE Drawn'
<1>1. /\ open /\ kind = "tests" /\ TestsDrawn
      /\ UNCHANGED <<kind, scroll, previous, screen>>
  BY DEF Menu!PressOK, Drawn
<1>2. ASSUME NEW tests, Menu!Stop(tests) PROVE TestsDrawn'
  <2>1. /\ active' = active \ tests /\ passed' = passed
        /\ since \subseteq since' /\ "ended" \in since'
    BY <1>1, <1>2 DEF Menu!Stop, Menu!Record
  <2>2. QED
    BY <1>1, <2>1, TestsDrawnOn
<1>3. ASSUME NEW tests, Menu!Run(tests), tests \intersect active = {} PROVE TestsDrawn'
  <2>1. PICK accepted \in SUBSET tests, evicted \in SUBSET active :
               /\ active' = (active \ evicted) \union accepted
               /\ passed' = passed \ tests
               /\ since \subseteq since'
               /\ accepted # {} => "started" \in since'
               /\ evicted # {} => "ended" \in since'
               /\ passed \intersect (tests \ accepted) # {} => "verdict" \in since'
    BY <1>1, <1>3, RunTests
  <2>2. ASSUME NEW x, (x \in passed') # (x \in passed)
        PROVE  "verdict" \in since' \/ (x \in active') # (x \in active)
    BY <1>3, <2>1, <2>2
  <2>3. /\ active' \ active # {} => "started" \in since'
        /\ active \ active' # {} => "ended" \in since'
    BY <2>1
  <2>4. QED
    BY <1>1, <2>1, <2>2, <2>3, TestsDrawnOn
<1>4. \/ \E tests : Menu!Stop(tests)
      \/ \E tests : Menu!Run(tests) /\ tests \intersect active = {}
  <2>1. \/ Menu!Stop(active)
        \/ active = {} /\ Menu!Run(Tested)
        \/ \E x : Menu!Stop({x}) \/ (x \notin active /\ Menu!Run({x}))
    BY DEF Menu!PressOK
  <2>2. \A x : x \notin active => {x} \intersect active = {}
    OBVIOUS
  <2>3. QED
    BY <2>1, <2>2
<1>5. TestsDrawn'
  BY <1>2, <1>3, <1>4
<1>6. QED
  BY <1>1, <1>5 DEF Drawn

LEMMA HappensDrawn == ASSUME Registered, Drawn, open, Menu!Happens PROVE Drawn'
<1>1. UNCHANGED <<kind, open, scroll, previous, firstDrawTime, screen>>
  BY DEF Menu!Happens
<1>2. CASE Menu!CommandsGoOn
  <2>1. kind = "scheduler" /\ subsystems \subseteq subsystems'
    BY <1>2 DEF Menu!CommandsGoOn
  <2>2. SchedulerDrawn'
    <3>1. SchedulerDrawn
      BY <2>1 DEF Drawn
    <3>2. \A list : (list = {} => subsystems' = {}) => (list = {} => subsystems = {})
      BY <2>1
    <3>3. QED
      BY <1>1, <3>1, <3>2 DEF SchedulerDrawn
  <2>3. QED
    BY <1>1, <2>1, <2>2 DEF Drawn
<1>3. CASE Menu!TestsGoOn
  <2>1. PICK stopped \in SUBSET active, verdicts \in SUBSET Tested :
          /\ kind = "tests"
          /\ active' = active \ stopped
          /\ passed' = passed \union verdicts
          /\ since \subseteq since'
          /\ stopped # {} => "ended" \in since'
          /\ ~(verdicts \subseteq passed \union stopped) => "verdict" \in since'
    <3>1. PICK stopped \in SUBSET active, verdicts \in SUBSET Tested :
            /\ active' = active \ stopped
            /\ passed' = passed \union verdicts
            /\ Menu!Record((IF stopped # {} THEN {"ended"} ELSE {})
                  \union (IF verdicts \subseteq passed \union stopped THEN {} ELSE {"verdict"}))
      BY <1>3 DEF Menu!TestsGoOn
    <3>2. /\ since \subseteq since'
          /\ stopped # {} => "ended" \in since'
          /\ ~(verdicts \subseteq passed \union stopped) => "verdict" \in since'
      BY <3>1 DEF Menu!Record
    <3>3. QED
      BY <1>3, <3>1, <3>2 DEF Menu!TestsGoOn
  <2>2. ASSUME NEW x, (x \in passed') # (x \in passed)
        PROVE  "verdict" \in since' \/ (x \in active') # (x \in active)
    BY <2>1, <2>2
  <2>3. TestsDrawn
    BY <2>1 DEF Drawn
  <2>4. /\ active' \ active # {} => "started" \in since'
        /\ active \ active' # {} => "ended" \in since'
    BY <2>1
  <2>5. TestsDrawn'
    BY <1>1, <2>1, <2>2, <2>3, <2>4, TestsDrawnOn
  <2>6. QED
    BY <1>1, <2>1, <2>5 DEF Drawn
<1>4. CASE Menu!MotorsGoOn
  <2>1. kind = "motors" /\ MotorsDrawn /\ active \subseteq subsystems
    BY <1>4 DEF Menu!MotorsGoOn, Drawn, Registered
  <2>2. /\ since \subseteq since'
        /\ subsystems' # subsystems => "table" \in since'
        /\ firstDrawTime /\ active' # active => "early" \in since'
    <3>1. PICK x \in MenuMotors :
            \/ /\ active' = active
               /\ Menu!Record({"table"})
            \/ /\ active' = active \ {x}
               /\ Menu!Record({"table"} \union (IF firstDrawTime /\ x \in active THEN {"early"} ELSE {}))
            \/ /\ subsystems' = subsystems
               /\ Menu!Record(IF firstDrawTime THEN {"early"} ELSE {})
      BY <1>4 DEF Menu!MotorsGoOn
    <3>2. QED
      BY <3>1 DEF Menu!Record
  <2>3. PICK table, online :
          /\ online \subseteq table
          /\ "table" \in since \/ table = subsystems
          /\ "early" \in since \/ (IF firstDrawTime THEN online = active ELSE previous = <<online>>)
          /\ scroll.cursorChanged \/ screen = MotorLinesOf(scroll, table, online)
    BY <2>1 DEF MotorsDrawn
  <2>4. /\ "table" \in since' \/ table = subsystems'
        /\ "early" \in since' \/ (IF firstDrawTime' THEN online = active' ELSE previous' = <<online>>)
        /\ scroll'.cursorChanged \/ screen' = MotorLinesOf(scroll', table, online)
    BY <1>1, <2>2, <2>3
  <2>5. MotorsDrawn'
    BY <2>3, <2>4 DEF MotorsDrawn
  <2>6. QED
    BY <1>1, <2>1, <2>5 DEF Drawn
<1>5. QED
  BY <1>2, <1>3, <1>4 DEF Menu!Happens

LEMMA PressDrawn == ASSUME Scrolls(scroll), Drawn, Menu!Press PROVE Drawn'
<1>1. scroll' = scroll \/ scroll'.cursorChanged = TRUE
  BY PressedScrolls DEF Menu!Press
<1>2. UNCHANGED <<kind, subsystems, active, passed, previous, firstDrawTime, screen, since>>
  BY DEF Menu!Press
<1>3. CASE scroll' = scroll
  BY <1>2, <1>3, DrawnKept
<1>4. CASE scroll'.cursorChanged = TRUE
  <2>1. SchedulerDrawn => SchedulerDrawn'
    BY <1>2, <1>4 DEF SchedulerDrawn
  <2>2. TestsDrawn => TestsDrawn'
    BY <1>2, <1>4 DEF TestsDrawn
  <2>3. MotorsDrawn => MotorsDrawn'
    BY <1>2, <1>4 DEF MotorsDrawn
  <2>4. QED
    BY <1>2, <2>1, <2>2, <2>3 DEF Drawn
<1>5. QED
  BY <1>1, <1>3, <1>4

LEMMA DrawnNext ==
    ASSUME Listed, Registered, Scrolls(scroll), TestsOpened, open => Drawn, Menu!Next
    PROVE  (open => Drawn)' /\ Menu!ScreenUpToDate'
<1>1. CASE Menu!Open
  BY <1>1, OpenDraws DEF Menu!Open, Menu!ScreenUpToDate
<1>2. CASE Menu!Press
  BY <1>2, PressDrawn DEF Menu!Press, Menu!ScreenUpToDate
<1>3. CASE Menu!PressOK
  BY <1>3, PressOKDrawn DEF Menu!PressOK, Menu!ScreenUpToDate
<1>4. CASE Menu!Close
  BY <1>4 DEF Menu!Close, Menu!ScreenUpToDate
<1>5. CASE Menu!Poll
  BY <1>5, PollRedraws, PollKeeps DEF Menu!Poll
<1>6. CASE Menu!Happens
  BY <1>6, HappensDrawn DEF Menu!Happens, Menu!ScreenUpToDate
<1>7. QED
  BY <1>1, <1>2, <1>3, <1>4, <1>5, <1>6 DEF Menu!Next

LEMMA MenuInvInit == ASSUME Menu!MenusAssumption, Menu!Init PROVE MenuInv
<1>1. Scrolls(scroll)
  BY NewScrolls DEF Menu!Init
<1>2. Listed
  BY FS_EmptySet DEF Menu!Init, Listed
<1>3. Registered
  BY DEF Menu!Init, Menu!MenusAssumption, Registered
<1>4. QED
  BY <1>1, <1>2, <1>3 DEF Menu!Init, MenuInv, TestsOpened, Menu!ScreenUpToDate

LEMMA MenuInvNext ==
    ASSUME Menu!MenusAssumption, MenuInv, [Menu!Next]_(Menu!menusVars) PROVE MenuInv'
<1>1. CASE Menu!Next
  BY <1>1, ListedNext, RegisteredNext, ScrollsNext, TestsOpenedNext, DrawnNext DEF MenuInv
<1>2. CASE UNCHANGED Menu!menusVars
  <2>1. Listed' /\ Registered' /\ Scrolls(scroll)' /\ TestsOpened'
    BY <1>2 DEF MenuInv, Menu!menusVars, Listed, Registered, TestsOpened
  <2>2. (open => Drawn)'
    BY <1>2, DrawnKept DEF MenuInv, Menu!menusVars
  <2>3. Menu!ScreenUpToDate'
    <3>1. UNCHANGED <<kind, scroll, subsystems, active, passed, screen, since, fresh>>
      BY <1>2 DEF Menu!menusVars
    <3>2. Menu!SchedulerLines(scroll)' = Menu!SchedulerLines(scroll)
      BY <3>1 DEF Menu!SchedulerLines, Menu!SchedulerList
    <3>3. Menu!TestLines(scroll)' = Menu!TestLines(scroll)
      BY <3>1 DEF Menu!TestLines, Menu!TestStatus
    <3>4. Menu!MotorLines(scroll)' = Menu!MotorLines(scroll)
      BY <3>1 DEF Menu!MotorLines, Menu!MotorStatus
    <3>5. Menu!Lines(scroll)' = Menu!Lines(scroll)
      BY <3>1, <3>2, <3>3, <3>4 DEF Menu!Lines
    <3>6. Menu!ScreenUpToDate
      BY DEF MenuInv
    <3>7. QED
      BY <3>1, <3>5, <3>6 DEF Menu!ScreenUpToDate, Menu!Noticed
  <2>4. QED
    BY <2>1, <2>2, <2>3 DEF MenuInv
<1>3. QED
  BY <1>1, <1>2

LEMMA OKIsMarked ==
    ASSUME Menu!MenusAssumption, MenuInv, Menu!PressOK
    PROVE  \A x \in Tested :
               (x \in active') # (x \in active) =>
                   \/ \E l \in Menu!Lines(scroll) : l.marked /\ l.entry \in {Menu!All, x}
                   \/ x \in active /\ active' \ active # {}
<1>1. kind = "tests" /\ Scrolls(scroll) /\ scroll.size # 0
  BY DEF Menu!PressOK, MenuInv, TestsOpened
<1>2. CASE scroll.cursorIndex = 0
  <2> DEFINE l == Menu!Line(Menu!All, scroll.cursorIndex = 0, <<Menu!Cardinality(active)>>)
  <2>1. l \in Menu!Lines(scroll)
    BY <1>1 DEF Menu!Lines, Menu!TestLines
  <2>2. l.marked /\ l.entry = Menu!All
    BY <1>2 DEF Menu!Line
  <2>3. QED
    BY <2>1, <2>2
<1>3. CASE scroll.cursorIndex # 0
  <2>1. PICK y \in Tested :
            /\ Menu!Pressed(y) = scroll.cursorIndex
            /\ IF y \in active THEN Menu!Stop({y}) ELSE Menu!Run({y})
    BY <1>3 DEF Menu!PressOK
  <2>2. \A x : (x \in active') # (x \in active) =>
            x = y \/ (x \in active /\ active' \ active # {})
    <3>1. CASE y \in active
      <4>1. active' = active \ {y}
        BY <2>1, <3>1 DEF Menu!Stop
      <4>2. QED
        BY <4>1
    <3>2. CASE y \notin active
      <4>1. PICK accepted \in SUBSET {y} :
              \E evicted \in IF accepted = {} THEN {{}} ELSE SUBSET active :
                  active' = (active \ evicted) \union accepted
        BY <2>1, <3>2 DEF Menu!Run
      <4>2. y \notin active
        BY <3>2
      <4>3. QED
        BY <4>1, <4>2
    <3>3. QED
      BY <2>1, <3>1, <3>2
  <2>3. Menu!Visible(scroll, scroll.cursorIndex)
    <3>1. Menu!Index(y, Tested) \in Nat
      <4>1. IsFiniteSet({z \in Tested : z < y})
        BY MenusFinite, FS_Subset
      <4>2. QED
        BY <4>1, FS_CardinalityType, SameSizes DEF Menu!Index
    <3>2. scroll.cursorIndex >= 0
      BY <2>1, <3>1 DEF Menu!Pressed
    <3>3. scroll.size > 0
      BY <1>1 DEF Scrolls, ScrollLogic
    <3>4. QED
      BY <1>1, <3>2, <3>3 DEF Scrolls
  <2> DEFINE l == Menu!Line(y, Menu!TestIndex(y) = scroll.cursorIndex, Menu!TestStatus(y))
  <2>4. Menu!TestIndex(y) = scroll.cursorIndex
    BY <2>1 DEF Menu!Pressed, Menu!TestIndex
  <2>5. l \in Menu!Lines(scroll)
    BY <1>1, <2>3, <2>4 DEF Menu!Lines, Menu!TestLines
  <2>6. l.marked /\ l.entry = y
    BY <2>4 DEF Menu!Line
  <2>7. QED
    BY <2>2, <2>5, <2>6
<1>4. QED
  BY <1>2, <1>3

LEMMA RunsMenu == ControlSpec => Menu!Spec
<1>1. ControlInit => Menu!Init
  BY DEF ControlInit
<1>2. [ControlNext]_controlVars => [Menu!Next]_(Menu!menusVars)
  <2> SUFFICES ASSUME [ControlNext]_controlVars PROVE [Menu!Next]_(Menu!menusVars)
    OBVIOUS
  <2>1. CASE UNCHANGED menuVars
    BY <2>1 DEF menuVars, Menu!menusVars
  <2>2. QED
    BY <2>1 DEF ControlNext, UseRegistrar, UseMapper, UseMenu, UseTerminal, UseServer, controlVars
<1>3. QED
  BY <1>1, <1>2, PTL DEF ControlSpec, Menu!Spec

LEMMA MenuInvariant == ControlSpec => []MenuInv
<1>1. Menu!MenusAssumption
  BY MenuAssumption
<1>2. Menu!Init => MenuInv
  BY <1>1, MenuInvInit
<1>3. MenuInv /\ [Menu!Next]_(Menu!menusVars) => MenuInv'
  BY <1>1, MenuInvNext
<1>4. QED
  BY <1>2, <1>3, RunsMenu, PTL DEF Menu!Spec

(* For a screen and lists of any size, and whatever is pressed, drawn and
   changed: the cursor is on one of the lines that are shown
   (vertical_scroll_logic_handler.cpp:48-109), and a menu that was polled shows
   what is so, but for what its hasChanged() cannot notice
   (command_scheduler_menu.cpp:58-73, hardware_test_menu.cpp:94-102,
   motor_menu.cpp:122-150): of the scheduler everything, of the tests their
   number, of the motors which are online. *)
THEOREM MenusTell == ControlSpec => []MenusShow
<1>1. MenuInv => MenusShow
  BY DEF MenuInv, MenusShow, Menu!MenusShow, Scrolls, Menu!CursorOnScreen
<1>2. QED
  BY <1>1, MenuInvariant, PTL

(* The test that OK starts, or stops if it starts none that may evict others, is
   for any tests and screens the one whose line is marked, although OK counts the
   lines by itself (hardware_test_menu.cpp:66-85, 142-160). *)
THEOREM OKMarked == ControlSpec => OKActsOnMarked
<1>1. MenuInv /\ [Menu!Next]_(Menu!menusVars) =>
          [Menu!PressOK =>
              \A x \in Tested :
                  (x \in active') # (x \in active) =>
                      \/ \E l \in Menu!Lines(scroll) : l.marked /\ l.entry \in {Menu!All, x}
                      \/ x \in active /\ active' \ active # {}
          ]_(Menu!menusVars)
  BY MenuAssumption, OKIsMarked
<1>2. QED
  BY <1>1, MenuInvariant, RunsMenu, PTL DEF OKActsOnMarked, Menu!OKActsOnMarked, Menu!Spec

-----------------------------------------------------------------------------
(***************************************************************************)
(* The server.  What a client was written is what it has got and what the  *)
(* call that runs has still to write; what it sends is numbered, and what  *)
(* was read of it comes before what is still to come.                      *)
(***************************************************************************)
Byte == Nat \X Nat

ServerTyped ==
    /\ mainClientDescriptor \in Clients \union {Server!None}
    /\ mainClientDescriptor # Server!None => mainClientDescriptor \in descriptors
    /\ listening \in Seq(Clients)
    /\ delivered \in [Clients -> Seq(Byte)] /\ expected \in [Clients -> Seq(Byte)]
    /\ coming \in [Clients -> Seq(Nat)]
    /\ writes \in Nat

WriteCall(length, done) ==
    [function |-> "writeMessage", bytes |-> length, bytesWritten |-> done]

ReadCall(length, first, buffer) ==
    [function |-> "readMessage", messageLength |-> length, first |-> first,
     bytesRead |-> Len(buffer), readBuffer |-> buffer]

(* The bytes from one place of a client's input to another. *)
Numbered(bytes) ==
    \E before \in 0 .. MaxSent, n \in 0 .. MaxSent :
        before + n <= MaxSent /\ bytes = [i \in 1 .. n |-> before + i]

Rest(message, done, length) == [i \in 1 .. length - done |-> <<message, done + i>>]

AllWritten(c) == delivered[c] = expected[c]

NoCall == call = Server!Idle /\ \A c \in Clients : AllWritten(c)

Writing ==
    /\ mainClientDescriptor \in Clients \ {Server!None} /\ outcome = Server!NothingRead
    /\ \A c \in Clients \ {mainClientDescriptor} : AllWritten(c)
    /\ \E length, done \in Nat :
           /\ done <= length
           /\ call = WriteCall(length, done)
           /\ expected[mainClientDescriptor] =
                  delivered[mainClientDescriptor] \o Rest(writes, done, length)

Reading ==
    /\ mainClientDescriptor \in Clients \ {Server!None} /\ outcome = Server!NothingRead
    /\ \A c \in Clients : AllWritten(c)
    /\ \E length \in Nat, first \in BOOLEAN, buffer \in Seq(Nat) :
           /\ call = ReadCall(length, first, buffer)
           /\ Len(buffer) <= length
           /\ Numbered(buffer \o coming[mainClientDescriptor])

HasRead ==
    outcome.ended = "returned" =>
        /\ mainClientDescriptor \in Clients \ {Server!None}
        /\ Len(outcome.readBuffer) = outcome.messageLength
        /\ Numbered(outcome.readBuffer \o coming[mainClientDescriptor])

ServerInv ==
    /\ ServerTyped
    /\ NoCall \/ Writing \/ Reading
    /\ HasRead /\ \A c \in Clients : Numbered(coming[c])

LEMMA NothingNumbered == Numbered(<<>>)
<1>1. <<>> = [i \in 1 .. 0 |-> 0 + i]
  OBVIOUS
<1>2. 0 \in 0 .. MaxSent
  BY ServerAssumption
<1>3. QED
  BY <1>1, <1>2 DEF Numbered

LEMMA RestTyped ==
    ASSUME NEW m \in Nat, NEW length \in Nat, NEW done \in 0 .. length
    PROVE  /\ Rest(m, done, length) \in Seq(Byte)
           /\ Len(Rest(m, done, length)) = length - done
<1>1. length - done \in Nat /\ \A i \in 1 .. length - done : done + i \in Nat
  OBVIOUS
<1>2. Rest(m, done, length) \in [1 .. length - done -> Byte]
  BY <1>1 DEF Rest, Byte
<1>3. QED
  <2>1. length - done \in Nat
    BY <1>1
  <2> DEFINE n == length - done
  <2> HIDE DEF n
  <2>2. n \in Nat /\ Rest(m, done, length) \in [1 .. n -> Byte]
    BY <1>2, <2>1 DEF n
  <2>3. Rest(m, done, length) \in Seq(Byte) /\ Len(Rest(m, done, length)) = n
    BY <2>2
  <2>4. QED
    BY <2>3 DEF n

LEMMA NumberedTyped ==
    ASSUME NEW s, Numbered(s) PROVE s \in Seq(Nat)
<1>1. PICK before \in 0 .. MaxSent, n \in 0 .. MaxSent : s = [i \in 1 .. n |-> before + i]
  BY DEF Numbered
<1>2. n \in Nat /\ s \in [1 .. n -> Nat]
  BY <1>1, ServerAssumption
<1>3. QED
  BY <1>2

(* No client is there. *)
LEMMA ServerInit == Server!Init => ServerInv
<1> SUFFICES ASSUME Server!Init PROVE ServerInv
  OBVIOUS
<1>1. ServerTyped
  <2>1. <<>> \in Seq(Clients) /\ <<>> \in Seq(Byte) /\ <<>> \in Seq(Nat)
    OBVIOUS
  <2>2. QED
    BY <2>1 DEF Server!Init, ServerTyped
<1>2. NoCall
  BY DEF Server!Init, NoCall, AllWritten
<1>3. HasRead
  BY DEF Server!Init, HasRead, Server!NothingRead, Server!None
<1>4. QED
  BY <1>1, <1>2, <1>3, NothingNumbered DEF ServerInv, Server!Init

(* A new client has sent nothing that was read. *)
LEMMA ServerConnects ==
    ASSUME ServerInv, NEW c \in Clients, Server!Connect(c)
    PROVE  ServerInv'
<1>1. PICK n \in 0 .. MaxSent : coming' = [coming EXCEPT ![c] = [i \in 1 .. n |-> i]]
  BY DEF Server!Connect
<1> DEFINE sent == [i \in 1 .. n |-> i]
<1>2. Numbered(sent)
  <2>1. sent = [i \in 1 .. n |-> 0 + i]
    OBVIOUS
  <2>2. 0 \in 0 .. MaxSent /\ 0 + n <= MaxSent
    BY ServerAssumption
  <2>3. QED
    BY <2>1, <2>2 DEF Numbered
<1>3. sent \in Seq(Nat)
  BY <1>2, NumberedTyped
<1>4. c # mainClientDescriptor \/ mainClientDescriptor = Server!None
  BY DEF Server!Connect, ServerInv, ServerTyped
<1> HIDE DEF sent
<1>5. /\ coming' = [coming EXCEPT ![c] = sent] /\ listening' = Append(listening, c)
      /\ UNCHANGED <<mainClientDescriptor, descriptors, call, delivered, expected, writes, outcome>>
  BY <1>1 DEF sent, Server!Connect
<1>6. ServerTyped'
  BY <1>3, <1>5 DEF ServerInv, ServerTyped
<1>7. coming'[c] = sent /\ \A d \in Clients \ {c} : coming'[d] = coming[d]
  BY <1>5 DEF ServerInv, ServerTyped
<1>8. mainClientDescriptor \in Clients \ {Server!None} =>
          coming'[mainClientDescriptor] = coming[mainClientDescriptor]
  BY <1>4, <1>7
<1>9. NoCall => NoCall'
  BY <1>5 DEF NoCall, AllWritten
<1>10. Writing => Writing'
  BY <1>5 DEF Writing, AllWritten
<1>11. Reading => Reading'
  BY <1>5, <1>8 DEF Reading, AllWritten
<1>12. HasRead'
  BY <1>5, <1>8 DEF HasRead, ServerInv
<1>13. \A d \in Clients : Numbered(coming'[d])
  BY <1>2, <1>7 DEF ServerInv
<1>14. (\A d \in Clients : Numbered(coming[d]))'
  BY <1>13 DEF Numbered
<1>15. QED
  BY <1>6, <1>9, <1>10, <1>11, <1>12, <1>14 DEF ServerInv

LEMMA IdleIsNoCall == ASSUME ServerInv, call = Server!Idle PROVE NoCall
BY DEF ServerInv, Writing, Reading, WriteCall, ReadCall, Server!Idle, Server!None, NoCall

(* The client that is accepted, or no longer there, was written all. *)
LEMMA ServerAccepts ==
    ASSUME ServerInv, Server!getConnection \/ Server!closeConnection
    PROVE  ServerInv'
<1>1. /\ call = Server!Idle /\ outcome' = Server!NothingRead
      /\ UNCHANGED <<call, coming, delivered, expected, writes>>
  BY DEF Server!getConnection, Server!closeConnection
<1>2. ServerTyped'
  <2>1. CASE Server!getConnection
    <3>1. CASE /\ listening # <<>>
               /\ mainClientDescriptor' = Head(listening)
               /\ listening' = Tail(listening)
               /\ descriptors' = descriptors \union {mainClientDescriptor'}
      <4>1. Head(listening) \in Clients /\ Tail(listening) \in Seq(Clients)
        BY <3>1 DEF ServerInv, ServerTyped
      <4>2. QED
        BY <1>1, <3>1, <4>1 DEF ServerInv, ServerTyped
    <3>2. CASE mainClientDescriptor' = Server!None /\ UNCHANGED <<listening, descriptors>>
      BY <1>1, <3>2 DEF ServerInv, ServerTyped
    <3>3. QED
      BY <2>1, <3>1, <3>2 DEF Server!getConnection
  <2>2. CASE Server!closeConnection
    BY <2>2 DEF Server!closeConnection, ServerInv, ServerTyped
  <2>3. QED
    BY <2>1, <2>2
<1>3. NoCall
  BY <1>1, IdleIsNoCall
<1>4. NoCall'
  BY <1>1, <1>3 DEF NoCall, AllWritten
<1>5. HasRead'
  BY <1>1 DEF HasRead, Server!NothingRead, Server!None
<1>6. QED
  BY <1>1, <1>2, <1>4, <1>5 DEF ServerInv, Numbered

(* A message is expected when it is to be written. *)
LEMMA ServerIsToWrite == ServerInv /\ Server!writeToClient => ServerInv'
<1> SUFFICES ASSUME ServerInv, Server!writeToClient PROVE ServerInv'
  OBVIOUS
<1>1. /\ call = Server!Idle /\ outcome' = Server!NothingRead
      /\ UNCHANGED <<listening, mainClientDescriptor, descriptors, coming, delivered>>
  BY DEF Server!writeToClient
<1>2. NoCall
  BY <1>1, IdleIsNoCall
<1>3. HasRead'
  BY <1>1 DEF HasRead, Server!NothingRead, Server!None
<1>4. \A c \in Clients : Numbered(coming[c])'
  BY <1>1 DEF ServerInv, Numbered
<1>5. CASE mainClientDescriptor = Server!None
  <2>1. UNCHANGED <<call, expected, writes>>
    BY <1>5 DEF Server!writeToClient
  <2>2. ServerTyped' /\ NoCall'
    BY <1>1, <1>2, <2>1 DEF ServerInv, ServerTyped, NoCall, AllWritten
  <2>3. QED
    BY <1>3, <1>4, <2>2 DEF ServerInv
<1>6. CASE mainClientDescriptor # Server!None
  <2>1. PICK given \in MessageLengths :
            /\ writes' = writes + 1
            /\ call' = [function |-> "writeMessage", bytes |-> given % Word, bytesWritten |-> 0]
            /\ expected' = [expected EXCEPT ![mainClientDescriptor] =
                               @ \o Server!BytesOf(writes', given % Word)]
    BY <1>6 DEF Server!writeToClient
  <2> DEFINE length == given % Word
  <2>2. length \in Nat
    BY ServerAssumption
  <2>3. call' = WriteCall(length, 0) /\ 0 \in 0 .. length
    BY <2>1, <2>2 DEF WriteCall
  <2> HIDE DEF length
  <2>4. Server!BytesOf(writes', length) = Rest(writes', 0, length)
    BY <2>2 DEF Server!BytesOf, Rest
  <2>5. writes' \in Nat /\ mainClientDescriptor \in Clients
    BY <1>6, <2>1 DEF ServerInv, ServerTyped
  <2>6. Rest(writes', 0, length) \in Seq(Byte)
    BY <2>2, <2>3, <2>5, RestTyped
  <2>7. expected' = [expected EXCEPT ![mainClientDescriptor] = @ \o Rest(writes', 0, length)]
    BY <2>1, <2>4 DEF length
  <2>8. expected[mainClientDescriptor] \in Seq(Byte)
    BY <2>5 DEF ServerInv, ServerTyped
  <2>9. expected[mainClientDescriptor] \o Rest(writes', 0, length) \in Seq(Byte)
    BY <2>6, <2>8
  <2>10. ServerTyped'
    BY <1>1, <2>5, <2>7, <2>9 DEF ServerInv, ServerTyped
  <2>11. /\ expected'[mainClientDescriptor] =
                delivered[mainClientDescriptor] \o Rest(writes', 0, length)
         /\ \A c \in Clients \ {mainClientDescriptor} : expected'[c] = delivered[c]
    BY <1>2, <2>5, <2>7 DEF ServerInv, ServerTyped, NoCall, AllWritten
  <2>12. Writing'
    <3>1. 0 <= length /\ 0 \in Nat
      BY <2>2
    <3>2. QED
      BY <1>1, <1>6, <2>2, <2>3, <2>5, <2>11, <3>1 DEF Writing, AllWritten, Rest
  <2>13. QED
    BY <1>3, <1>4, <2>10, <2>12 DEF ServerInv
<1>7. QED
  BY <1>5, <1>6

(* The next bytes of what is still to write. *)
LEMMA RestWritten ==
    ASSUME NEW m \in Nat, NEW length \in Nat, NEW done \in 0 .. length,
           NEW n \in 1 .. length - done
    PROVE  LET bytes == SubSeq(Server!BytesOf(m, done + n), done + 1, done + n)
           IN  /\ bytes \in Seq(Byte)
               /\ bytes \o Rest(m, done + n, length) = Rest(m, done, length)
<1> DEFINE all == Server!BytesOf(m, done + n)
           bytes == SubSeq(all, done + 1, done + n)
           later == Rest(m, done + n, length)
           rest == Rest(m, done, length)
<1>1. done + n \in 0 .. length /\ n \in Nat /\ done \in Nat
  OBVIOUS
<1>2. \A i \in 1 .. done + n : all[i] = <<m, i>>
  BY DEF Server!BytesOf
<1>3. /\ bytes \in Seq(Byte) /\ Len(bytes) = n
      /\ \A i \in 1 .. n : bytes[i] = <<m, done + i>>
  <2>1. all \in Seq(Byte) /\ Len(all) = done + n
    <3> DEFINE k == done + n
    <3>1. k \in Nat /\ \A i \in 1 .. k : i \in Nat
      BY <1>1
    <3> HIDE DEF k
    <3>2. [i \in 1 .. k |-> <<m, i>>] \in [1 .. k -> Byte]
      BY <3>1 DEF Byte
    <3>3. QED
      BY <3>1, <3>2 DEF k, Server!BytesOf
  <2> HIDE DEF all
  <2>2. bytes \in Seq(Byte) /\ Len(bytes) = n
    BY <1>1, <2>1
  <2>3. ASSUME NEW i \in 1 .. n PROVE bytes[i] = <<m, done + i>>
    <3>1. done + i \in 1 .. done + n /\ (done + 1) + i - 1 = done + i
      BY <1>1
    <3>2. bytes[i] = all[done + i]
      BY <1>1, <2>1, <3>1
    <3>3. QED
      BY <1>2, <3>1, <3>2
  <2>4. QED
    BY <2>2, <2>3
<1>4. later \in Seq(Byte) /\ Len(later) = length - (done + n)
  BY <1>1, RestTyped
<1>5. rest \in Seq(Byte) /\ Len(rest) = length - done
  BY <1>1, RestTyped
<1>6. \A i \in 1 .. length - (done + n) : later[i] = <<m, done + n + i>>
  BY DEF Rest
<1>7. \A i \in 1 .. length - done : rest[i] = <<m, done + i>>
  BY DEF Rest
<1> HIDE DEF all, bytes, later, rest
<1>8. bytes \o later \in Seq(Byte) /\ Len(bytes \o later) = Len(rest)
  <2>1. bytes \o later \in Seq(Byte) /\ Len(bytes \o later) = Len(bytes) + Len(later)
    BY <1>3, <1>4, ConcatProperties
  <2>2. QED
    BY <1>1, <1>3, <1>4, <1>5, <2>1
<1>9. ASSUME NEW i \in 1 .. Len(rest) PROVE (bytes \o later)[i] = rest[i]
  <2>1. (bytes \o later)[i] = IF i <= n THEN bytes[i] ELSE later[i - n]
    <3>1. i \in 1 .. Len(bytes) + Len(later)
      BY <1>1, <1>3, <1>4, <1>5
    <3>2. QED
      BY <1>3, <1>4, <3>1, ConcatProperties
  <2>2. i \in 1 .. length - done /\ rest[i] = <<m, done + i>>
    BY <1>5, <1>7
  <2>3. CASE i <= n
    BY <1>3, <2>1, <2>2, <2>3
  <2>4. CASE ~(i <= n)
    <3>1. i - n \in 1 .. length - (done + n) /\ done + n + (i - n) = done + i
      BY <1>1, <2>2, <2>4
    <3>2. QED
      BY <1>6, <2>1, <2>2, <2>4, <3>1
  <2>5. QED
    BY <2>3, <2>4
<1>10. bytes \o later = rest
  BY <1>5, <1>8, <1>9, SeqEqual
<1>11. QED
  BY <1>3, <1>10 DEF bytes, later, rest, all

(* One write() hands over the next bytes; one that fails is no longer expected
   to. *)
LEMMA ServerWrites == ServerInv /\ Server!writeMessage => ServerInv'
<1> SUFFICES ASSUME ServerInv, Server!writeMessage PROVE ServerInv'
  OBVIOUS
<1>1. /\ call.function = "writeMessage"
      /\ UNCHANGED <<listening, mainClientDescriptor, descriptors, coming, writes, outcome>>
  BY DEF Server!writeMessage
<1>2. Writing
  BY <1>1 DEF ServerInv, NoCall, Reading, ReadCall, Server!Idle, Server!None
<1>3. PICK length \in Nat, done \in Nat :
          /\ done <= length
          /\ call = WriteCall(length, done)
          /\ expected[mainClientDescriptor]
                 = delivered[mainClientDescriptor] \o Rest(writes, done, length)
  BY <1>2 DEF Writing
<1>4. call.bytes = length /\ call.bytesWritten = done /\ done \in 0 .. length
  BY <1>3 DEF WriteCall
<1>5. /\ HasRead' /\ (\A c \in Clients : Numbered(coming[c]))'
      /\ mainClientDescriptor \in Clients \ {Server!None} /\ outcome = Server!NothingRead
      /\ delivered \in [Clients -> Seq(Byte)] /\ expected \in [Clients -> Seq(Byte)]
      /\ writes \in Nat /\ \A c \in Clients \ {mainClientDescriptor} : AllWritten(c)
  BY <1>1, <1>2, ZenonT(60) DEF ServerInv, ServerTyped, HasRead, Numbered, Writing
<1>6. ASSUME NEW n \in 1 .. length - done, UNCHANGED expected,
             delivered' = [delivered EXCEPT ![mainClientDescriptor] = @ \o Server!Written(n)],
             call' = [call EXCEPT !.bytesWritten = @ + n]
      PROVE  ServerInv'
  <2> DEFINE bytes == SubSeq(Server!BytesOf(writes, done + n), done + 1, done + n)
  <2>1. Server!Written(n) = bytes
    BY <1>4 DEF Server!Written
  <2>2. bytes \in Seq(Byte) /\ bytes \o Rest(writes, done + n, length) = Rest(writes, done, length)
    <3>1. writes \in Nat /\ length \in Nat /\ done \in 0 .. length /\ n \in 1 .. length - done
      BY <1>4, <1>5
    <3>2. QED
      BY <3>1, RestWritten, Zenon
  <2>3. delivered' = [delivered EXCEPT ![mainClientDescriptor] = @ \o bytes]
    BY <1>6, <2>1
  <2>4. done + n \in 0 .. length /\ Rest(writes, done + n, length) \in Seq(Byte)
    BY <1>4, <1>5, RestTyped
  <2> HIDE DEF bytes
  <2>5. /\ delivered'[mainClientDescriptor] = delivered[mainClientDescriptor] \o bytes
        /\ \A c \in Clients \ {mainClientDescriptor} : delivered'[c] = delivered[c]
        /\ delivered[mainClientDescriptor] \in Seq(Byte)
    BY <1>5, <2>3
  <2>6. delivered'[mainClientDescriptor] \o Rest(writes, done + n, length)
            = delivered[mainClientDescriptor] \o (bytes \o Rest(writes, done + n, length))
    <3>1. (delivered[mainClientDescriptor] \o bytes) \o Rest(writes, done + n, length)
              = delivered[mainClientDescriptor] \o (bytes \o Rest(writes, done + n, length))
      <4>1. PICK s \in Seq(Byte), t \in Seq(Byte), u \in Seq(Byte) :
                /\ s = delivered[mainClientDescriptor]
                /\ t = bytes /\ u = Rest(writes, done + n, length)
        BY <2>2, <2>4, <2>5
      <4>2. (s \o t) \o u = s \o (t \o u)
        BY ConcatAssociative
      <4>3. QED
        BY <4>1, <4>2
    <3>2. QED
      BY <2>5, <3>1
  <2>7. delivered[mainClientDescriptor] \o bytes \in Seq(Byte)
    BY <2>2, <2>5
  <2>8. ServerTyped'
    BY <1>1, <1>5, <1>6, <2>3, <2>7 DEF ServerInv, ServerTyped
  <2>9. call' = WriteCall(length, done + n)
    BY <1>3, <1>6 DEF WriteCall
  <2>10. Writing'
    <3>1. expected'[mainClientDescriptor]
              = delivered'[mainClientDescriptor] \o Rest(writes, done + n, length)
      BY <1>3, <1>6, <2>2, <2>6
    <3>2. \A c \in Clients \ {mainClientDescriptor} : delivered'[c] = expected'[c]
      BY <1>5, <1>6, <2>5 DEF AllWritten
    <3>3. done + n \in Nat /\ done + n <= length
      BY <2>4
    <3>4. QED
      BY <1>1, <1>5, <2>9, <3>1, <3>2, <3>3 DEF Writing, AllWritten, Rest
  <2>11. QED
    BY <1>5, <2>8, <2>10 DEF ServerInv
<1>7. CASE /\ call' = Server!Idle
           /\ expected' = [expected EXCEPT ![mainClientDescriptor] =
                               delivered[mainClientDescriptor]]
           /\ UNCHANGED delivered
  <2>1. ServerTyped'
    BY <1>1, <1>5, <1>7 DEF ServerInv, ServerTyped
  <2>2. NoCall'
    BY <1>5, <1>7 DEF NoCall, AllWritten, Server!Idle
  <2>3. QED
    BY <1>5, <2>1, <2>2 DEF ServerInv
<1>8. CASE done >= length /\ call' = Server!Idle /\ UNCHANGED <<delivered, expected>>
  <2>1. ServerTyped'
    BY <1>1, <1>8 DEF ServerInv, ServerTyped
  <2>2. Rest(writes, done, length) = <<>>
    <3>1. length - done = 0 \/ length - done < 0
      BY <1>8
    <3>2. 1 .. length - done = {}
      BY <3>1
    <3>3. QED
      BY <3>2 DEF Rest
  <2>3. AllWritten(mainClientDescriptor)
    BY <1>3, <1>5, <2>2 DEF AllWritten
  <2>4. NoCall'
    BY <1>5, <1>8, <2>3 DEF NoCall, AllWritten, Server!Idle
  <2>5. QED
    BY <1>5, <2>1, <2>4 DEF ServerInv
<1>9. QED
  BY <1>4, <1>6, <1>7, <1>8 DEF Server!writeMessage

(* Nothing was read yet. *)
LEMMA ServerStartsReading == ServerInv /\ Server!StartRead => ServerInv'
<1> SUFFICES ASSUME ServerInv, Server!StartRead PROVE ServerInv'
  OBVIOUS
<1>1. PICK length \in MessageLengths :
          call' = [function |-> "readMessage", messageLength |-> length, first |-> TRUE,
                   bytesRead |-> 0, readBuffer |-> <<>>]
  BY DEF Server!StartRead
<1>2. /\ call = Server!Idle /\ mainClientDescriptor # Server!None /\ outcome' = Server!NothingRead
      /\ UNCHANGED <<listening, mainClientDescriptor, descriptors, coming, delivered, expected,
                     writes>>
  BY DEF Server!StartRead
<1>3. NoCall
  BY <1>2, IdleIsNoCall
<1>4. HasRead'
  BY <1>2 DEF HasRead, Server!NothingRead, Server!None
<1>5. ServerTyped' /\ (\A c \in Clients : Numbered(coming[c]))'
  BY <1>2 DEF ServerInv, ServerTyped, Numbered
<1>6. mainClientDescriptor \in Clients \ {Server!None}
  BY <1>2 DEF ServerInv, ServerTyped
<1>7. coming[mainClientDescriptor] \in Seq(Nat) /\ Numbered(coming[mainClientDescriptor])
  BY <1>6 DEF ServerInv, ServerTyped
<1>8. <<>> \in Seq(Nat) /\ <<>> \o coming[mainClientDescriptor] = coming[mainClientDescriptor]
      /\ Len(<<>>) = 0
  BY <1>7
<1>9. length \in Nat /\ call' = ReadCall(length, TRUE, <<>>)
  BY <1>1, <1>8, ServerAssumption DEF ReadCall
<1>10. Reading'
  <2>1. Numbered(<<>> \o coming[mainClientDescriptor])
    BY <1>7, <1>8
  <2>2. Numbered(<<>> \o coming[mainClientDescriptor])'
    BY <1>2, <2>1 DEF Numbered
  <2>3. Len(<<>>) <= length
    BY <1>8, <1>9
  <2>4. QED
    BY <1>2, <1>3, <1>6, <1>8, <1>9, <2>2, <2>3 DEF Reading, NoCall, AllWritten
<1>11. QED
  BY <1>4, <1>5, <1>10 DEF ServerInv

(* What comes is moved to the end of what was read. *)
Taken(s, n) == SubSeq(s, 1, n)
Kept(s, n) == SubSeq(s, n + 1, Len(s))
Joined(s, t, n) == (s \o Taken(t, n)) \o Kept(t, n)

LEMMA MovedBytes ==
    ASSUME NEW S, NEW buffer \in Seq(S), NEW rest \in Seq(S), NEW n \in 0 .. Len(rest)
    PROVE  /\ buffer \o Taken(rest, n) \in Seq(S) /\ Kept(rest, n) \in Seq(S)
           /\ Len(buffer \o Taken(rest, n)) = Len(buffer) + n
           /\ Joined(buffer, rest, n) = buffer \o rest
<1> DEFINE first == SubSeq(rest, 1, n)
           later == SubSeq(rest, n + 1, Len(rest))
<1>1. Len(rest) \in Nat /\ n \in Nat /\ n <= Len(rest)
  OBVIOUS
<1>2. first \in Seq(S) /\ Len(first) = n
  BY <1>1
<1>3. later \in Seq(S)
  BY <1>1
<1>4. first \o later = rest
  <2>1. 1 \in 1 .. Len(rest) + 1 /\ n \in 1 - 1 .. Len(rest) /\ Len(rest) \in n .. Len(rest)
    BY <1>1
  <2>2. first \o later = SubSeq(rest, 1, Len(rest))
    BY <2>1, ConcatAdjacentSubSeq
  <2>3. QED
    BY <2>2, SubSeqFull
<1> HIDE DEF first, later
<1>5. (buffer \o first) \o later = buffer \o (first \o later)
  <2>1. PICK s \in Seq(S), t \in Seq(S), u \in Seq(S) :
            s = buffer /\ t = first /\ u = later
    BY <1>2, <1>3
  <2>2. (s \o t) \o u = s \o (t \o u)
    BY ConcatAssociative, SMTT(40)
  <2>3. QED
    BY <2>1, <2>2
<1>6. buffer \o first \in Seq(S) /\ Len(buffer \o first) = Len(buffer) + n
  BY <1>2, ConcatProperties
<1>7. QED
  BY <1>3, <1>4, <1>5, <1>6 DEF first, later, Taken, Kept, Joined

(* So is the end of what is numbered. *)
LEMMA LaterNumbered ==
    ASSUME NEW s, Numbered(s), NEW n \in 0 .. Len(s)
    PROVE  Numbered(SubSeq(s, n + 1, Len(s)))
<1>1. PICK before \in 0 .. MaxSent, m \in 0 .. MaxSent :
          before + m <= MaxSent /\ s = [i \in 1 .. m |-> before + i]
  BY DEF Numbered
<1>2. MaxSent \in Nat /\ before \in Nat /\ m \in Nat
  BY ServerAssumption
<1>3. Len(s) = m /\ s \in Seq(Nat)
  <2>1. s \in Seq(Nat)
    BY NumberedTyped
  <2>2. QED
    BY <1>1, <1>2, <2>1
<1>4. n \in Nat /\ n <= m /\ m - n \in 0 .. MaxSent /\ before + n \in 0 .. MaxSent
      /\ (before + n) + (m - n) <= MaxSent
  BY <1>1, <1>2, <1>3
<1> DEFINE later == SubSeq(s, n + 1, Len(s))
           k == m - n
           z == before + n
<1>5. later \in Seq(Nat) /\ Len(later) = k /\ \A i \in 1 .. k : later[i] = s[n + i]
  BY <1>3, <1>4
<1>6. \A i \in 1 .. k : s[n + i] = z + i
  BY <1>1, <1>2, <1>4
<1>7. k \in 0 .. MaxSent /\ z \in 0 .. MaxSent /\ z + k <= MaxSent
  BY <1>4
<1> HIDE DEF later, k, z
<1>8. later = [i \in 1 .. k |-> z + i]
  <2>1. later = [i \in 1 .. k |-> later[i]]
    BY <1>5
  <2>2. \A i \in 1 .. k : later[i] = z + i
    BY <1>5, <1>6
  <2>3. QED
    BY <2>1, <2>2
<1>9. Numbered(later)
  BY <1>7, <1>8 DEF Numbered
<1>10. QED
  BY <1>9 DEF later

(* read() until there are as many bytes as are wanted. *)
LEMMA ServerReads == ServerInv /\ Server!readMessage => ServerInv'
<1> SUFFICES ASSUME ServerInv, Server!readMessage PROVE ServerInv'
  OBVIOUS
<1>1. /\ call.function = "readMessage"
      /\ UNCHANGED <<listening, mainClientDescriptor, descriptors, delivered, expected, writes>>
  BY DEF Server!readMessage
<1>2. Reading
  BY <1>1 DEF ServerInv, NoCall, Writing, WriteCall, Server!Idle, Server!None
<1>3. PICK length \in Nat, first \in BOOLEAN, buffer \in Seq(Nat) :
          /\ call = ReadCall(length, first, buffer)
          /\ Len(buffer) <= length
          /\ Numbered(buffer \o coming[mainClientDescriptor])
  BY <1>2 DEF Reading
<1>4. /\ call.messageLength = length /\ call.first = first
      /\ call.bytesRead = Len(buffer) /\ call.readBuffer = buffer
  BY <1>3 DEF ReadCall
<1>5. /\ mainClientDescriptor \in Clients \ {Server!None} /\ outcome = Server!NothingRead
      /\ \A c \in Clients : AllWritten(c)
      /\ coming \in [Clients -> Seq(Nat)]
  BY <1>2 DEF Reading, ServerInv, ServerTyped
<1> DEFINE rest == coming[mainClientDescriptor]
<1>6. CASE Server!Reads(mainClientDescriptor)
  <2>1. PICK n \in 0 .. length - Len(buffer) :
            /\ n <= Len(rest)
            /\ call' = [call EXCEPT !.first = FALSE, !.bytesRead = @ + n,
                                    !.readBuffer = @ \o SubSeq(rest, 1, n)]
            /\ coming' = [coming EXCEPT ![mainClientDescriptor] = SubSeq(@, n + 1, Len(@))]
            /\ UNCHANGED outcome
    BY <1>4, <1>6 DEF Server!Reads
  <2> DEFINE part == Taken(rest, n)
             later == Kept(rest, n)
  <2>2. rest \in Seq(Nat) /\ Numbered(rest) /\ n \in 0 .. Len(rest) /\ n <= length - Len(buffer)
    BY <1>5, <2>1 DEF ServerInv
  <2>3. /\ buffer \o part \in Seq(Nat) /\ later \in Seq(Nat)
        /\ Len(buffer \o part) = Len(buffer) + n
        /\ (buffer \o part) \o later = buffer \o rest
    <3>1. PICK z \in Seq(Nat), r \in Seq(Nat) : z = buffer /\ r = rest
      BY <2>2
    <3>2. n \in 0 .. Len(r)
      BY <2>2, <3>1
    <3>3. z \o Taken(r, n) \in Seq(Nat)
      BY <3>2, MovedBytes
    <3>4. Kept(r, n) \in Seq(Nat)
      BY <3>2, MovedBytes, Zenon
    <3>5. Len(z \o Taken(r, n)) = Len(z) + n
      BY <3>2, MovedBytes, SMT
    <3>6. Joined(z, r, n) = z \o r
      BY <3>2, MovedBytes
    <3>7. QED
      BY <3>1, <3>2, <3>3, <3>4, <3>5, <3>6 DEF Joined
  <2>4. Numbered(later)
    BY <2>2, LaterNumbered DEF Kept
  <2> HIDE DEF part, later
  <2>5. call' = ReadCall(length, FALSE, buffer \o part)
    BY <1>3, <2>1, <2>3 DEF ReadCall, part, Taken
  <2>6. coming' = [coming EXCEPT ![mainClientDescriptor] = later]
    BY <2>1 DEF later, Kept
  <2>7. /\ coming'[mainClientDescriptor] = later
        /\ \A c \in Clients \ {mainClientDescriptor} : coming'[c] = coming[c]
        /\ coming' \in [Clients -> Seq(Nat)]
    BY <1>5, <2>3, <2>6
  <2>8. ServerTyped'
    BY <1>1, <2>7 DEF ServerInv, ServerTyped
  <2>9. \A c \in Clients : Numbered(coming'[c])
    BY <2>4, <2>7 DEF ServerInv
  <2>10. Numbered((buffer \o part) \o coming'[mainClientDescriptor])
    BY <1>3, <2>3, <2>7
  <2>11. Len(buffer \o part) <= length
    BY <2>2, <2>3
  <2>12. \E l \in Nat, f \in BOOLEAN, z \in Seq(Nat) :
            /\ call' = ReadCall(l, f, z) /\ Len(z) <= l
            /\ Numbered(z \o coming'[mainClientDescriptor])
    BY <2>3, <2>5, <2>10, <2>11, Zenon
  <2>13. Reading'
    <3>1. outcome' = Server!NothingRead /\ mainClientDescriptor' = mainClientDescriptor
      BY <1>1, <1>5, <2>1 DEF Server!NothingRead, Server!None
    <3>2. \A c \in Clients : delivered'[c] = expected'[c]
      BY <1>1, <1>5 DEF AllWritten
    <3>3. (\E l \in Nat, f \in BOOLEAN, z \in Seq(Nat) :
               /\ call = ReadCall(l, f, z) /\ Len(z) <= l
               /\ Numbered(z \o coming[mainClientDescriptor]))'
      BY <2>12, <3>1, Zenon DEF ReadCall, Numbered
    <3>4. (\A c \in Clients : AllWritten(c))'
      BY <3>2 DEF AllWritten
    <3>5. (mainClientDescriptor \in Clients \ {Server!None} /\ outcome = Server!NothingRead)'
      BY <1>5, <3>1 DEF Server!NothingRead, Server!None
    <3>6. QED
      BY <3>3, <3>4, <3>5 DEF Reading
  <2>14. HasRead'
    BY <1>5, <2>1 DEF HasRead, Server!NothingRead, Server!None
  <2>15. (\A c \in Clients : Numbered(coming[c]))'
    BY <2>9 DEF Numbered
  <2>16. QED
    BY <2>8, <2>13, <2>14, <2>15 DEF ServerInv
<1>7. ASSUME NEW how, Server!Ended(how), UNCHANGED coming,
             how = "returned" => Len(buffer) >= length
      PROVE  ServerInv'
  <2>1. call' = Server!Idle
        /\ outcome' = [ended |-> how, readBuffer |-> buffer, messageLength |-> length]
    BY <1>4, <1>7 DEF Server!Ended
  <2>2. ServerTyped' /\ (\A c \in Clients : Numbered(coming[c]))'
    BY <1>1, <1>7 DEF ServerInv, ServerTyped, Numbered
  <2>3. NoCall'
    BY <1>1, <1>5, <2>1 DEF NoCall, AllWritten, Server!Idle
  <2>4. outcome'.ended = how /\ outcome'.readBuffer = buffer /\ outcome'.messageLength = length
    BY <2>1
  <2>5. how = "returned" => Len(buffer) = length
    BY <1>3, <1>7
  <2>6. HasRead'
    BY <1>1, <1>3, <1>5, <1>7, <2>4, <2>5 DEF HasRead, Numbered
  <2>7. QED
    BY <2>2, <2>3, <2>6 DEF ServerInv
<1>8. CASE Server!ReadAll(mainClientDescriptor)
  BY <1>4, <1>7, <1>8 DEF Server!ReadAll
<1>9. CASE Server!ReadFails
  BY <1>7, <1>9 DEF Server!ReadFails
<1>10. QED
  BY <1>6, <1>8, <1>9 DEF Server!readMessage

LEMMA ServerNext == ServerInv /\ [Server!Next]_serverVars => ServerInv'
<1> SUFFICES ASSUME ServerInv, [Server!Next]_serverVars PROVE ServerInv'
  OBVIOUS
<1>1. ASSUME UNCHANGED <<listening, mainClientDescriptor, descriptors, call, coming, delivered,
                         expected, writes, outcome>>
      PROVE  ServerInv'
  <2>1. ServerTyped'
    BY <1>1 DEF ServerInv, ServerTyped
  <2>2. NoCall => NoCall'
    BY <1>1 DEF NoCall, AllWritten
  <2>3. Writing => Writing'
    BY <1>1 DEF Writing, AllWritten, Rest
  <2>4. Reading => Reading'
    <3>1. ASSUME NEW length \in Nat, NEW first \in BOOLEAN, NEW buffer \in Seq(Nat),
                 call = ReadCall(length, first, buffer), Len(buffer) <= length,
                 Numbered(buffer \o coming[mainClientDescriptor])
          PROVE  /\ call' = ReadCall(length, first, buffer) /\ Len(buffer) <= length
                 /\ Numbered(buffer \o coming'[mainClientDescriptor'])
      BY <1>1, <3>1
    <3>2. Reading => (\E length \in Nat, first \in BOOLEAN, buffer \in Seq(Nat) :
                          /\ call = ReadCall(length, first, buffer)
                          /\ Len(buffer) <= length
                          /\ Numbered(buffer \o coming[mainClientDescriptor]))'
      BY <3>1, ZenonT(60) DEF Reading, ReadCall, Numbered
    <3>3. Reading => (/\ mainClientDescriptor \in Clients \ {Server!None}
                      /\ outcome = Server!NothingRead
                      /\ \A c \in Clients : AllWritten(c))'
      BY <1>1 DEF Reading, AllWritten
    <3>4. QED
      BY <3>2, <3>3 DEF Reading
  <2>5. HasRead' /\ (\A c \in Clients : Numbered(coming[c]))'
    BY <1>1 DEF ServerInv, HasRead, Numbered
  <2>6. QED
    BY <2>1, <2>2, <2>3, <2>4, <2>5 DEF ServerInv
<1>2. CASE Server!TCPServer \/ \E c \in Clients : Server!Disconnect(c)
  BY <1>1, <1>2 DEF Server!TCPServer, Server!Disconnect
<1>3. CASE UNCHANGED serverVars
  BY <1>1, <1>3 DEF serverVars
<1>4. QED
  BY <1>2, <1>3, ServerConnects, ServerAccepts, ServerIsToWrite, ServerWrites,
     ServerStartsReading, ServerReads DEF Server!Next

(* The server keeps its promises. *)
LEMMA ServerPromises == ServerInv => Server!ClientsGetMessages /\ Server!ReturnsWholeMessages
<1> SUFFICES ASSUME ServerInv PROVE Server!ClientsGetMessages /\ Server!ReturnsWholeMessages
  OBVIOUS
<1>1. ASSUME NEW c \in Clients PROVE Server!IsPrefix(delivered[c], expected[c])
  <2>1. delivered[c] \in Seq(Byte) /\ expected[c] \in Seq(Byte)
    BY DEF ServerInv, ServerTyped
  <2>2. PICK s \in Seq(Byte), t \in Seq(Byte), u \in Seq(Byte) :
            s = delivered[c] /\ t = expected[c] /\ t = s \o u
    <3>1. CASE AllWritten(c)
      <4>1. expected[c] = delivered[c] \o <<>> /\ <<>> \in Seq(Byte)
        BY <2>1, <3>1 DEF AllWritten
      <4>2. QED
        BY <2>1, <4>1
    <3>2. CASE ~AllWritten(c)
      <4>1. Writing /\ c = mainClientDescriptor
        BY <3>2 DEF ServerInv, NoCall, Reading, Writing
      <4>2. PICK length \in Nat, done \in Nat :
                done <= length
                /\ expected[c] = delivered[c] \o Rest(writes, done, length)
        BY <4>1 DEF Writing
      <4>3. writes \in Nat /\ done \in 0 .. length
        BY <4>2 DEF ServerInv, ServerTyped
      <4>4. Rest(writes, done, length) \in Seq(Byte)
        BY <4>3, RestTyped
      <4>5. QED
        BY <2>1, <4>2, <4>4
    <3>3. QED
      BY <3>1, <3>2
  <2>3. Len(s) <= Len(t) /\ SubSeq(s, 1, Len(s)) = SubSeq(t, 1, Len(s))
    <3>1. Len(t) = Len(s) + Len(u) /\ \A i \in 1 .. Len(s) : t[i] = s[i]
      <4>1. Len(t) = Len(s) + Len(u)
            /\ \A i \in 1 .. Len(s) + Len(u) : t[i] = IF i <= Len(s) THEN s[i] ELSE u[i - Len(s)]
        BY <2>2, ConcatProperties
      <4>2. Len(s) \in Nat /\ Len(u) \in Nat
        OBVIOUS
      <4>3. QED
        BY <4>1, <4>2
    <3>2. /\ SubSeq(t, 1, Len(s)) \in Seq(Byte) /\ Len(SubSeq(t, 1, Len(s))) = Len(s)
          /\ \A i \in 1 .. Len(s) : SubSeq(t, 1, Len(s))[i] = t[i]
      BY <3>1
    <3>3. SubSeq(t, 1, Len(s)) = s
      BY <3>1, <3>2, SeqEqual
    <3>4. QED
      BY <3>1, <3>3, SubSeqFull
  <2>4. QED
    BY <2>2, <2>3 DEF Server!IsPrefix
<1>2. call = Server!Idle => \A c \in Clients : delivered[c] = expected[c]
  <2>1. call = Server!Idle => NoCall
    BY IdleIsNoCall
  <2>2. QED
    BY <2>1 DEF NoCall, AllWritten
<1>3. Server!ClientsGetMessages
  BY <1>1, <1>2 DEF Server!ClientsGetMessages
<1>4. ASSUME outcome.ended = "returned"
      PROVE  /\ Len(outcome.readBuffer) = outcome.messageLength
             /\ \E before \in 0 .. MaxSent :
                    LET all == outcome.readBuffer \o coming[mainClientDescriptor]
                    IN  all = [i \in 1 .. Len(all) |-> before + i]
  <2> DEFINE all == outcome.readBuffer \o coming[mainClientDescriptor]
  <2>1. Len(outcome.readBuffer) = outcome.messageLength /\ Numbered(all)
    BY <1>4 DEF ServerInv, HasRead
  <2> HIDE DEF all
  <2>2. PICK before \in 0 .. MaxSent, n \in 0 .. MaxSent : all = [i \in 1 .. n |-> before + i]
    BY <2>1 DEF Numbered
  <2>3. n \in Nat /\ all \in Seq(Nat)
    BY <2>1, ServerAssumption, NumberedTyped
  <2>4. Len(all) = n
    BY <2>2, <2>3
  <2>5. QED
    BY <2>1, <2>2, <2>4 DEF all
<1>5. Server!ReturnsWholeMessages
  BY <1>4 DEF Server!ReturnsWholeMessages
<1>6. QED
  BY <1>3, <1>5

LEMMA ServerInvariant == ControlSpec => []ServerInv
<1>1. ControlInit => ServerInv
  BY ServerInit DEF ControlInit
<1>2. ServerInv /\ [ControlNext]_controlVars => ServerInv'
  <2>1. [ControlNext]_controlVars => [Server!Next]_serverVars
    BY DEF ControlNext, UseRegistrar, UseMapper, UseMenu, UseTerminal, UseServer, controlVars
  <2>2. QED
    BY <2>1, ServerNext
<1>3. QED
  BY <1>1, <1>2, PTL DEF ControlSpec

-----------------------------------------------------------------------------
(***************************************************************************)
(* The terminal.  What a handler makes of the words of a line is found     *)
(* word by word, and compared with what the line names as a whole.         *)
(***************************************************************************)

(* A loop over a sequence, each turn of which is a function of states: there is
   a sequence of the states that it goes through. *)
Turns(N, T) == [1 .. N -> [T -> T]]

GoneThrough(g, start, Turn, N, T) ==
    /\ g \in [0 .. N -> T]
    /\ g[0] = start
    /\ \A k \in 1 .. N : g[k] = Turn[k][g[k - 1]]

LEMMA Looping ==
    ASSUME NEW T, NEW start \in T, NEW N \in Nat, NEW Turn \in Turns(N, T)
    PROVE  \E g : GoneThrough(g, start, Turn, N, T)
<1> DEFINE Step(g, n) == [k \in 0 .. n |-> IF k = 0 THEN start ELSE Turn[k][g[k - 1]]]
           S == {n \in Nat : n <= N => \E g \in [0 .. n -> T] : g = Step(g, n)}
<1> USE DEF Turns
<1>1. 0 \in S
  <2> DEFINE g0 == [k \in 0 .. 0 |-> start]
  <2>1. g0 = Step(g0, 0) /\ g0 \in [0 .. 0 -> T]
    OBVIOUS
  <2>2. QED
    BY <2>1
<1>2. ASSUME NEW n \in Nat, n \in S PROVE n + 1 \in S
  <2> SUFFICES ASSUME n + 1 <= N
               PROVE  \E h \in [0 .. n + 1 -> T] : h = Step(h, n + 1)
    OBVIOUS
  <2>1. PICK g \in [0 .. n -> T] : g = Step(g, n)
    BY <1>2
  <2> DEFINE h == [k \in 0 .. n + 1 |-> IF k <= n THEN g[k] ELSE Turn[n + 1][g[n]]]
  <2>2. Turn[n + 1] \in [T -> T] /\ g[n] \in T
    OBVIOUS
  <2>3. h \in [0 .. n + 1 -> T]
    BY <2>2
  <2>4. ASSUME NEW k \in 0 .. n + 1
        PROVE  h[k] = IF k = 0 THEN start ELSE Turn[k][h[k - 1]]
    <3>1. CASE k <= n
      <4>1. k \in 0 .. n /\ (k # 0 => k - 1 \in 0 .. n)
        BY <3>1
      <4>2. h[k] = g[k] /\ (k # 0 => h[k - 1] = g[k - 1])
        BY <4>1
      <4>3. g[k] = IF k = 0 THEN start ELSE Turn[k][g[k - 1]]
        BY <2>1, <4>1
      <4>4. QED
        BY <4>2, <4>3
    <3>2. CASE k = n + 1
      BY <3>2
    <3>3. QED
      BY <3>1, <3>2
  <2> HIDE DEF h
  <2>5. h = Step(h, n + 1)
    <3>1. h = [k \in 0 .. n + 1 |-> h[k]]
      BY <2>3
    <3>2. QED
      BY <2>4, <3>1
  <2>6. QED
    BY <2>3, <2>5
<1>3. N \in S
  <2> HIDE DEF S
  <2> QED BY <1>1, <1>2, Induction
<1>4. PICK g \in [0 .. N -> T] : g = Step(g, N)
  BY <1>3
<1>5. g[0] = start /\ \A k \in 1 .. N : g[k] = Turn[k][g[k - 1]]
  BY <1>4
<1>6. GoneThrough(g, start, Turn, N, T)
  BY <1>5 DEF GoneThrough
<1>7. QED
  BY <1>6

(* The words that can be typed. *)
Word1 == Terminal!Headers \union {"-S"} \union {"motor", "can", "all", "-H", "1", "9"}
         \union {"gyro", "accel", "-h", "x"} \union {"printall", "removeall", "remove"}
         \union {"allsubcmd"}
Key == Word1 \union {Terminal!Space}

(* The words of a line, one key after the other. *)
LEMMA WordsOf ==
    ASSUME NEW keys \in Seq(Key)
    PROVE  \E w \in [0 .. Len(keys) -> Seq(Key)] :
               /\ w[0] = <<>>
               /\ \A k \in 1 .. Len(keys) :
                      w[k] = IF keys[k] = Terminal!Space THEN w[k - 1]
                             ELSE Append(w[k - 1], keys[k])
               /\ Terminal!Words(keys) = w[Len(keys)]
<1> DEFINE N == Len(keys)
           Step(w) == [k \in 0 .. N |->
                           IF k = 0 THEN <<>> ELSE IF keys[k] = Terminal!Space THEN w[k - 1]
                           ELSE Append(w[k - 1], keys[k])]
           Turn == [k \in 1 .. N |->
                       [s \in Seq(Key) |->
                           IF keys[k] = Terminal!Space THEN s ELSE Append(s, keys[k])]]
           W == CHOOSE w : w = Step(w)
<1>1. N \in Nat /\ <<>> \in Seq(Key)
  OBVIOUS
<1>2. Turn \in [1 .. N -> [Seq(Key) -> Seq(Key)]]
  <2>1. ASSUME NEW k \in 1 .. N, NEW s \in Seq(Key)
        PROVE  (IF keys[k] = Terminal!Space THEN s ELSE Append(s, keys[k])) \in Seq(Key)
    <3>1. keys[k] \in Key
      OBVIOUS
    <3>2. Append(s, keys[k]) \in Seq(Key)
      BY <3>1, AppendProperties
    <3>3. QED
      BY <3>2
  <2>2. QED
    BY <2>1
<1>3. PICK g \in [0 .. N -> Seq(Key)] :
          g[0] = <<>> /\ \A k \in 1 .. N : g[k] = Turn[k][g[k - 1]]
  <2> HIDE DEF Turn, N
  <2>1. Turn \in Turns(N, Seq(Key))
    BY <1>2 DEF Turns
  <2>2. PICK g : GoneThrough(g, <<>>, Turn, N, Seq(Key))
    BY <1>1, <2>1, Looping
  <2>3. QED
    BY <2>2 DEF GoneThrough
<1>4. ASSUME NEW k \in 1 .. N
      PROVE  Turn[k][g[k - 1]] = IF keys[k] = Terminal!Space THEN g[k - 1]
                                 ELSE Append(g[k - 1], keys[k])
  <2>1. g[k - 1] \in Seq(Key)
    OBVIOUS
  <2>2. QED
    BY <2>1
<1>5. g = Step(g)
  <2>1. \A k \in 0 .. N : k # 0 => k \in 1 .. N
    OBVIOUS
  <2>2. g[0] = <<>> /\ \A k \in 1 .. N : g[k] = Turn[k][g[k - 1]]
    BY <1>3
  <2> HIDE DEF Turn, N
  <2>3. \A k \in 0 .. N : g[k] = IF k = 0 THEN <<>> ELSE IF keys[k] = Terminal!Space THEN g[k - 1]
                                 ELSE Append(g[k - 1], keys[k])
    BY <1>4, <2>1, <2>2
  <2>4. QED
    BY <2>3
<1>6. W = Step(W)
  BY <1>5
<1>7. Terminal!Words(keys) = W[N]
  BY DEF Terminal!Words
<1> HIDE DEF W
<1>8. W[0] = <<>> /\ \A k \in 1 .. N :
          W[k] = IF keys[k] = Terminal!Space THEN W[k - 1] ELSE Append(W[k - 1], keys[k])
  <2>1. \A k \in 0 .. N : W[k] = IF k = 0 THEN <<>> ELSE IF keys[k] = Terminal!Space THEN W[k - 1]
                                 ELSE Append(W[k - 1], keys[k])
    BY <1>6
  <2>2. 0 \in 0 .. N /\ \A k \in 1 .. N : k \in 0 .. N /\ k # 0
    BY <1>1
  <2> HIDE DEF N
  <2>3. QED
    BY <2>1, <2>2
<1>9. ASSUME NEW n \in Nat, n <= N => W[n] \in Seq(Key), n + 1 <= N
      PROVE  W[n + 1] \in Seq(Key)
  <2>1. W[n] \in Seq(Key) /\ n + 1 \in 1 .. N /\ (n + 1) - 1 = n /\ keys[n + 1] \in Key
    BY <1>1, <1>9
  <2>2. Append(W[n], keys[n + 1]) \in Seq(Key)
    BY <2>1, AppendProperties
  <2>3. QED
    BY <1>8, <2>1, <2>2
<1>10. \A n \in Nat : n <= N => W[n] \in Seq(Key)
  <2> DEFINE S == {n \in Nat : n <= N => W[n] \in Seq(Key)}
  <2>1. 0 \in S
    BY <1>1, <1>8
  <2>2. \A n \in Nat : n \in S => n + 1 \in S
    BY <1>9
  <2>3. Nat \subseteq S
    <3> HIDE DEF S
    <3> QED BY <2>1, <2>2, Induction
  <2>4. QED
    BY <2>3
<1>11. W = [k \in 0 .. N |-> W[k]]
  BY <1>6
<1>12. \A k \in 0 .. N : W[k] \in Seq(Key)
  <2> HIDE DEF N
  <2> QED BY <1>1, <1>10
<1>13. W \in [0 .. N -> Seq(Key)]
  BY <1>11, <1>12
<1>14. QED
  BY <1>7, <1>8, <1>13

(* What the loop over the arguments of the motors' handler is in. *)
MotorState ==
    [motor : BOOLEAN, can : BOOLEAN, printAll : BOOLEAN, expects : {"motor", "can", nullptr},
     ended : {"all", "help", "failed", nullptr}, rest : BOOLEAN]

LEMMA MotorArgumentTyped ==
    ASSUME NEW p \in MotorState, NEW arg PROVE Terminal!MotorArgument(p, arg) \in MotorState
BY DEF MotorState, Terminal!MotorArgument, Terminal!Valid

LEMMA MotorLoop ==
    ASSUME NEW args \in Seq(Key)
    PROVE  \E p \in [0 .. Len(args) -> MotorState] :
               /\ p[0] = Terminal!NoMotors
               /\ \A k \in 1 .. Len(args) : p[k] = Terminal!MotorArgument(p[k - 1], args[k])
               /\ Terminal!MotorArguments(args) = p[Len(args)]
<1> DEFINE N == Len(args)
           Step(p) == [k \in 0 .. N |->
                           IF k = 0 THEN Terminal!NoMotors
                           ELSE Terminal!MotorArgument(p[k - 1], args[k])]
           Turn == [k \in 1 .. N |-> [s \in MotorState |-> Terminal!MotorArgument(s, args[k])]]
           P == CHOOSE p : p = Step(p)
<1>1. N \in Nat /\ Terminal!NoMotors \in MotorState
  BY DEF MotorState, Terminal!NoMotors
<1>2. Turn \in Turns(N, MotorState)
  BY MotorArgumentTyped DEF Turns
<1>3. PICK g : GoneThrough(g, Terminal!NoMotors, Turn, N, MotorState)
  <2> HIDE DEF Turn, N
  <2> QED BY <1>1, <1>2, Looping
<1>4. g \in [0 .. N -> MotorState] /\ g[0] = Terminal!NoMotors
      /\ \A k \in 1 .. N : g[k] = Turn[k][g[k - 1]]
  BY <1>3 DEF GoneThrough
<1>5. \A k \in 1 .. N : g[k] = Terminal!MotorArgument(g[k - 1], args[k])
  <2> TAKE k \in 1 .. N
  <2>1. k - 1 \in 0 .. N
    BY <1>1
  <2>2. g[k - 1] \in MotorState
    BY <1>4, <2>1
  <2>3. QED
    BY <1>4, <2>2
<1> HIDE DEF Turn
<1>6. g = Step(g)
  <2>1. \A k \in 0 .. N : k = 0 \/ k \in 1 .. N
    BY <1>1
  <2> HIDE DEF N
  <2>2. \A k \in 0 .. N : g[k] = IF k = 0 THEN Terminal!NoMotors
                                 ELSE Terminal!MotorArgument(g[k - 1], args[k])
    BY <1>4, <1>5, <2>1
  <2>3. g = [k \in 0 .. N |-> g[k]]
    BY <1>4
  <2>4. QED
    BY <2>2, <2>3
<1>7. P = Step(P)
  BY <1>6
<1>8. Terminal!MotorArguments(args) = P[N]
  BY DEF Terminal!MotorArguments
<1> HIDE DEF P
<1>9. P = g
  <2> DEFINE S == {n \in Nat : n <= N => P[n] = g[n]}
  <2>1. 0 \in S
    BY <1>1, <1>4, <1>7
  <2>2. \A n \in Nat : n \in S => n + 1 \in S
    <3> SUFFICES ASSUME NEW n \in Nat, n <= N => P[n] = g[n], n + 1 <= N PROVE P[n + 1] = g[n + 1]
      OBVIOUS
    <3>1. n + 1 \in 0 .. N /\ n + 1 \in 1 .. N /\ n + 1 # 0 /\ (n + 1) - 1 = n
      BY <1>1
    <3>2. P[n + 1] = Terminal!MotorArgument(P[(n + 1) - 1], args[n + 1])
      BY <1>7, <3>1
    <3>3. g[n + 1] = Terminal!MotorArgument(g[(n + 1) - 1], args[n + 1])
      BY <1>5, <3>1
    <3>4. QED
      BY <3>1, <3>2, <3>3, <1>1
  <2>3. Nat \subseteq S
    <3> HIDE DEF S
    <3> QED BY <2>1, <2>2, Induction
  <2>4. \A n \in 0 .. N : P[n] = g[n]
    BY <1>1, <2>3
  <2>5. P = [n \in 0 .. N |-> P[n]] /\ g = [n \in 0 .. N |-> g[n]]
    BY <1>4, <1>7
  <2>6. QED
    BY <2>4, <2>5
<1>10. QED
  BY <1>4, <1>5, <1>8, <1>9

(* The same of the handler of an IMU. *)
ImuState == [subjects : SUBSET {"gyro", "accel"}, ended : {"help", "failed", nullptr}]

NoSubjects == [subjects |-> {}, ended |-> nullptr]

LEMMA ImuArgumentTyped ==
    ASSUME NEW p \in ImuState, NEW arg PROVE Terminal!ImuArgument(p, arg) \in ImuState
BY DEF ImuState, Terminal!ImuArgument

LEMMA ImuLoop ==
    ASSUME NEW args \in Seq(Key)
    PROVE  \E p \in [0 .. Len(args) -> ImuState] :
               /\ p[0] = NoSubjects
               /\ \A k \in 1 .. Len(args) : p[k] = Terminal!ImuArgument(p[k - 1], args[k])
               /\ Terminal!ImuArguments(args) = p[Len(args)]
<1> DEFINE N == Len(args)
           Step(p) == [k \in 0 .. N |->
                           IF k = 0 THEN NoSubjects
                           ELSE Terminal!ImuArgument(p[k - 1], args[k])]
           Turn == [k \in 1 .. N |-> [s \in ImuState |-> Terminal!ImuArgument(s, args[k])]]
           P == CHOOSE p : p = Step(p)
<1>1. N \in Nat /\ NoSubjects \in ImuState
  BY DEF ImuState, NoSubjects
<1>2. Turn \in Turns(N, ImuState)
  BY ImuArgumentTyped DEF Turns
<1>3. PICK g : GoneThrough(g, NoSubjects, Turn, N, ImuState)
  <2> HIDE DEF Turn, N
  <2> QED BY <1>1, <1>2, Looping
<1>4. g \in [0 .. N -> ImuState] /\ g[0] = NoSubjects
      /\ \A k \in 1 .. N : g[k] = Turn[k][g[k - 1]]
  BY <1>3 DEF GoneThrough
<1>5. \A k \in 1 .. N : g[k] = Terminal!ImuArgument(g[k - 1], args[k])
  <2> TAKE k \in 1 .. N
  <2>1. k - 1 \in 0 .. N
    BY <1>1
  <2>2. g[k - 1] \in ImuState
    BY <1>4, <2>1
  <2>3. QED
    BY <1>4, <2>2
<1> HIDE DEF Turn
<1>6. g = Step(g)
  <2>1. \A k \in 0 .. N : k = 0 \/ k \in 1 .. N
    BY <1>1
  <2> HIDE DEF N
  <2>2. \A k \in 0 .. N : g[k] = IF k = 0 THEN NoSubjects
                                 ELSE Terminal!ImuArgument(g[k - 1], args[k])
    BY <1>4, <1>5, <2>1
  <2>3. g = [k \in 0 .. N |-> g[k]]
    BY <1>4
  <2>4. QED
    BY <2>2, <2>3
<1>7. P = Step(P)
  BY <1>6
<1>8. Terminal!ImuArguments(args) = P[N]
  BY DEF Terminal!ImuArguments, NoSubjects
<1> HIDE DEF P
<1>9. P = g
  <2> DEFINE S == {n \in Nat : n <= N => P[n] = g[n]}
  <2>1. 0 \in S
    BY <1>1, <1>4, <1>7
  <2>2. \A n \in Nat : n \in S => n + 1 \in S
    <3> SUFFICES ASSUME NEW n \in Nat, n <= N => P[n] = g[n], n + 1 <= N PROVE P[n + 1] = g[n + 1]
      OBVIOUS
    <3>1. n + 1 \in 0 .. N /\ n + 1 \in 1 .. N /\ n + 1 # 0 /\ (n + 1) - 1 = n
      BY <1>1
    <3>2. P[n + 1] = Terminal!ImuArgument(P[(n + 1) - 1], args[n + 1])
      BY <1>7, <3>1
    <3>3. g[n + 1] = Terminal!ImuArgument(g[(n + 1) - 1], args[n + 1])
      BY <1>5, <3>1
    <3>4. QED
      BY <3>1, <3>2, <3>3, <1>1
  <2>3. Nat \subseteq S
    <3> HIDE DEF S
    <3> QED BY <2>1, <2>2, Induction
  <2>4. \A n \in 0 .. N : P[n] = g[n]
    BY <1>1, <2>3
  <2>5. P = [n \in 0 .. N |-> P[n]] /\ g = [n \in 0 .. N |-> g[n]]
    BY <1>4, <1>7
  <2>6. QED
    BY <2>4, <2>5
<1>10. QED
  BY <1>4, <1>5, <1>8, <1>9

(* After k of the arguments: all the pairs so far, of which the last may lack
   its number; or where the loop ended. *)
Odd(k) == k % 2 = 1

Paired(args, k) == \A i \in 1 .. k : Odd(i) => Terminal!Pair(args, i)

Given(p, args, k) ==
    /\ p.can <=> \E i \in 1 .. k : Odd(i) /\ args[i] = "can"
    /\ p.motor <=> \E i \in 1 .. k : Odd(i) /\ args[i] = "motor"

Wrong(args, k) ==
    \E i \in 1 .. k :
        /\ Odd(i)
        /\ \/ args[i] \notin {"motor", "can", "all"}
           \/ i + 1 <= k /\ args[i] \in {"motor", "can"} /\ args[i + 1] \notin Terminal!Valid

MotorsRead(p, args, k) ==
    /\ p.ended = nullptr => ~p.printAll /\ ~p.rest
    /\ p.ended = nullptr /\ p.expects = nullptr =>
           ~Odd(k) /\ Paired(args, k) /\ Given(p, args, k)
    /\ p.ended = nullptr /\ p.expects # nullptr =>
           Odd(k) /\ args[k] = p.expects /\ Paired(args, k - 1) /\ Given(p, args, k - 1)
    /\ p.ended = "all" =>
           /\ p.printAll /\ p.expects = nullptr
           /\ \E i \in 1 .. k :
                  /\ Odd(i) /\ args[i] = "all" /\ (p.rest <=> i < k)
                  /\ i > 1 <=> p.can \/ p.motor
    /\ p.ended \in {"failed", "help"} => Wrong(args, k)

LEMMA MotorsReadOn ==
    ASSUME NEW args \in Seq(Key), NEW k \in Nat, k + 1 <= Len(args), NEW p \in MotorState,
           MotorsRead(p, args, k), NEW q, q = Terminal!MotorArgument(p, args[k + 1])
    PROVE  MotorsRead(q, args, k + 1)
<1> DEFINE arg == args[k + 1]
<1>1. nullptr \notin {"motor", "can", "all", "help", "failed"}
  BY TerminalAssumption
<1>2. \A i \in 1 .. k + 1 : i \in 1 .. k \/ i = k + 1
  OBVIOUS
<1>3. Odd(k + 1) <=> ~Odd(k)
  BY DEF Odd
<1>4. CASE p.ended = nullptr /\ p.expects = nullptr
  <2>1. ~p.printAll /\ ~p.rest /\ ~Odd(k) /\ Paired(args, k) /\ Given(p, args, k)
    BY <1>1, <1>4 DEF MotorsRead
  <2>2. CASE arg \in {"motor", "can"}
    <3>1. q = [p EXCEPT !.expects = arg]
      BY <1>4, <2>2 DEF Terminal!MotorArgument
    <3>2. q.ended = nullptr /\ q.expects = arg /\ ~q.printAll /\ ~q.rest /\ q.can = p.can
          /\ q.motor = p.motor
      BY <1>4, <2>1, <3>1 DEF MotorState
    <3>3. (k + 1) - 1 = k /\ arg # nullptr
      BY <1>1, <2>2
    <3>4. Given(q, args, k)
      BY <2>1, <3>2 DEF Given
    <3>5. QED
      BY <1>1, <1>3, <2>1, <3>2, <3>3, <3>4 DEF MotorsRead
  <2>3. CASE arg = "all"
    <3>1. q = [p EXCEPT !.printAll = TRUE, !.ended = "all"]
      BY <1>4, <2>3 DEF Terminal!MotorArgument
    <3>2. q.ended = "all" /\ q.printAll /\ q.expects = nullptr /\ ~q.rest /\ q.can = p.can
          /\ q.motor = p.motor
      BY <1>4, <2>1, <3>1 DEF MotorState
    <3>3. k + 1 > 1 <=> p.can \/ p.motor
      <4>1. CASE k > 0
        <5>1. k > 1 /\ 1 \in 1 .. k /\ Odd(1)
          BY <2>1, <4>1 DEF Odd
        <5>2. args[1] \in {"motor", "can"}
          BY <2>1, <5>1 DEF Paired, Terminal!Pair
        <5>3. QED
          BY <2>1, <5>1, <5>2 DEF Given
      <4>2. CASE k = 0
        BY <2>1, <4>2 DEF Given
      <4>3. QED
        BY <4>1, <4>2
    <3>4. k + 1 \in 1 .. k + 1 /\ ~(k + 1 < k + 1) /\ Odd(k + 1)
      BY <1>3, <2>1
    <3>5. QED
      BY <1>1, <2>3, <3>2, <3>3, <3>4 DEF MotorsRead
  <2>4. CASE arg \notin {"motor", "can", "all"}
    <3>1. q.ended \in {"failed", "help"}
      BY <1>4, <2>4 DEF Terminal!MotorArgument, MotorState
    <3>2. k + 1 \in 1 .. k + 1 /\ Odd(k + 1)
      BY <1>3, <2>1
    <3>3. Wrong(args, k + 1)
      BY <2>4, <3>2 DEF Wrong
    <3>4. QED
      BY <1>1, <3>1, <3>3 DEF MotorsRead
  <2>5. QED
    BY <2>2, <2>3, <2>4
<1>5. CASE p.ended = nullptr /\ p.expects # nullptr
  <2>1. Odd(k) /\ args[k] = p.expects /\ ~p.printAll /\ ~p.rest
        /\ Paired(args, k - 1) /\ Given(p, args, k - 1)
    BY <1>1, <1>5 DEF MotorsRead
  <2>2. k \in 1 .. k /\ k \in 1 .. k + 1 /\ ~Odd(k + 1) /\ args[k] \in {"motor", "can"}
    BY <1>3, <1>5, <2>1 DEF Odd, MotorState
  <2>3. CASE arg \in Terminal!Valid
    <3>1. q = [p EXCEPT !.expects = nullptr, !.motor = @ \/ p.expects = "motor",
                        !.can = @ \/ p.expects = "can"]
      BY <1>5, <2>3 DEF Terminal!MotorArgument
    <3>2. q.ended = nullptr /\ q.expects = nullptr /\ ~q.printAll /\ ~q.rest
          /\ (q.motor <=> p.motor \/ p.expects = "motor") /\ (q.can <=> p.can \/ p.expects = "can")
      BY <1>5, <2>1, <3>1 DEF MotorState
    <3>3. \A i \in 1 .. k + 1 : Odd(i) => i \in 1 .. k - 1 \/ i = k
      BY <1>2, <2>2
    <3>4. Paired(args, k + 1)
      BY <2>1, <2>2, <2>3, <3>3 DEF Paired, Terminal!Pair
    <3>5. Given(q, args, k + 1)
      <4>1. \A i \in 1 .. k - 1 : i \in 1 .. k + 1
        OBVIOUS
      <4>2. QED
        BY <2>1, <2>2, <3>2, <3>3, <4>1 DEF Given
    <3>6. QED
      BY <1>1, <2>2, <3>2, <3>4, <3>5 DEF MotorsRead
  <2>4. CASE arg \notin Terminal!Valid
    <3>1. q.ended \in {"failed", "help"}
      BY <1>5, <2>4 DEF Terminal!MotorArgument, MotorState
    <3>2. k + 1 <= k + 1
      OBVIOUS
    <3>3. Wrong(args, k + 1)
      BY <2>1, <2>2, <2>4, <3>2 DEF Wrong
    <3>4. QED
      BY <1>1, <3>1, <3>3 DEF MotorsRead
  <2>5. QED
    BY <2>3, <2>4
<1>6. CASE p.ended # nullptr
  <2>1. q = [p EXCEPT !.rest = TRUE]
    BY <1>6 DEF Terminal!MotorArgument
  <2>2. q.ended = p.ended /\ q.printAll = p.printAll /\ q.expects = p.expects /\ q.rest
        /\ q.can = p.can /\ q.motor = p.motor
    BY <2>1 DEF MotorState
  <2>3. CASE p.ended = "all"
    <3>1. PICK i \in 1 .. k : Odd(i) /\ args[i] = "all" /\ (i > 1 <=> p.can \/ p.motor)
      BY <1>1, <2>3 DEF MotorsRead
    <3>2. i \in 1 .. k + 1 /\ i < k + 1
      OBVIOUS
    <3>3. q.printAll /\ q.expects = nullptr
      BY <1>1, <2>2, <2>3 DEF MotorsRead
    <3>4. QED
      BY <1>1, <2>2, <2>3, <3>1, <3>2, <3>3 DEF MotorsRead
  <2>4. CASE p.ended \in {"failed", "help"}
    <3>1. Wrong(args, k)
      BY <1>1, <2>4 DEF MotorsRead
    <3>2. Wrong(args, k + 1)
      BY <3>1 DEF Wrong
    <3>3. QED
      BY <1>1, <2>2, <2>4, <3>2 DEF MotorsRead
  <2>5. QED
    BY <1>6, <2>3, <2>4 DEF MotorState
<1>7. QED
  BY <1>4, <1>5, <1>6

LEMMA MotorsAreRead ==
    ASSUME NEW args \in Seq(Key)
    PROVE  /\ Terminal!MotorArguments(args) \in MotorState
           /\ MotorsRead(Terminal!MotorArguments(args), args, Len(args))
<1>1. PICK p \in [0 .. Len(args) -> MotorState] :
          /\ p[0] = Terminal!NoMotors
          /\ \A k \in 1 .. Len(args) : p[k] = Terminal!MotorArgument(p[k - 1], args[k])
          /\ Terminal!MotorArguments(args) = p[Len(args)]
  BY MotorLoop
<1> DEFINE S == {k \in Nat : k <= Len(args) => MotorsRead(p[k], args, k)}
<1>2. 0 \in S
  <2>1. nullptr \notin {"all", "help", "failed"}
    BY TerminalAssumption
  <2>2. MotorsRead(Terminal!NoMotors, args, 0)
    BY <2>1 DEF MotorsRead, Terminal!NoMotors, Odd, Paired, Given
  <2>3. QED
    BY <1>1, <2>2
<1>3. \A k \in Nat : k \in S => k + 1 \in S
  <2> SUFFICES ASSUME NEW k \in Nat, k + 1 <= Len(args), MotorsRead(p[k], args, k)
               PROVE  MotorsRead(p[k + 1], args, k + 1)
    OBVIOUS
  <2>1. k \in 0 .. Len(args) /\ k + 1 \in 1 .. Len(args) /\ (k + 1) - 1 = k
    OBVIOUS
  <2>2. p[k] \in MotorState /\ p[k + 1] = Terminal!MotorArgument(p[k], args[k + 1])
    BY <1>1, <2>1
  <2>3. QED
    BY <2>2, MotorsReadOn
<1>4. Nat \subseteq S
  <2> HIDE DEF S
  <2> QED BY <1>2, <1>3, Induction
<1>5. Len(args) \in Nat /\ Len(args) \in 0 .. Len(args)
  OBVIOUS
<1>6. QED
  BY <1>1, <1>4, <1>5

(* The handler of the motors prints what the line names. *)
LEMMA MotorsPrinted ==
    ASSUME NEW args \in Seq(Key), args # <<>>, NEW streaming \in BOOLEAN,
           NEW result, result = Terminal!MotorCallback(args, streaming)
    PROVE  /\ result.prints = Terminal!MotorsNamed(args) /\ result.streams = result.prints
           /\ result.ok /\ streaming => result.prints # {}
<1>1. PICK p \in MotorState, N \in Nat :
          p = Terminal!MotorArguments(args) /\ N = Len(args) /\ MotorsRead(p, args, N)
  BY MotorsAreRead
<1>2. N > 0 /\ DOMAIN args = 1 .. N
  BY <1>1
<1>3. nullptr \notin {"motor", "can", "all", "help", "failed"}
  BY TerminalAssumption
<1>4. result = IF p.ended = "help"
               THEN IF streaming \/ p.can \/ p.motor \/ p.rest THEN Terminal!Refused
                    ELSE Terminal!Usage
               ELSE IF Terminal!Accepted(p) THEN Terminal!Shown(Terminal!printInfo(p))
                    ELSE Terminal!Refused
  BY <1>1 DEF Terminal!MotorCallback
<1> DEFINE odd == {k \in DOMAIN args : k % 2 = 1}
           named == {args[k] : k \in odd}
           Read == {m \in Terminal!Motors :
                       ("can" \in named => m[1] = 1) /\ ("motor" \in named => m[2] = 1)}
           All == args = <<"all">>
           Pairs == Len(args) % 2 = 0 /\ args # <<>> /\ \A k \in odd : Terminal!Pair(args, k)
<1>5. Terminal!MotorsNamed(args) = IF All THEN Terminal!Motors ELSE IF Pairs THEN Read ELSE {}
  BY DEF Terminal!MotorsNamed
<1>6. \A k : k \in odd <=> k \in 1 .. N /\ Odd(k)
  BY <1>2 DEF Odd
<1>7. All <=> N = 1 /\ args[1] = "all"
  BY <1>1
<1>8. Pairs <=> ~Odd(N) /\ Paired(args, N)
  <2>1. N % 2 = 0 <=> ~Odd(N)
    BY DEF Odd
  <2>2. (\A k \in odd : Terminal!Pair(args, k)) <=> Paired(args, N)
    BY <1>6 DEF Paired
  <2> HIDE DEF odd
  <2>3. QED
    BY <1>1, <2>1, <2>2
<1>9. /\ "can" \in named <=> \E i \in 1 .. N : Odd(i) /\ args[i] = "can"
      /\ "motor" \in named <=> \E i \in 1 .. N : Odd(i) /\ args[i] = "motor"
  <2> HIDE DEF odd
  <2> QED BY <1>6
<1> HIDE DEF odd, named
<1>10. 1 \in 1 .. N /\ Odd(1)
  BY <1>2 DEF Odd
<1>11. <<1, 1>> \in Terminal!Motors
  BY DEF Terminal!Motors
<1>12. Terminal!printInfo(p) # {}
  BY <1>11 DEF Terminal!printInfo
<1>13. /\ Terminal!Refused = [ok |-> FALSE, prints |-> {}, streams |-> {}]
       /\ Terminal!Usage = [ok |-> TRUE, prints |-> {}, streams |-> {}]
       /\ \A things : /\ Terminal!Shown(things).prints = things
                      /\ Terminal!Shown(things).streams = things
  BY DEF Terminal!Refused, Terminal!Usage, Terminal!Shown
<1>14. result.streams = result.prints /\ (result.ok /\ streaming => result.prints # {})
  BY <1>4, <1>12, <1>13
<1>15. Terminal!Accepted(p) <=> /\ p.ended # "failed" /\ p.expects = nullptr /\ ~p.rest
                                /\ (p.can \/ p.motor) # p.printAll
  BY DEF Terminal!Accepted
<1>16. CASE p.ended = nullptr /\ p.expects = nullptr
  <2>1. ~p.printAll /\ ~p.rest /\ ~Odd(N) /\ Paired(args, N) /\ Given(p, args, N)
    BY <1>1, <1>16 DEF MotorsRead
  <2>2. args[1] \in {"motor", "can"}
    BY <1>10, <2>1 DEF Paired, Terminal!Pair
  <2>3. p.can \/ p.motor
    BY <1>10, <2>1, <2>2 DEF Given
  <2>4. (p.can <=> "can" \in named) /\ (p.motor <=> "motor" \in named)
    BY <1>9, <2>1 DEF Given
  <2>5. Terminal!printInfo(p) = Read
    BY <2>4 DEF Terminal!printInfo
  <2>6. Terminal!MotorsNamed(args) = Read
    BY <1>5, <1>7, <1>8, <2>1, <2>2
  <2>7. Terminal!Accepted(p)
    BY <1>3, <1>15, <1>16, <2>1, <2>3
  <2>8. QED
    <3>1. p.ended # "help"
      BY <1>3, <1>16
    <3>2. result = Terminal!Shown(Terminal!printInfo(p))
      BY <1>4, <2>7, <3>1
    <3>3. result.prints = Terminal!printInfo(p)
      BY <1>13, <3>2
    <3> HIDE DEF Read
    <3>4. QED
      BY <1>14, <2>5, <2>6, <3>3
<1>17. CASE p.ended = nullptr /\ p.expects # nullptr
  <2>1. Odd(N) /\ args[N] = p.expects
    BY <1>1, <1>17 DEF MotorsRead
  <2>2. args[N] # "all"
    BY <1>3, <1>17, <2>1 DEF MotorState
  <2>3. Terminal!MotorsNamed(args) = {}
    BY <1>5, <1>7, <1>8, <2>1, <2>2
  <2>4. QED
    BY <1>3, <1>4, <1>13, <1>14, <1>15, <1>17, <2>3
<1>18. CASE p.ended = "all"
  <2>1. PICK i \in 1 .. N : /\ Odd(i) /\ args[i] = "all" /\ (p.rest <=> i < N)
                            /\ i > 1 <=> p.can \/ p.motor
    BY <1>1, <1>18 DEF MotorsRead
  <2>2. p.printAll /\ p.expects = nullptr
    BY <1>1, <1>18 DEF MotorsRead
  <2>3. ~Pairs
    BY <1>8, <2>1 DEF Paired, Terminal!Pair
  <2>4. CASE N = 1
    <3>1. i = 1 /\ All /\ ~p.rest
      BY <1>7, <2>1, <2>4
    <3>2. Terminal!MotorsNamed(args) = Terminal!Motors
      BY <1>5, <3>1
    <3>3. ~p.can /\ ~p.motor
      BY <2>1, <3>1
    <3>4. Terminal!printInfo(p) = Terminal!Motors
      BY <3>3 DEF Terminal!printInfo
    <3>5. Terminal!Accepted(p)
      BY <1>15, <1>18, <2>2, <3>1, <3>3
    <3>6. QED
      BY <1>4, <1>13, <1>14, <1>18, <3>2, <3>4, <3>5
  <2>5. CASE N # 1
    <3>1. Terminal!MotorsNamed(args) = {}
      BY <1>5, <1>7, <2>3, <2>5
    <3>2. ~Terminal!Accepted(p)
      <4>1. CASE i = 1
        BY <1>2, <1>15, <2>1, <2>5, <4>1
      <4>2. CASE i > 1
        <5>1. (p.can \/ p.motor) = p.printAll
          BY <2>1, <2>2, <4>2 DEF MotorState
        <5>2. QED
          BY <1>15, <5>1
      <4>3. QED
        BY <4>1, <4>2
    <3>3. QED
      BY <1>4, <1>13, <1>14, <1>18, <3>1, <3>2
  <2>6. QED
    BY <2>4, <2>5
<1>19. CASE p.ended \in {"failed", "help"}
  <2>1. Wrong(args, N)
    BY <1>1, <1>19 DEF MotorsRead
  <2>2. PICK i \in 1 .. N : /\ Odd(i)
                            /\ \/ args[i] \notin {"motor", "can", "all"}
                               \/ /\ i + 1 <= N /\ args[i] \in {"motor", "can"}
                                  /\ args[i + 1] \notin Terminal!Valid
    BY <2>1 DEF Wrong
  <2>3. ~Pairs
    BY <1>8, <2>2 DEF Paired, Terminal!Pair
  <2>4. ~All
    <3>1. N = 1 => i = 1 /\ ~(i + 1 <= N)
      OBVIOUS
    <3>2. QED
      BY <1>7, <2>2, <3>1
  <2>5. Terminal!MotorsNamed(args) = {}
    BY <1>5, <2>3, <2>4
  <2>6. result.prints = {}
    BY <1>4, <1>13, <1>15, <1>19
  <2>7. QED
    BY <1>14, <2>5, <2>6
<1>20. QED
  BY <1>16, <1>17, <1>18, <1>19 DEF MotorState

(* After k of the arguments of the handler of an IMU: the subjects so far, or
   the argument that is none. *)
SubjectsRead(p, args, k) ==
    /\ p.ended = nullptr =>
           /\ p.subjects = {args[i] : i \in 1 .. k}
           /\ \A i, j \in 1 .. k : args[i] = args[j] => i = j
    /\ p.ended = "failed" =>
           \E i \in 1 .. k : args[i] \notin {"gyro", "accel"}
                             \/ \E j \in 1 .. k : j # i /\ args[j] = args[i]
    /\ p.ended = "help" => \E i \in 1 .. k : args[i] = "-h"

LEMMA SubjectsReadOn ==
    ASSUME NEW args \in Seq(Key), NEW k \in Nat, k + 1 <= Len(args), NEW p \in ImuState,
           SubjectsRead(p, args, k), NEW q, q = Terminal!ImuArgument(p, args[k + 1])
    PROVE  SubjectsRead(q, args, k + 1)
<1> DEFINE arg == args[k + 1]
<1>1. nullptr \notin {"help", "failed"}
  BY TerminalAssumption
<1>2. \A i \in 1 .. k + 1 : i \in 1 .. k \/ i = k + 1
  OBVIOUS
<1>3. k + 1 \in 1 .. k + 1 /\ \A i \in 1 .. k : i \in 1 .. k + 1 /\ i # k + 1
  OBVIOUS
<1>4. CASE p.ended # nullptr
  <2>1. q = p
    BY <1>4 DEF Terminal!ImuArgument
  <2>2. QED
    BY <1>1, <1>3, <1>4, <2>1 DEF SubjectsRead
<1>5. CASE p.ended = nullptr /\ arg \in {"gyro", "accel"} \ p.subjects
  <2>1. q = [p EXCEPT !.subjects = @ \union {arg}]
    BY <1>5 DEF Terminal!ImuArgument
  <2>2. q.ended = nullptr /\ q.subjects = p.subjects \union {arg}
    BY <1>5, <2>1 DEF ImuState
  <2>3. p.subjects = {args[i] : i \in 1 .. k} /\ \A i, j \in 1 .. k : args[i] = args[j] => i = j
    BY <1>5 DEF SubjectsRead
  <2>4. q.subjects = {args[i] : i \in 1 .. k + 1}
    BY <1>2, <1>3, <2>2, <2>3
  <2>5. \A i \in 1 .. k : args[i] # arg
    BY <1>5, <2>3
  <2>6. \A i, j \in 1 .. k + 1 : args[i] = args[j] => i = j
    BY <1>2, <2>3, <2>5
  <2>7. QED
    BY <1>1, <2>2, <2>4, <2>6 DEF SubjectsRead
<1>6. CASE p.ended = nullptr /\ arg \notin {"gyro", "accel"} \ p.subjects
  <2>1. q.ended = IF arg = "-h" THEN "help" ELSE "failed"
    BY <1>6 DEF Terminal!ImuArgument, ImuState
  <2>2. p.subjects = {args[i] : i \in 1 .. k}
    BY <1>6 DEF SubjectsRead
  <2>3. arg \notin {"gyro", "accel"} \/ \E j \in 1 .. k : args[j] = arg
    BY <1>6, <2>2
  <2>4. \E i \in 1 .. k + 1 : args[i] \notin {"gyro", "accel"}
                              \/ \E j \in 1 .. k + 1 : j # i /\ args[j] = args[i]
    BY <1>3, <2>3
  <2>5. arg = "-h" => \E i \in 1 .. k + 1 : args[i] = "-h"
    BY <1>3
  <2>6. QED
    BY <1>1, <2>1, <2>4, <2>5 DEF SubjectsRead
<1>7. QED
  BY <1>4, <1>5, <1>6

LEMMA SubjectsAreRead ==
    ASSUME NEW args \in Seq(Key)
    PROVE  /\ Terminal!ImuArguments(args) \in ImuState
           /\ SubjectsRead(Terminal!ImuArguments(args), args, Len(args))
<1>1. PICK p \in [0 .. Len(args) -> ImuState] :
          /\ p[0] = NoSubjects
          /\ \A k \in 1 .. Len(args) : p[k] = Terminal!ImuArgument(p[k - 1], args[k])
          /\ Terminal!ImuArguments(args) = p[Len(args)]
  BY ImuLoop
<1> DEFINE S == {k \in Nat : k <= Len(args) => SubjectsRead(p[k], args, k)}
<1>2. 0 \in S
  <2>1. nullptr \notin {"help", "failed"}
    BY TerminalAssumption
  <2>2. SubjectsRead(NoSubjects, args, 0)
    BY <2>1 DEF SubjectsRead, NoSubjects
  <2>3. QED
    BY <1>1, <2>2
<1>3. \A k \in Nat : k \in S => k + 1 \in S
  <2> SUFFICES ASSUME NEW k \in Nat, k + 1 <= Len(args), SubjectsRead(p[k], args, k)
               PROVE  SubjectsRead(p[k + 1], args, k + 1)
    OBVIOUS
  <2>1. k \in 0 .. Len(args) /\ k + 1 \in 1 .. Len(args) /\ (k + 1) - 1 = k
    OBVIOUS
  <2>2. p[k] \in ImuState /\ p[k + 1] = Terminal!ImuArgument(p[k], args[k + 1])
    BY <1>1, <2>1
  <2>3. QED
    BY <2>2, SubjectsReadOn
<1>4. Nat \subseteq S
  <2> HIDE DEF S
  <2> QED BY <1>2, <1>3, Induction
<1>5. Len(args) \in Nat /\ Len(args) \in 0 .. Len(args)
  OBVIOUS
<1>6. QED
  BY <1>1, <1>4, <1>5

(* The handler of an IMU prints what the line names. *)
LEMMA SubjectsPrinted ==
    ASSUME NEW args \in Seq(Key), args # <<>>, "-h" \notin Terminal!ToSet(args),
           NEW result, result = Terminal!ImuCallback(args)
    PROVE  /\ result.prints = Terminal!SubjectsNamed(args) /\ result.streams = result.prints
           /\ result.ok => result.prints # {}
<1>1. PICK p \in ImuState, N \in Nat :
          p = Terminal!ImuArguments(args) /\ N = Len(args) /\ SubjectsRead(p, args, N)
  BY SubjectsAreRead
<1>2. N > 0 /\ DOMAIN args = 1 .. N
  BY <1>1
<1>3. nullptr \notin {"help", "failed"}
  BY TerminalAssumption
<1>4. Terminal!ToSet(args) = {args[i] : i \in 1 .. N}
  BY <1>2 DEF Terminal!ToSet
<1>5. Terminal!IsInjective(args) <=> \A i, j \in 1 .. N : args[i] = args[j] => i = j
  BY <1>2 DEF Terminal!IsInjective
<1>6. Terminal!SubjectsNamed(args) =
          IF Terminal!ToSet(args) \subseteq {"gyro", "accel"} /\ Terminal!IsInjective(args)
          THEN Terminal!ToSet(args) ELSE {}
  BY DEF Terminal!SubjectsNamed
<1>7. p.ended # "help"
  BY <1>1, <1>4 DEF SubjectsRead
<1>8. result = IF p.ended = "failed" \/ p.subjects = {} THEN Terminal!Refused
               ELSE Terminal!Shown(p.subjects)
  BY <1>1, <1>7 DEF Terminal!ImuCallback
<1>9. /\ Terminal!Refused = [ok |-> FALSE, prints |-> {}, streams |-> {}]
      /\ \A things : /\ Terminal!Shown(things).prints = things
                     /\ Terminal!Shown(things).streams = things
  BY DEF Terminal!Refused, Terminal!Shown
<1>10. CASE p.ended = nullptr
  <2>1. p.subjects = Terminal!ToSet(args) /\ Terminal!IsInjective(args)
    BY <1>1, <1>4, <1>5, <1>10 DEF SubjectsRead
  <2>2. p.subjects \subseteq {"gyro", "accel"}
    BY DEF ImuState
  <2>3. args[1] \in p.subjects
    BY <1>2, <1>4, <2>1
  <2>4. result = Terminal!Shown(p.subjects)
    BY <1>3, <1>8, <1>10, <2>3
  <2>5. Terminal!SubjectsNamed(args) = p.subjects
    BY <1>6, <2>1, <2>2
  <2>6. result.prints = p.subjects /\ result.streams = p.subjects
    BY <1>9, <2>4
  <2>7. QED
    BY <2>3, <2>5, <2>6
<1>11. CASE p.ended = "failed"
  <2>1. ~(Terminal!ToSet(args) \subseteq {"gyro", "accel"} /\ Terminal!IsInjective(args))
    BY <1>1, <1>4, <1>5, <1>11 DEF SubjectsRead
  <2>2. QED
    BY <1>6, <1>8, <1>9, <1>11, <2>1
<1>12. QED
  BY <1>7, <1>10, <1>11 DEF ImuState

(* The words after the header, and after the flag. *)
LEMMA ArgsOf ==
    ASSUME NEW words \in Seq(Key), words # <<>>
    PROVE  /\ Terminal!Args(words) \in Seq(Key) /\ Terminal!Streaming(words) \in BOOLEAN
           /\ \A arg \in Terminal!ToSet(Terminal!Args(words)) : arg \in Terminal!ToSet(words)
<1>1. PICK first \in {2, 3} : Terminal!Args(words) = SubSeq(words, first, Len(words))
  BY DEF Terminal!Args
<1>2. Terminal!Streaming(words) \in BOOLEAN
  BY DEF Terminal!Streaming
<1> DEFINE args == SubSeq(words, first, Len(words))
<1>3. args \in Seq(Key) /\ Len(args) <= Len(words)
      /\ \A i \in 1 .. Len(args) :
             args[i] = words[i + first - 1] /\ i + first - 1 \in 1 .. Len(words)
  <2>1. CASE first <= Len(words)
    OBVIOUS
  <2>2. CASE first > Len(words)
    BY <2>2
  <2>3. QED
    BY <2>1, <2>2
<1> HIDE DEF args
<1>4. ASSUME NEW arg \in Terminal!ToSet(args) PROVE arg \in Terminal!ToSet(words)
  <2>1. DOMAIN args = 1 .. Len(args) /\ DOMAIN words = 1 .. Len(words)
    BY <1>3
  <2>2. PICK i \in 1 .. Len(args) : arg = args[i]
    BY <2>1 DEF Terminal!ToSet
  <2>3. QED
    BY <1>3, <2>1, <2>2 DEF Terminal!ToSet
<1>5. QED
  BY <1>1, <1>2, <1>3, <1>4 DEF args

(* The handlers need a word that tells them what to show. *)
LEMMA NothingAsked ==
    ASSUME NEW args \in Seq(Key), args = <<>>, NEW streaming \in BOOLEAN,
           header \in Terminal!Headers,
           NEW result, result = Terminal!terminalSerialCallback(args, streaming)
    PROVE  result.prints = {} /\ ~result.ok
<1>1. Len(args) = 0
  OBVIOUS
<1>2. nullptr \notin {"motor", "can", "all", "help", "failed"}
  BY TerminalAssumption
<1>3. Terminal!Refused.prints = {} /\ Terminal!Refused.ok = FALSE
  BY DEF Terminal!Refused
<1>4. Terminal!MotorCallback(args, streaming) = Terminal!Refused
  <2>1. Terminal!MotorArguments(args) = Terminal!NoMotors
    BY <1>1, MotorLoop
  <2>2. ~Terminal!Accepted(Terminal!NoMotors) /\ Terminal!NoMotors.ended # "help"
    BY <1>2 DEF Terminal!Accepted, Terminal!NoMotors
  <2>3. QED
    BY <2>1, <2>2 DEF Terminal!MotorCallback
<1>5. Terminal!ImuCallback(args) = Terminal!Refused
  <2>1. Terminal!ImuArguments(args) = NoSubjects
    BY <1>1, ImuLoop
  <2>2. NoSubjects.subjects = {} /\ NoSubjects.ended # "help"
    BY <1>2 DEF NoSubjects
  <2>3. QED
    BY <2>1, <2>2 DEF Terminal!ImuCallback
<1>6. Terminal!ErrorCallback(args, streaming) = Terminal!Refused
  BY DEF Terminal!ErrorCallback
<1>7. Terminal!SchedulerCallback(args, streaming) = Terminal!Refused
  BY DEF Terminal!SchedulerCallback
<1>8. result = Terminal!Refused
  BY <1>4, <1>5, <1>6, <1>7 DEF Terminal!terminalSerialCallback, Terminal!Headers
<1>9. QED
  BY <1>3, <1>8

LEMMA ErrorsPrinted ==
    ASSUME NEW args \in Seq(Key), args # <<>>, NEW streaming \in BOOLEAN,
           NEW result, result = Terminal!ErrorCallback(args, streaming)
    PROVE  /\ result.prints = IF streaming THEN {} ELSE Terminal!Calls(args)
           /\ streaming => ~result.ok
<1>1. /\ Terminal!Refused = [ok |-> FALSE, prints |-> {}, streams |-> {}]
      /\ Terminal!Usage = [ok |-> TRUE, prints |-> {}, streams |-> {}]
      /\ \A things : Terminal!Shown(things).prints = things
  BY DEF Terminal!Refused, Terminal!Usage, Terminal!Shown
<1>2. CASE streaming
  BY <1>1, <1>2 DEF Terminal!ErrorCallback
<1>3. CASE ~streaming
  <2>1. CASE args[1] = "-H"
    <3>1. result = Terminal!Usage
      BY <1>3, <2>1 DEF Terminal!ErrorCallback
    <3>2. Terminal!Calls(args) = {}
      BY <2>1 DEF Terminal!Calls
    <3>3. QED
      BY <1>1, <1>3, <3>1, <3>2
  <2>2. CASE args[1] \in {"printall", "removeall"}
    <3>1. result = Terminal!Shown({args[1]})
      BY <1>3, <2>2 DEF Terminal!ErrorCallback
    <3>2. Terminal!Calls(args) = {args[1]}
      BY <2>2 DEF Terminal!Calls
    <3>3. QED
      BY <1>1, <1>3, <3>1, <3>2
  <2>3. CASE args[1] = "remove" /\ Len(args) > 1 /\ args[2] \in Terminal!Numbers
    <3>1. result = Terminal!Shown({args[2]})
      BY <1>3, <2>3 DEF Terminal!ErrorCallback
    <3>2. Terminal!Calls(args) = {args[2]}
      BY <2>3 DEF Terminal!Calls
    <3>3. QED
      BY <1>1, <1>3, <3>1, <3>2
  <2>4. CASE /\ args[1] \notin {"-H", "printall", "removeall"}
             /\ ~(args[1] = "remove" /\ Len(args) > 1 /\ args[2] \in Terminal!Numbers)
    <3>1. result = Terminal!Refused
      BY <1>3, <2>4 DEF Terminal!ErrorCallback
    <3>2. Terminal!Calls(args) = {}
      BY <2>4 DEF Terminal!Calls
    <3>3. QED
      BY <1>1, <1>3, <3>1, <3>2
  <2>5. QED
    BY <2>1, <2>2, <2>3, <2>4
<1>4. QED
  BY <1>2, <1>3

(* A handler prints what the line names, and streams it if it is to. *)
LEMMA HandlersPrint ==
    ASSUME NEW words \in Seq(Key), words # <<>>, words[1] = header, header \in Terminal!Headers,
           ~(header = "imu" /\ "-h" \in Terminal!ToSet(words)),
           NEW result,
           result = Terminal!terminalSerialCallback(Terminal!Args(words), Terminal!Streaming(words))
    PROVE  /\ result.prints = Terminal!Named(words)
           /\ result.ok /\ Terminal!Streaming(words) =>
                  result.streams = result.prints /\ result.prints # {}
<1>1. PICK args \in Seq(Key), streaming \in BOOLEAN :
          /\ args = Terminal!Args(words) /\ streaming = Terminal!Streaming(words)
          /\ \A arg \in Terminal!ToSet(args) : arg \in Terminal!ToSet(words)
  BY ArgsOf
<1>2. result = Terminal!terminalSerialCallback(args, streaming)
  BY <1>1
<1>3. /\ args = <<>> => Terminal!Named(words) = {}
      /\ args # <<>> /\ header = "motorinfo" => Terminal!Named(words) = Terminal!MotorsNamed(args)
      /\ args # <<>> /\ header = "imu" => Terminal!Named(words) = Terminal!SubjectsNamed(args)
      /\ args # <<>> /\ header = "error" =>
             Terminal!Named(words) = IF streaming THEN {} ELSE Terminal!Calls(args)
      /\ args # <<>> /\ header = "scheduler" =>
             Terminal!Named(words) =
                 IF args[1] = "allsubcmd" THEN {"subsystems", "commands"} ELSE {}
  <2>1. CASE args = <<>>
    BY <1>1, <2>1 DEF Terminal!Named
  <2>2. CASE args # <<>> /\ header = "motorinfo"
    BY <1>1, <2>2 DEF Terminal!Named
  <2>3. CASE args # <<>> /\ header = "imu"
    BY <1>1, <2>3 DEF Terminal!Named
  <2>4. CASE args # <<>> /\ header = "error"
    BY <1>1, <2>4 DEF Terminal!Named
  <2>5. CASE args # <<>> /\ header = "scheduler"
    BY <1>1, <2>5 DEF Terminal!Named
  <2>6. QED
    BY <2>1, <2>2, <2>3, <2>4, <2>5 DEF Terminal!Headers
<1>4. CASE args = <<>>
  BY <1>1, <1>2, <1>3, <1>4, NothingAsked
<1>5. CASE args # <<>> /\ header = "motorinfo"
  <2>1. result = Terminal!MotorCallback(args, streaming)
    BY <1>2, <1>5 DEF Terminal!terminalSerialCallback
  <2>2. Terminal!Named(words) = Terminal!MotorsNamed(args)
    BY <1>3, <1>5
  <2>3. QED
    BY <1>1, <1>5, <2>1, <2>2, MotorsPrinted
<1>6. CASE args # <<>> /\ header = "imu"
  <2>1. result = Terminal!ImuCallback(args)
    BY <1>2, <1>6 DEF Terminal!terminalSerialCallback
  <2>2. Terminal!Named(words) = Terminal!SubjectsNamed(args)
    BY <1>3, <1>6
  <2>3. "-h" \notin Terminal!ToSet(args)
    BY <1>1, <1>6
  <2>4. QED
    BY <1>1, <1>6, <2>1, <2>2, <2>3, SubjectsPrinted
<1>7. CASE args # <<>> /\ header = "error"
  <2>1. result = Terminal!ErrorCallback(args, streaming)
    BY <1>2, <1>7 DEF Terminal!terminalSerialCallback
  <2>2. Terminal!Named(words) = IF streaming THEN {} ELSE Terminal!Calls(args)
    BY <1>3, <1>7
  <2>3. QED
    BY <1>1, <1>7, <2>1, <2>2, ErrorsPrinted
<1>8. CASE args # <<>> /\ header = "scheduler"
  <2>1. result = Terminal!SchedulerCallback(args, streaming)
    BY <1>2, <1>8 DEF Terminal!terminalSerialCallback
  <2>2. Terminal!Named(words) =
            IF args[1] = "allsubcmd" THEN {"subsystems", "commands"} ELSE {}
    BY <1>3, <1>8
  <2>3. CASE args[1] = "allsubcmd"
    <3>1. result = Terminal!Shown({"subsystems", "commands"})
      BY <1>8, <2>1, <2>3 DEF Terminal!SchedulerCallback
    <3>2. QED
      BY <2>2, <2>3, <3>1 DEF Terminal!Shown
  <2>4. CASE args[1] # "allsubcmd"
    <3>1. (result = Terminal!Usage /\ ~streaming) \/ result = Terminal!Refused
      BY <2>1, <2>4 DEF Terminal!SchedulerCallback
    <3>2. QED
      BY <1>1, <2>2, <2>4, <3>1 DEF Terminal!Usage, Terminal!Refused
  <2>5. QED
    BY <2>3, <2>4
<1>9. QED
  BY <1>4, <1>5, <1>6, <1>7, <1>8 DEF Terminal!Headers

LEMMA WordsTyped == ASSUME NEW keys \in Seq(Key) PROVE Terminal!Words(keys) \in Seq(Key)
<1>1. PICK w \in [0 .. Len(keys) -> Seq(Key)] : Terminal!Words(keys) = w[Len(keys)]
  BY WordsOf
<1>2. Len(keys) \in 0 .. Len(keys)
  OBVIOUS
<1>3. QED
  BY <1>1, <1>2

(* The second line is the first after a space. *)
SpaceFirst(t, s) ==
    Len(t) = Len(s) + 1 /\ t[1] = Terminal!Space /\ \A i \in 1 .. Len(s) : t[i + 1] = s[i]

LEMMA LeadingSpace ==
    ASSUME NEW s \in Seq(Key), NEW t \in Seq(Key), SpaceFirst(t, s)
    PROVE  Terminal!Words(t) = Terminal!Words(s)
<1>1. PICK N \in Nat : N = Len(s) /\ Len(t) = N + 1
  BY DEF SpaceFirst
<1>2. PICK v \in [0 .. N -> Seq(Key)] :
          /\ v[0] = <<>>
          /\ \A k \in 1 .. N :
                 v[k] = IF s[k] = Terminal!Space THEN v[k - 1] ELSE Append(v[k - 1], s[k])
          /\ Terminal!Words(s) = v[N]
  BY <1>1, WordsOf
<1>3. PICK w \in [0 .. N + 1 -> Seq(Key)] :
          /\ w[0] = <<>>
          /\ \A k \in 1 .. N + 1 :
                 w[k] = IF t[k] = Terminal!Space THEN w[k - 1] ELSE Append(w[k - 1], t[k])
          /\ Terminal!Words(t) = w[N + 1]
  BY <1>1, WordsOf
<1> DEFINE S == {k \in Nat : k <= N => w[k + 1] = v[k]}
<1>4. 0 \in S
  <2>1. 1 \in 1 .. N + 1 /\ t[1] = Terminal!Space
    BY DEF SpaceFirst
  <2>2. w[1] = IF t[1] = Terminal!Space THEN w[1 - 1] ELSE Append(w[1 - 1], t[1])
    BY <1>3, <2>1
  <2>3. 1 - 1 = 0
    OBVIOUS
  <2>4. w[1] = w[0]
    BY <2>1, <2>2, <2>3
  <2>5. QED
    BY <1>2, <1>3, <2>4
<1>5. \A k \in Nat : k \in S => k + 1 \in S
  <2> SUFFICES ASSUME NEW k \in Nat, k \in S PROVE k + 1 \in S
    OBVIOUS
  <2> SUFFICES ASSUME k + 1 <= N PROVE w[(k + 1) + 1] = v[k + 1]
    OBVIOUS
  <2> DEFINE i == k + 1
  <2>1. w[k + 1] = v[k]
    OBVIOUS
  <2>2. i \in 1 .. N /\ i + 1 \in 1 .. N + 1 /\ i - 1 = k /\ (i + 1) - 1 = i
    OBVIOUS
  <2>3. t[i + 1] = s[i]
    BY <1>1, <2>2 DEF SpaceFirst
  <2>4. w[i + 1] = IF t[i + 1] = Terminal!Space THEN w[(i + 1) - 1]
                 ELSE Append(w[(i + 1) - 1], t[i + 1])
    BY <1>3, <2>2
  <2>5. v[i] = IF s[i] = Terminal!Space THEN v[i - 1] ELSE Append(v[i - 1], s[i])
    BY <1>2, <2>2
  <2>6. QED
    BY <2>1, <2>2, <2>3, <2>4, <2>5
<1>6. Nat \subseteq S
  <2> HIDE DEF S
  <2> QED BY <1>4, <1>5, Induction
<1>7. QED
  BY <1>2, <1>3, <1>6

(* The buffer holds the line that is typed, but for a space that comes first. *)
SameLine(t, s) == t = s \/ SpaceFirst(t, s)

LEMMA SameWords ==
    ASSUME NEW s \in Seq(Key), NEW t \in Seq(Key), SameLine(t, s)
    PROVE  Terminal!Words(t) = Terminal!Words(s)
BY LeadingSpace DEF SameLine

LEMMA SqueezedTyped ==
    ASSUME NEW s \in Seq(Key), NEW key \in Key, NEW space
    PROVE  /\ Terminal!Squeezed(key, s, space) \in Seq(Key)
           /\ Len(Terminal!Squeezed(key, s, space)) >= Len(s)
<1>1. Append(s, key) \in Seq(Key) /\ Len(Append(s, key)) = Len(s) + 1 /\ Len(s) \in Nat
  BY AppendProperties
<1>2. QED
  BY <1>1 DEF Terminal!Squeezed

LEMMA TypedOn ==
    ASSUME NEW s \in Seq(Key), NEW t \in Seq(Key), NEW key \in Key, NEW space \in BOOLEAN,
           SameLine(t, s), t # <<>> => (space <=> t[Len(t)] = Terminal!Space),
           NEW u, u = Terminal!Squeezed(key, s, space),
           NEW v, v = Terminal!Squeezed(key, t, t # <<>> /\ Terminal!Last(t) = Terminal!Space)
    PROVE  SameLine(v, u) /\ (v # <<>> => ((key = Terminal!Space) <=> v[Len(v)] = Terminal!Space))
<1>1. Terminal!Last(t) = t[Len(t)]
  BY DEF Terminal!Last
<1>2. CASE key = Terminal!Space /\ t # <<>> /\ t[Len(t)] = Terminal!Space
  BY <1>1, <1>2 DEF Terminal!Squeezed
<1>3. CASE ~(key = Terminal!Space /\ t # <<>> /\ t[Len(t)] = Terminal!Space)
  <2>1. v = Append(t, key)
    BY <1>1, <1>3 DEF Terminal!Squeezed
  <2>2. Len(v) = Len(t) + 1 /\ v[Len(v)] = key /\ Len(t) \in Nat
        /\ \A i \in 1 .. Len(t) : v[i] = t[i]
    BY <2>1, AppendProperties
  <2>3. CASE key = Terminal!Space /\ space
    <3>1. t = <<>> /\ u = s
      BY <1>3, <2>3 DEF Terminal!Squeezed
    <3>2. s = <<>>
      BY <3>1 DEF SameLine, SpaceFirst
    <3>3. SpaceFirst(v, u)
      <4>1. Len(t) = 0 /\ Len(s) = 0
        BY <3>1, <3>2
      <4>2. Len(v) = 1 /\ Len(u) = 0
        BY <2>2, <3>1, <4>1
      <4>3. v[1] = Terminal!Space
        BY <2>2, <2>3, <4>2
      <4>4. QED
        BY <4>2, <4>3 DEF SpaceFirst
    <3>4. QED
      BY <2>2, <2>3, <3>3 DEF SameLine
  <2>4. CASE ~(key = Terminal!Space /\ space)
    <3>1. u = Append(s, key)
      BY <2>4 DEF Terminal!Squeezed
    <3>2. Len(u) = Len(s) + 1 /\ u[Len(u)] = key /\ Len(s) \in Nat
          /\ \A i \in 1 .. Len(s) : u[i] = s[i]
      BY <3>1, AppendProperties
    <3>3. CASE t = s
      BY <2>1, <2>2, <3>1, <3>3 DEF SameLine
    <3>4. CASE SpaceFirst(t, s)
      <4>1. SpaceFirst(v, u)
        <5>1. Len(t) = Len(s) + 1 /\ t[1] = Terminal!Space /\ \A i \in 1 .. Len(s) : t[i + 1] = s[i]
          BY <3>4 DEF SpaceFirst
        <5>2. Len(v) = Len(u) + 1 /\ v[1] = Terminal!Space
          BY <2>2, <3>2, <5>1
        <5>3. ASSUME NEW i \in 1 .. Len(u) PROVE v[i + 1] = u[i]
          <6>1. CASE i \in 1 .. Len(s)
            BY <2>2, <3>2, <5>1, <6>1
          <6>2. CASE i = Len(u)
            BY <2>2, <3>2, <5>1, <6>2
          <6>3. QED
            BY <3>2, <6>1, <6>2
        <5>4. QED
          BY <5>2, <5>3 DEF SpaceFirst
      <4>2. QED
        BY <2>2, <4>1 DEF SameLine
    <3>5. QED
      BY <3>3, <3>4 DEF SameLine
  <2>5. QED
    BY <2>3, <2>4
<1>4. QED
  BY <1>2, <1>3

(* What a handler that was asked has shown. *)
Obeyed ==
    asked.fits /\ ~(header = "imu" /\ "-h" \in Terminal!ToSet(asked.words)) =>
        /\ printed = Terminal!Named(asked.words)
        /\ currStreamer # nullptr => /\ typed = <<>> /\ Terminal!Streaming(asked.words)
                                     /\ printed # {} /\ members = printed

TerminalTyped == header \in Terminal!Headers /\ prevCharSpace \in BOOLEAN
                 /\ typed \in Seq(Key) /\ rxBuff \in Seq(Key)

Buffered ==
    /\ rxBuff # <<>> => notEmpty
    /\ Len(typed) < MAX_LINE_LENGTH - 1 =>
           /\ SameLine(typed, rxBuff)
           /\ typed # <<>> => (prevCharSpace <=> typed[Len(typed)] = Terminal!Space)

TerminalInv == TerminalTyped /\ Buffered /\ Obeyed

LEMMA KeysAreTyped ==
    ASSUME header \in Terminal!Headers, NEW key \in Terminal!Keys PROVE key \in Key
BY DEF Terminal!Keys, Terminal!Arguments, Terminal!Headers, Key, Word1

LEMMA TerminalInit == Terminal!Init => TerminalInv
<1> SUFFICES ASSUME Terminal!Init PROVE TerminalInv
  OBVIOUS
<1>1. <<>> \in Seq(Key) /\ SameLine(<<>>, <<>>)
  BY DEF SameLine
<1>2. TerminalTyped /\ Buffered
  BY <1>1 DEF Terminal!Init, TerminalTyped, Buffered
<1>3. asked.fits = FALSE
  BY DEF Terminal!Init, Terminal!NoLine
<1>4. QED
  BY <1>2, <1>3 DEF TerminalInv, Obeyed

(* Another key. *)
LEMMA TerminalTypes ==
    ASSUME TerminalInv, NEW key \in Terminal!Keys, Terminal!Type(key) PROVE TerminalInv'
<1>1. key \in Key /\ TerminalTyped
  BY KeysAreTyped DEF TerminalInv, TerminalTyped
<1>2. MAX_LINE_LENGTH \in Nat
  BY TerminalAssumption
<1> DEFINE after == typed # <<>> /\ Terminal!Last(typed) = Terminal!Space
<1>3. typed' = Terminal!Squeezed(key, typed, after) /\ header' = header /\ asked' = Terminal!NoLine
  BY DEF Terminal!Type
<1>4. \/ Len(rxBuff) >= MAX_LINE_LENGTH - 1 /\ rxBuff' = <<>> /\ UNCHANGED prevCharSpace
      \/ /\ ~(Len(rxBuff) >= MAX_LINE_LENGTH - 1)
         /\ rxBuff' = Terminal!Squeezed(key, rxBuff, prevCharSpace)
         /\ notEmpty' = (notEmpty \/ rxBuff' # <<>>)
         /\ prevCharSpace' = (key = Terminal!Space)
  BY DEF Terminal!Type
<1> HIDE DEF after
<1>5. typed' \in Seq(Key) /\ Len(typed') >= Len(typed) /\ Len(typed) \in Nat /\ Len(typed') \in Nat
  <2>1. typed' \in Seq(Key) /\ Len(typed') >= Len(typed)
    BY <1>1, <1>3, SqueezedTyped DEF TerminalTyped
  <2>2. QED
    BY <1>1, <2>1 DEF TerminalTyped
<1>6. <<>> \in Seq(Key) /\ Terminal!Squeezed(key, rxBuff, prevCharSpace) \in Seq(Key)
  BY <1>1, SqueezedTyped DEF TerminalTyped
<1>7. TerminalTyped'
  BY <1>1, <1>3, <1>4, <1>5, <1>6 DEF TerminalTyped
<1>8. Buffered'
  <2>1. ASSUME Len(typed') < MAX_LINE_LENGTH - 1
        PROVE  /\ ~(Len(rxBuff) >= MAX_LINE_LENGTH - 1)
               /\ SameLine(typed', rxBuff')
               /\ typed' # <<>> => (prevCharSpace' <=> typed'[Len(typed')] = Terminal!Space)
    <3>1. SameLine(typed, rxBuff)
          /\ (typed # <<>> => (prevCharSpace <=> typed[Len(typed)] = Terminal!Space))
      BY <1>2, <1>5, <2>1 DEF TerminalInv, Buffered
    <3>2. Len(rxBuff) <= Len(typed)
      BY <1>1, <3>1 DEF SameLine, SpaceFirst, TerminalTyped
    <3>3. ~(Len(rxBuff) >= MAX_LINE_LENGTH - 1)
      <4>1. Len(rxBuff) \in Nat
        BY <1>1 DEF TerminalTyped
      <4>2. QED
        BY <1>2, <1>5, <2>1, <3>2, <4>1
    <3>4. /\ rxBuff' = Terminal!Squeezed(key, rxBuff, prevCharSpace)
          /\ prevCharSpace' = (key = Terminal!Space)
      BY <1>4, <3>3
    <3>5. PICK s, t, u, v \in Seq(Key), space \in BOOLEAN :
              /\ s = rxBuff /\ t = typed /\ space = prevCharSpace /\ u = rxBuff' /\ v = typed'
      BY <1>1, <1>7 DEF TerminalTyped
    <3>6. SameLine(t, s) /\ (t # <<>> => (space <=> t[Len(t)] = Terminal!Space))
      BY <3>1, <3>5
    <3>7. /\ u = Terminal!Squeezed(key, s, space)
          /\ v = Terminal!Squeezed(key, t, t # <<>> /\ Terminal!Last(t) = Terminal!Space)
      BY <1>3, <3>4, <3>5 DEF after
    <3>8. SameLine(v, u) /\ (v # <<>> => ((key = Terminal!Space) <=> v[Len(v)] = Terminal!Space))
      BY <1>1, <3>6, <3>7, TypedOn
    <3>9. QED
      BY <3>3, <3>4, <3>5, <3>8
  <2>2. rxBuff' # <<>> => notEmpty'
    BY <1>4
  <2>3. QED
    BY <2>1, <2>2 DEF Buffered
<1>9. asked'.fits = FALSE
  BY <1>3 DEF Terminal!NoLine
<1>10. QED
  BY <1>7, <1>8, <1>9 DEF TerminalInv, Obeyed

(* A line is ended: it is given to the handler. *)
LEMMA TerminalEnters == TerminalInv /\ Terminal!Enter => TerminalInv'
<1> SUFFICES ASSUME TerminalInv, Terminal!Enter PROVE TerminalInv'
  OBVIOUS
<1>1. TerminalTyped /\ Buffered
  BY DEF TerminalInv
<1>2. typed' = <<>> /\ notEmpty' = FALSE /\ header' = header /\ prevCharSpace' = prevCharSpace
  BY DEF Terminal!Enter
<1>3. rxBuff' = <<>>
  BY <1>1 DEF Terminal!Enter, Terminal!NextLine, Buffered
<1>4. <<>> \in Seq(Key) /\ SameLine(<<>>, <<>>)
  BY DEF SameLine
<1>5. TerminalTyped' /\ Buffered'
  BY <1>1, <1>2, <1>3, <1>4 DEF TerminalTyped, Buffered
<1>6. ASSUME asked'.fits, ~(header = "imu" /\ "-h" \in Terminal!ToSet(asked'.words))
      PROVE  /\ printed' = Terminal!Named(asked'.words)
             /\ currStreamer' # nullptr => /\ Terminal!Streaming(asked'.words)
                                           /\ printed' # {} /\ members' = printed'
  <2>1. notEmpty
    BY <1>6 DEF Terminal!Enter, Terminal!NoLine
  <2>2. asked' = [words |-> Terminal!Words(typed), fits |-> Len(typed) < MAX_LINE_LENGTH - 1]
    BY <2>1 DEF Terminal!Enter
  <2>3. asked'.words = Terminal!Words(typed) /\ Len(typed) < MAX_LINE_LENGTH - 1
    BY <1>6, <2>2
  <2>4. SameLine(typed, rxBuff)
    BY <1>1, <2>3 DEF Buffered
  <2>5. PICK words \in Seq(Key) : words = Terminal!Words(rxBuff) /\ words = asked'.words
    <3>1. Terminal!Words(rxBuff) \in Seq(Key) /\ Terminal!Words(rxBuff) = Terminal!Words(typed)
      BY <1>1, <2>4, WordsTyped, SameWords DEF TerminalTyped
    <3>2. QED
      BY <2>3, <3>1
  <2>6. CASE words = <<>>
    <3>1. printed' = {} /\ currStreamer' = nullptr
      BY <2>1, <2>5, <2>6 DEF Terminal!Enter, Terminal!Nothing
    <3>2. Terminal!Named(words) = {}
      BY <2>6 DEF Terminal!Named
    <3>3. QED
      BY <2>5, <3>1, <3>2
  <2>7. CASE words # <<>>
    <3>1. Terminal!Execute(words)
      BY <2>1, <2>5, <2>7 DEF Terminal!Enter
    <3>2. CASE words[1] # header
      <4>1. printed' = {} /\ currStreamer' = nullptr
        BY <3>1, <3>2 DEF Terminal!Execute, Terminal!Nothing
      <4>2. Terminal!Named(words) = {}
        BY <3>2 DEF Terminal!Named
      <4>3. QED
        BY <2>5, <4>1, <4>2
    <3>3. CASE words[1] = header
      <4>1. PICK result :
                /\ result = Terminal!terminalSerialCallback(Terminal!Args(words),
                                                            Terminal!Streaming(words))
                /\ printed' = result.prints /\ members' = result.streams
                /\ currStreamer' = Terminal!Streamer(result, words)
        BY <3>1, <3>3 DEF Terminal!Execute
      <4>2. ~(header = "imu" /\ "-h" \in Terminal!ToSet(words)) /\ header \in Terminal!Headers
        BY <1>1, <1>6, <2>5 DEF TerminalTyped
      <4>3. /\ result.prints = Terminal!Named(words)
            /\ result.ok /\ Terminal!Streaming(words) =>
                   result.streams = result.prints /\ result.prints # {}
        BY <2>7, <3>3, <4>1, <4>2, HandlersPrint
      <4>4. currStreamer' # nullptr => result.ok /\ Terminal!Streaming(words)
        BY <4>1 DEF Terminal!Streamer
      <4>5. QED
        BY <2>5, <4>1, <4>3, <4>4
    <3>4. QED
      BY <3>2, <3>3
  <2>8. QED
    BY <2>6, <2>7
<1>7. Obeyed'
  <2>1. Terminal!Named(asked.words)' = Terminal!Named(asked'.words)
    BY <1>2 DEF Terminal!Named
  <2>2. QED
    BY <1>2, <1>6, <2>1 DEF Obeyed
<1>8. QED
  BY <1>5, <1>7 DEF TerminalInv

LEMMA TerminalNext == TerminalInv /\ [Terminal!Next]_terminalVars => TerminalInv'
<1> SUFFICES ASSUME TerminalInv, [Terminal!Next]_terminalVars PROVE TerminalInv'
  OBVIOUS
<1>1. ASSUME UNCHANGED <<header, rxBuff, notEmpty, prevCharSpace, currStreamer, members, typed,
                         asked>>,
             printed' = printed \/ (currStreamer # nullptr /\ printed' = members)
      PROVE  TerminalInv'
  <2>1. TerminalTyped' /\ Buffered'
    BY <1>1 DEF TerminalInv, TerminalTyped, Buffered
  <2>2. Obeyed'
    <3>1. Terminal!Named(asked.words)' = Terminal!Named(asked.words)
      BY <1>1 DEF Terminal!Named
    <3>2. QED
      BY <1>1, <3>1 DEF TerminalInv, Obeyed
  <2>3. QED
    BY <2>1, <2>2 DEF TerminalInv
<1>2. CASE UNCHANGED terminalVars
  BY <1>1, <1>2 DEF terminalVars
<1>3. CASE Terminal!Stream
  BY <1>1, <1>3 DEF Terminal!Stream
<1>4. CASE Terminal!Enter
  BY <1>4, TerminalEnters
<1>5. CASE \E key \in Terminal!Keys : Terminal!Type(key)
  BY <1>5, TerminalTypes
<1>6. QED
  BY <1>2, <1>3, <1>4, <1>5 DEF Terminal!Next, Terminal!update

LEMMA TerminalInvariant == ControlSpec => []TerminalInv
<1>1. ControlInit => TerminalInv
  BY TerminalInit DEF ControlInit
<1>2. TerminalInv /\ [ControlNext]_controlVars => TerminalInv'
  <2>1. [ControlNext]_controlVars => [Terminal!Next]_terminalVars
    BY DEF ControlNext, UseRegistrar, UseMapper, UseMenu, UseTerminal, UseServer, controlVars
  <2>2. QED
    BY <2>1, TerminalNext
<1>3. QED
  BY <1>1, <1>2, PTL DEF ControlSpec

(* For lines of any length and any messages: whatever was typed before, a line
   that fits does what it says and nothing else, once or until the next key
   (terminal_serial.cpp:39-112, dji_motor_terminal_serial_handler.cpp:42-180,
   imu_terminal_serial_handler.cpp:34-91); and what is written to a client it
   gets whole and in order, as the server gets what it reads, whoever connects,
   leaves or sends in pieces (tcp_server.cpp:123-293). *)
THEOREM LinesKept == ControlSpec => []LinesCarried
<1>1. TerminalInv => Terminal!TerminalObeys
  BY DEF TerminalInv, Obeyed, Terminal!TerminalObeys
<1>2. TerminalInv /\ ServerInv => LinesCarried
  BY <1>1, ServerPromises DEF LinesCarried
<1>3. QED
  BY <1>2, TerminalInvariant, ServerInvariant, PTL
=============================================================================
