--------------------------- MODULE BackendProofs ---------------------------
(***************************************************************************)
(* Theorems about Backend, for any number of callers, Adds, faults and     *)
(* crashes and any kind of backend: it keeps the promise of Names, and no  *)
(* value that was replaced comes back.  And about the addresses and keys   *)
(* it takes, for any alphabet, byte and width: each has one spelling and   *)
(* reads back as what was written.                                         *)
(***************************************************************************)
EXTENDS Backend, WellFoundedInduction, TLAPS

Steps == {"lookup", "mkdir", "unlink", "flush", "put", "store", "return"}

\* The steps of an Add belong to one kind of backend.
KindsApart ==
  \A c \in Client :
    /\ add[c].pc \in {"lookup", "mkdir", "unlink", "flush", "put"} => kind = "ipfs"
    /\ add[c].pc = "store" => kind # "ipfs"

TInv == TypeOK /\ KindsApart

-----------------------------------------------------------------------------
(* The Adds under way.                                                     *)

\* A caller in no Add is told by its step alone.
LEMMA IdleIsNoAdd ==
  ASSUME NEW m \in Add \cup {Idle}
  PROVE  /\ m = Idle <=> m.pc = "idle"
         /\ m # Idle => /\ m \in Add /\ m.pc \in Steps /\ m.value \in Value
                        /\ m.exists \in BOOLEAN
                        /\ m = [pc |-> m.pc, value |-> m.value,
                                exists |-> m.exists]
  BY DEF Add, Idle, Steps

\* c's Add goes on at p and the others stay where they are.
LEMMA GoToMoves ==
  ASSUME TypeOK, NEW c \in Client, add[c] # Idle, NEW p \in Steps, GoTo(c, p)
  PROVE  /\ add' \in [Client -> Add \cup {Idle}]
         /\ add' = [add EXCEPT ![c] = [pc |-> p, value |-> add[c].value,
                                       exists |-> add[c].exists]]
<1>1. /\ add[c].value \in Value /\ add[c].exists \in BOOLEAN
      /\ add[c] = [pc |-> add[c].pc, value |-> add[c].value,
                   exists |-> add[c].exists]
  BY IdleIsNoAdd DEF TypeOK
<1>2. [add[c] EXCEPT !.pc = p]
        = [pc |-> p, value |-> add[c].value, exists |-> add[c].exists]
  BY <1>1
<1>3. [pc |-> p, value |-> add[c].value, exists |-> add[c].exists] \in Add
  BY <1>1 DEF Add, Steps
<1>4. QED
  BY <1>2, <1>3 DEF GoTo, TypeOK

\* Lookup's step.
LEMMA LookupMoves ==
  ASSUME TypeOK, NEW c \in Client, add[c] # Idle, NEW found \in BOOLEAN,
         add' = [add EXCEPT ![c] = [pc |-> "mkdir", value |-> add[c].value,
                                    exists |-> found]]
  PROVE  add' \in [Client -> Add \cup {Idle}]
<1>1. add[c].value \in Value
  BY IdleIsNoAdd DEF TypeOK
<1>2. [pc |-> "mkdir", value |-> add[c].value, exists |-> found] \in Add
  BY <1>1 DEF Add
<1>3. QED
  BY <1>2 DEF TypeOK

\* A write.
LEMMA WriteMoves ==
  ASSUME TypeOK, NEW c \in Client, add[c] # Idle, Write(c)
  PROVE  /\ add' \in [Client -> Add \cup {Idle}]
         /\ add' = [add EXCEPT ![c] = [pc |-> "return", value |-> add[c].value,
                                       exists |-> add[c].exists]]
         /\ entry' = add[c].value /\ entry' \in Value
         /\ held' = held \cup {entry'}
         /\ passed' = {d \in Client : add[d] # Idle}
<1>1. add[c].value \in Value
  BY IdleIsNoAdd DEF TypeOK
<1>2. "return" \in Steps /\ GoTo(c, "return")
  BY DEF Steps, Write
<1>3. /\ add' \in [Client -> Add \cup {Idle}]
      /\ add' = [add EXCEPT ![c] = [pc |-> "return", value |-> add[c].value,
                                    exists |-> add[c].exists]]
  BY <1>2, GoToMoves
<1>4. QED
  BY <1>1, <1>3 DEF Write

-----------------------------------------------------------------------------
(* Types.                                                                  *)

LEMMA InitTInv == Init => TInv
<1> SUFFICES ASSUME Init
             PROVE  TInv
  OBVIOUS
<1>1. add \in [Client -> Add \cup {Idle}]
  BY DEF Init
<1>2. /\ faults \in 0..MaxFaults /\ crashes \in 0..MaxCrashes
      /\ begun \in 0..MaxAdds /\ swallowed \in 0..faults
  BY BoundsAssumption DEF Init
<1>3. before \in [Value -> SUBSET Value]
  BY DEF Init
<1>4. KindsApart
  BY DEF Init, KindsApart, Idle
<1>5. QED
  BY <1>1, <1>2, <1>3, <1>4 DEF Init, TInv, TypeOK

\* Each step keeps every variable in its type.
LEMMA StepTInv ==
  ASSUME TInv, [Next]_vars
  PROVE  TInv'
<1>0. TypeOK /\ KindsApart
  BY DEF TInv
<1> USE <1>0 DEF TInv
<1>1. ASSUME NEW c \in Client, Begin(c)
      PROVE  TInv'
  <2>1. begun + 1 \in Value /\ begun' \in 0..MaxAdds
    BY <1>1, BoundsAssumption DEF Begin, TypeOK, Value
  <2>2. add' \in [Client -> Add \cup {Idle}]
    BY <1>1, <2>1 DEF Begin, TypeOK, Add
  <2>3. before' \in [Value -> SUBSET Value]
    BY <1>1, <2>1 DEF Begin, TypeOK
  <2>4. KindsApart'
    BY <1>1 DEF Begin, KindsApart, TypeOK
  <2>5. QED
    BY <1>1, <2>1, <2>2, <2>3, <2>4 DEF Begin, TypeOK, standing
<1>2. ASSUME NEW c \in Client, Store(c)
      PROVE  TInv'
  <2>1. add[c] # Idle
    BY <1>2 DEF Store, Idle
  <2>2. /\ add' \in [Client -> Add \cup {Idle}]
        /\ add' = [add EXCEPT ![c] = [pc |-> "return", value |-> add[c].value,
                                      exists |-> add[c].exists]]
        /\ entry' \in Value /\ held' = held \cup {entry'}
        /\ passed' \subseteq Client
    BY <1>2, <2>1, WriteMoves DEF Store
  <2>3. KindsApart'
    BY <1>2, <2>2 DEF Store, KindsApart, TypeOK
  <2>4. QED
    BY <1>2, <2>2, <2>3 DEF Store, TypeOK, standing
<1>3. ASSUME NEW c \in Client, Lookup(c) \/ LookupFails(c)
      PROVE  TInv'
  <2>1. add[c] # Idle
    BY <1>3 DEF Lookup, LookupFails, Idle
  <2>2. PICK found \in BOOLEAN :
          add' = [add EXCEPT ![c] = [pc |-> "mkdir", value |-> add[c].value,
                                     exists |-> found]]
    BY <1>3 DEF Lookup, LookupFails
  <2>3. add' \in [Client -> Add \cup {Idle}]
    BY <2>1, <2>2, LookupMoves
  <2>4. kind' = kind /\ kind = "ipfs"
    BY <1>3 DEF Lookup, LookupFails, KindsApart
  <2>5. KindsApart'
    BY <2>2, <2>4 DEF KindsApart, TypeOK
  <2>6. faults' \in 0..MaxFaults /\ swallowed' \in 0..faults'
    BY <1>3, BoundsAssumption DEF Lookup, LookupFails, Fault, TypeOK
  <2>7. QED
    BY <1>3, <2>3, <2>5, <2>6 DEF Lookup, LookupFails, TypeOK, standing
<1>4. ASSUME NEW c \in Client, Mkdir(c) \/ Flush(c) \/ Unlink(c) \/ FlushFails(c)
      PROVE  TInv'
  <2>1. add[c] # Idle /\ kind' = kind /\ kind = "ipfs"
    BY <1>4 DEF Mkdir, Flush, Unlink, FlushFails, Idle, KindsApart
  <2>2. PICK p \in Steps \ {"store"} : GoTo(c, p)
    BY <1>4 DEF Mkdir, Flush, Unlink, FlushFails, Steps
  <2>3. /\ add' \in [Client -> Add \cup {Idle}]
        /\ add' = [add EXCEPT ![c] = [pc |-> p, value |-> add[c].value,
                                      exists |-> add[c].exists]]
    BY <2>1, <2>2, GoToMoves
  <2>4. KindsApart'
    BY <2>1, <2>3 DEF KindsApart, TypeOK
  <2>5. faults' \in 0..MaxFaults /\ swallowed' \in 0..faults'
    BY <1>4, BoundsAssumption DEF Mkdir, Flush, Unlink, FlushFails, Fault, TypeOK
  <2>6. QED
    BY <1>4, <2>1, <2>3, <2>4, <2>5
       DEF Mkdir, Flush, Unlink, FlushFails, TypeOK, standing
<1>5. ASSUME NEW c \in Client, Put(c)
      PROVE  TInv'
  <2>1. add[c] # Idle /\ kind' = kind /\ kind = "ipfs"
    BY <1>5 DEF Put, Idle, KindsApart
  <2>2. /\ add' \in [Client -> Add \cup {Idle}]
        /\ add' = [add EXCEPT ![c] = [pc |-> "return", value |-> add[c].value,
                                      exists |-> add[c].exists]]
        /\ entry' \in Value \cup {NoValue} /\ held' \subseteq Value
        /\ passed' \subseteq Client
    BY <1>5, <2>1, WriteMoves, GoToMoves DEF Put, TypeOK, Steps
  <2>3. KindsApart'
    BY <2>1, <2>2 DEF KindsApart, TypeOK
  <2>4. QED
    BY <1>5, <2>1, <2>2, <2>3 DEF Put, TypeOK, standing
<1>6. ASSUME NEW c \in Client, PutFails(c)
      PROVE  TInv'
  <2>1. add[c] # Idle /\ kind' = kind
    BY <1>6 DEF PutFails, Idle
  <2>2. /\ add' \in [Client -> Add \cup {Idle}]
        /\ add' = [add EXCEPT ![c] = [pc |-> "return", value |-> add[c].value,
                                      exists |-> add[c].exists]]
    BY <1>6, <2>1, GoToMoves DEF PutFails, Steps
  <2>3. KindsApart'
    BY <2>1, <2>2 DEF KindsApart, TypeOK
  <2>4. faults' \in 0..MaxFaults /\ swallowed' \in 0..faults'
    BY <1>6, BoundsAssumption DEF PutFails, Fault, TypeOK
  <2>5. QED
    BY <1>6, <2>2, <2>3, <2>4 DEF PutFails, TypeOK, standing
<1>7. ASSUME NEW c \in Client, UnlinkFails(c) \/ AddFails(c) \/ Return(c)
      PROVE  TInv'
  <2>1. /\ add' = [add EXCEPT ![c] = Idle]
        /\ passed' \subseteq Client /\ kind' = kind
    BY <1>7 DEF UnlinkFails, AddFails, Return, Ends, TypeOK
  <2>2. KindsApart'
    BY <2>1 DEF KindsApart, TypeOK, Idle
  <2>3. acked' \subseteq Value
    BY <1>7, IdleIsNoAdd DEF UnlinkFails, AddFails, Return, Idle, TypeOK
  <2>4. faults' \in 0..MaxFaults /\ swallowed' \in 0..faults'
    BY <1>7, BoundsAssumption DEF UnlinkFails, AddFails, Return, Fault, TypeOK
  <2>5. deaf' \subseteq Client /\ stands' \subseteq acked' /\ lasting' \subseteq stands'
    BY <1>7 DEF UnlinkFails, AddFails, Return, Ends, TypeOK, standing
  <2>6. QED
    BY <1>7, <2>1, <2>2, <2>3, <2>4, <2>5 DEF UnlinkFails, AddFails, Return, TypeOK
<1>8. ASSUME Save
      PROVE  TInv'
  BY <1>8 DEF Save, TypeOK, KindsApart
<1>9. ASSUME Crash
      PROVE  TInv'
  BY <1>9, BoundsAssumption DEF Crash, TypeOK, KindsApart, Idle
<1>10. ASSUME UNCHANGED vars
       PROVE  TInv'
  BY <1>10 DEF vars, TypeOK, KindsApart
<1>11. QED
  BY <1>1, <1>2, <1>3, <1>4, <1>5, <1>6, <1>7, <1>8, <1>9, <1>10 DEF Next, Step

\* Type correctness: every Add keeps to the steps of its kind of backend, what
\* Bolt has returned is on disk and the count of ignored errors is in bounds.
THEOREM BackendTypes == Spec => []TypeOK
<1>1. Spec => []TInv
  BY InitTInv, StepTInv, PTL DEF Spec
<1>2. TInv => TypeOK
  BY DEF TInv
<1>3. QED
  BY <1>1, <1>2, PTL

-----------------------------------------------------------------------------
(* The promise of Names.                                                   *)

\* Values in the name or in a tree have been the name's; an Add that returns,
\* or that would trip over an entry, has seen one put since it began.
Seen ==
  /\ {entry, flushed, saved} \subseteq held \cup {NoValue}
  /\ \A c \in passed : add[c] # Idle
  /\ \A c \in Client :
       /\ add[c].pc = "return" => c \in passed
       /\ entry # NoValue
            /\ \/ add[c].pc \in {"flush", "put"}
               \/ add[c].pc = "mkdir" /\ ~add[c].exists
          => c \in passed

NInv == TInv /\ Seen

LEMMA InitNInv == Init => NInv
  BY InitTInv DEF Init, NInv, Seen, Idle

\* Each step keeps Seen.
LEMMA StepNInv ==
  ASSUME NInv, [Next]_vars
  PROVE  NInv'
<1>0. TInv /\ TypeOK /\ KindsApart /\ Seen /\ TInv'
  BY StepTInv DEF NInv, TInv
<1> SUFFICES Seen'
  BY <1>0 DEF NInv
<1> USE <1>0
<1>1. ASSUME NEW c \in Client, Begin(c)
      PROVE  Seen'
  BY <1>1 DEF Begin, Seen, TypeOK, Idle
<1>2. ASSUME NEW c \in Client, add[c] # Idle, Write(c),
             {flushed', saved'} \subseteq {flushed, saved, entry'}
      PROVE  Seen'
  <2>1. /\ add' = [add EXCEPT ![c] = [pc |-> "return", value |-> add[c].value,
                                      exists |-> add[c].exists]]
        /\ held' = held \cup {entry'}
        /\ passed' = {d \in Client : add[d] # Idle}
    BY <1>2, WriteMoves
  <2>2. \A d \in Client : add'[d].pc # "idle" => d \in passed'
    BY <2>1, <1>2, IdleIsNoAdd DEF TypeOK
  <2>3. \A d \in passed' : add'[d] # Idle
    BY <2>1 DEF TypeOK, Idle
  <2>4. QED
    BY <1>2, <2>1, <2>2, <2>3 DEF Seen
<1>3. ASSUME NEW c \in Client, Store(c)
      PROVE  Seen'
  BY <1>2, <1>3 DEF Store, Idle
<1>4. ASSUME NEW c \in Client, Lookup(c) \/ LookupFails(c)
      PROVE  Seen'
  <2>1. /\ add[c] # Idle
        /\ UNCHANGED <<entry, flushed, saved, held>>
    BY <1>4 DEF Lookup, LookupFails, Idle
  <2>2. PICK found \in BOOLEAN :
          /\ add' = [add EXCEPT ![c] = [pc |-> "mkdir", value |-> add[c].value,
                                        exists |-> found]]
          /\ \/ passed' = passed /\ (~found => entry = NoValue)
             \/ passed' = passed \cup {c}
    BY <1>4 DEF Lookup, LookupFails
  <2>3. QED
    BY <2>1, <2>2 DEF Seen, TypeOK, Idle
<1>5. ASSUME NEW c \in Client, Mkdir(c) \/ Flush(c) \/ Unlink(c) \/ FlushFails(c)
      PROVE  Seen'
  <2>1. /\ add[c] # Idle /\ UNCHANGED <<saved, held, passed>>
        /\ {entry', flushed'} \subseteq {entry, flushed, NoValue}
        /\ entry' # NoValue => entry' = entry
    BY <1>5 DEF Mkdir, Flush, Unlink, FlushFails, Idle
  <2>2. PICK p \in Steps \ {"store"} :
          /\ GoTo(c, p)
          /\ p \in {"unlink", "flush", "put"}
          /\ entry' # NoValue /\ p \in {"flush", "put"} =>
                \/ add[c].pc \in {"flush", "put"}
                \/ add[c].pc = "mkdir" /\ ~add[c].exists
    BY <1>5 DEF Mkdir, Flush, Unlink, FlushFails, Steps
  <2>3. add' = [add EXCEPT ![c] = [pc |-> p, value |-> add[c].value,
                                   exists |-> add[c].exists]]
    BY <2>1, <2>2, GoToMoves
  <2>4. QED
    BY <2>1, <2>2, <2>3 DEF Seen, TypeOK, Idle
<1>6. ASSUME NEW c \in Client, Put(c)
      PROVE  Seen'
  <2>1. add[c] # Idle
    BY <1>6 DEF Put, Idle
  <2>2. CASE entry = NoValue
    BY <1>2, <1>6, <2>1, <2>2 DEF Put
  <2>3. CASE entry # NoValue
    <3>1. add' = [add EXCEPT ![c] = [pc |-> "return", value |-> add[c].value,
                                     exists |-> add[c].exists]]
      BY <1>6, <2>1, <2>3, GoToMoves DEF Put, Steps
    <3>2. QED
      BY <1>6, <2>3, <3>1 DEF Put, Seen, TypeOK, Idle
  <2>4. QED
    BY <2>2, <2>3
<1>7. ASSUME NEW c \in Client, PutFails(c)
      PROVE  Seen'
  <2>1. add[c] # Idle
    BY <1>7 DEF PutFails, Idle
  <2>2. add' = [add EXCEPT ![c] = [pc |-> "return", value |-> add[c].value,
                                   exists |-> add[c].exists]]
    BY <1>7, <2>1, GoToMoves DEF PutFails, Steps
  <2>3. QED
    BY <1>7, <2>2 DEF PutFails, Seen, TypeOK, Idle
<1>8. ASSUME NEW c \in Client, UnlinkFails(c) \/ AddFails(c) \/ Return(c)
      PROVE  Seen'
  <2>1. /\ add' = [add EXCEPT ![c] = Idle] /\ passed' = passed \ {c}
        /\ UNCHANGED <<entry, flushed, saved, held>>
    BY <1>8 DEF UnlinkFails, AddFails, Return, Ends
  <2>2. QED
    BY <2>1 DEF Seen, TypeOK, Idle
<1>9. ASSUME Save \/ Crash \/ UNCHANGED vars
      PROVE  Seen'
  BY <1>9 DEF Save, Crash, vars, Seen, Idle
<1>10. QED
  BY <1>1, <1>3, <1>4, <1>5, <1>6, <1>7, <1>8, <1>9 DEF Next, Step

\* Each step is one Names allows, or none that it sees.
LEMMA StepKeepsPromise ==
  ASSUME NInv, [Next]_vars
  PROVE  [Promise!Next]_(Promise!nvars)
<1>0. TypeOK /\ KindsApart /\ Seen
  BY DEF NInv, TInv
<1> USE <1>0 DEF Promise!nvars
<1>1. ASSUME NEW c \in Client, Begin(c)
      PROVE  Promise!Begin(c)
  <2>1. begun + 1 \in Value
    BY <1>1, BoundsAssumption DEF Begin, TypeOK, Value
  <2>2. Open[c] = NoValue
    BY <1>1 DEF Begin, Open
  <2>3. Open' = [Open EXCEPT ![c] = begun + 1]
    BY <1>1 DEF Begin, Open, TypeOK, Idle
  <2>4. Settled' = Settled
    BY <1>1 DEF Begin, Settled, TypeOK, Idle
  <2>5. QED
    BY <1>1, <2>1, <2>2, <2>3, <2>4 DEF Begin, Promise!Begin
<1>2. ASSUME NEW c \in Client, add[c] # Idle, Write(c), kind' = kind,
             add[c].pc # "return", swallowed' = swallowed
      PROVE  Promise!TakeEffect(c)
  <2>1. /\ add' = [add EXCEPT ![c] = [pc |-> "return", value |-> add[c].value,
                                      exists |-> add[c].exists]]
        /\ entry' = add[c].value /\ held' = held \cup {entry'}
        /\ passed' = {d \in Client : add[d] # Idle}
    BY <1>2, WriteMoves
  <2>2. \A d \in Client : Open[d] # NoValue <=> add[d] # Idle
    BY IdleIsNoAdd DEF Open, TypeOK, Value, NoValue
  <2>3. Open' = Open
    BY <1>2, <2>1 DEF Open, TypeOK, Idle
  <2>4. Settled' = Settled \cup {c}
    BY <2>1 DEF Settled, TypeOK
  <2>5. Open[c] = add[c].value /\ c \notin Settled
    BY <1>2 DEF Open, Settled
  <2>6. passed' = {d \in Client : Open[d] # NoValue}
    BY <2>1, <2>2
  <2>7. QED
    BY <1>2, <2>1, <2>2, <2>3, <2>4, <2>5, <2>6
       DEF Promise!TakeEffect, Promise!Unsettled
<1>3. ASSUME NEW c \in Client, Store(c)
      PROVE  Promise!TakeEffect(c)
  BY <1>2, <1>3 DEF Store, Idle
<1>4. ASSUME NEW c \in Client, add[c] # Idle, NEW p \in Steps \ {"return"},
             NEW found \in BOOLEAN, add[c].pc # "return",
             add' = [add EXCEPT ![c] = [pc |-> p, value |-> add[c].value,
                                        exists |-> found]]
      PROVE  /\ Open' = Open /\ Settled' = Settled
             /\ Open[c] # NoValue /\ c \notin Settled
  <2>1. Open' = Open
    BY <1>4 DEF Open, TypeOK, Idle, Steps
  <2>2. Settled' = Settled
    BY <1>4 DEF Settled, TypeOK
  <2>3. Open[c] # NoValue /\ c \notin Settled
    BY <1>4, IdleIsNoAdd DEF Open, Settled, TypeOK, Value, NoValue
  <2>4. QED
    BY <2>1, <2>2, <2>3
<1>5. ASSUME NEW c \in Client, Lookup(c)
      PROVE  UNCHANGED Promise!nvars
  <2>1. add[c] # Idle /\ add[c].pc = "lookup"
    BY <1>5 DEF Lookup, Idle
  <2>2. PICK found \in BOOLEAN :
          add' = [add EXCEPT ![c] = [pc |-> "mkdir", value |-> add[c].value,
                                     exists |-> found]]
    BY <1>5 DEF Lookup
  <2>3. Open' = Open /\ Settled' = Settled
    BY <1>4, <2>1, <2>2 DEF Steps
  <2>4. QED
    BY <1>5, <2>3 DEF Lookup
<1>6. ASSUME NEW c \in Client, LookupFails(c)
      PROVE  Promise!Ignore(c)
  <2>1. /\ Open' = Open /\ Settled' = Settled
        /\ Open[c] # NoValue /\ c \notin Settled
    <3>1. add[c] # Idle /\ add[c].pc = "lookup"
      BY <1>6 DEF LookupFails, Idle
    <3>2. add' = [add EXCEPT ![c] = [pc |-> "mkdir", value |-> add[c].value,
                                     exists |-> FALSE]]
      BY <1>6 DEF LookupFails
    <3>3. QED
      BY <1>4, <3>1, <3>2 DEF Steps
  <2>2. kind = "ipfs" /\ swallowed < MaxFaults
    BY <1>6, BoundsAssumption DEF LookupFails, KindsApart, Fault, TypeOK
  <2>3. QED
    BY <1>6, <2>1, <2>2 DEF LookupFails, Promise!Ignore, Promise!Unsettled
<1>7. ASSUME NEW c \in Client, Mkdir(c) \/ Flush(c) \/ Unlink(c) \/ FlushFails(c)
      PROVE  Promise!Withdraw(c) \/ UNCHANGED Promise!nvars
  <2>1. /\ add[c] # Idle /\ add[c].pc # "return"
        /\ kind = "ipfs" /\ UNCHANGED <<kind, held, passed, swallowed>>
        /\ entry' \in {entry, NoValue}
    BY <1>7 DEF Mkdir, Flush, Unlink, FlushFails, Idle, KindsApart
  <2>2. PICK p \in Steps \ {"return"} : GoTo(c, p)
    BY <1>7 DEF Mkdir, Flush, Unlink, FlushFails, Steps
  <2>3. /\ add' = [add EXCEPT ![c] = [pc |-> p, value |-> add[c].value,
                                      exists |-> add[c].exists]]
        /\ add[c].exists \in BOOLEAN
    BY <2>1, <2>2, GoToMoves, IdleIsNoAdd DEF TypeOK
  <2>4. /\ Open' = Open /\ Settled' = Settled
        /\ Open[c] # NoValue /\ c \notin Settled
    BY <1>4, <2>1, <2>3
  <2>5. QED
    BY <2>1, <2>4 DEF Promise!Withdraw, Promise!Unsettled
<1>8. ASSUME NEW c \in Client, add[c].pc = "put",
             add' = [add EXCEPT ![c] = [pc |-> "return", value |-> add[c].value,
                                        exists |-> add[c].exists]]
      PROVE  /\ Open' = Open /\ Settled' = Settled \cup {c}
             /\ Open[c] # NoValue /\ c \notin Settled
             /\ kind = "ipfs"
  <2>1. Open' = Open
    BY <1>8 DEF Open, TypeOK, Idle
  <2>2. Settled' = Settled \cup {c}
    BY <1>8 DEF Settled, TypeOK
  <2>3. Open[c] # NoValue /\ c \notin Settled
    BY <1>8, IdleIsNoAdd DEF Open, Settled, TypeOK, Value, NoValue
  <2>4. QED
    BY <1>8, <2>1, <2>2, <2>3 DEF KindsApart
<1>9. ASSUME NEW c \in Client, Put(c)
      PROVE  Promise!TakeEffect(c) \/ Promise!Settle(c)
  <2>1. add[c] # Idle /\ add[c].pc = "put"
    BY <1>9 DEF Put, Idle
  <2>2. CASE entry = NoValue
    BY <1>2, <1>9, <2>1, <2>2 DEF Put
  <2>3. CASE entry # NoValue
    <3>1. add' = [add EXCEPT ![c] = [pc |-> "return", value |-> add[c].value,
                                     exists |-> add[c].exists]]
      BY <1>9, <2>1, <2>3, GoToMoves DEF Put, Steps
    <3>2. c \in passed
      BY <2>1, <2>3 DEF Seen
    <3>3. QED
      BY <1>8, <1>9, <2>1, <2>3, <3>1, <3>2
         DEF Put, Promise!Settle, Promise!Unsettled
  <2>4. QED
    BY <2>2, <2>3
<1>10. ASSUME NEW c \in Client, PutFails(c)
       PROVE  Promise!Ignore(c)
  <2>1. add[c] # Idle /\ add[c].pc = "put"
    BY <1>10 DEF PutFails, Idle
  <2>2. add' = [add EXCEPT ![c] = [pc |-> "return", value |-> add[c].value,
                                   exists |-> add[c].exists]]
    BY <1>10, <2>1, GoToMoves DEF PutFails, Steps
  <2>3. swallowed < MaxFaults
    BY <1>10, BoundsAssumption DEF PutFails, Fault, TypeOK
  <2>4. QED
    BY <1>8, <1>10, <2>1, <2>2, <2>3
       DEF PutFails, Promise!Ignore, Promise!Unsettled
<1>11. ASSUME NEW c \in Client, Ends(c),
              UNCHANGED <<kind, entry, held, swallowed>>
       PROVE  Promise!Close(c)
  <2>1. Open' = [Open EXCEPT ![c] = NoValue]
    BY <1>11 DEF Ends, Open, TypeOK
  <2>2. Settled' = Settled \ {c}
    BY <1>11 DEF Ends, Settled, TypeOK, Idle
  <2>3. QED
    BY <1>11, <2>1, <2>2 DEF Ends, Promise!Close
<1>12. ASSUME NEW c \in Client, UnlinkFails(c) \/ AddFails(c)
       PROVE  Promise!Fail(c)
  <2>1. Promise!Close(c)
    BY <1>11, <1>12 DEF UnlinkFails, AddFails
  <2>2. add[c] # Idle /\ add[c].pc # "return"
    BY <1>12 DEF UnlinkFails, AddFails, Idle
  <2>3. Open[c] # NoValue /\ c \notin Settled
    BY <2>2, IdleIsNoAdd DEF Open, Settled, TypeOK, Value, NoValue
  <2>4. QED
    BY <2>1, <2>3 DEF Promise!Fail, Promise!Unsettled
<1>13. ASSUME NEW c \in Client, Return(c)
       PROVE  Promise!Return(c)
  <2>1. Promise!Close(c)
    BY <1>11, <1>13 DEF Return
  <2>2. c \in passed \cap Settled
    BY <1>13 DEF Return, Seen, Settled
  <2>3. QED
    BY <2>1, <2>2 DEF Promise!Return
<1>14. ASSUME Save
       PROVE  UNCHANGED Promise!nvars
  BY <1>14 DEF Save, Open, Settled
<1>15. ASSUME Crash
       PROVE  Promise!Crash
  <2>1. Open' = [c \in Client |-> NoValue]
    BY <1>15 DEF Crash, Open
  <2>2. Settled' = {}
    BY <1>15 DEF Crash, Settled, Idle
  <2>3. entry' \in Promise!AfterCrash
    BY <1>15 DEF Crash, TypeOK, Seen, Promise!AfterCrash
  <2>4. QED
    BY <1>15, <2>1, <2>2, <2>3 DEF Crash, Promise!Crash
<1>16. ASSUME UNCHANGED vars
       PROVE  UNCHANGED Promise!nvars
  BY <1>16 DEF vars, Open, Settled
<1>17. QED
  BY <1>1, <1>3, <1>5, <1>6, <1>7, <1>9, <1>10, <1>12, <1>13, <1>14, <1>15,
     <1>16 DEF Next, Step, Promise!Next

\* The three backends keep the promise: an Add that returned took effect or
\* was overlapped by one that did, the name vanishes only while an Add is open,
\* after an ignored error or in a crash, and a Bolt name survives a crash.
THEOREM BackendImplementsNames == Spec => ImplementsNames
<1>1. Init => Promise!Init
  BY DEF Init, Promise!Init, Open, Settled, Idle
<1>2. Spec => []NInv
  BY InitNInv, StepNInv, PTL DEF Spec
<1>3. QED
  BY <1>1, <1>2, StepKeepsPromise, PTL DEF Spec, ImplementsNames, Promise!Spec

-----------------------------------------------------------------------------
(* The order of values.                                                    *)

\* No ignored error has kept an old entry or lost the new one, and no crash.
Kept == swallowed = 0 /\ (crashes = 0 \/ kind = "bolt")

\* The Add of c has found the entry gone, or made it go.
Gone(c) ==
  \/ add[c].pc \in {"flush", "put", "return"}
  \/ add[c].pc = "mkdir" /\ ~add[c].exists

\* Values are new, and the acked ones had returned.
Fresh ==
  /\ acked \subseteq 1..begun
  /\ \A v \in Value : before[v] \subseteq acked
  /\ \A c \in Client :
       add[c] # Idle => add[c].value \in 1..begun /\ add[c].value \notin acked
  /\ \A c, d \in Client :
       c # d /\ add[c] # Idle /\ add[d] # Idle => add[c].value # add[d].value
  /\ begun > 0 => IsValid(address)

\* The Add of c ignores no error, or none that loses an entry or keeps one.
Heeds(c) == c \notin deaf \/ Kept

\* What an Add replaces is out of the directory before the Add goes on.
EntryOrdered ==
  /\ \A c \in Client : Heeds(c) /\ Gone(c) => entry \notin before[add[c].value]
  /\ \A w \in acked : w \in stands \/ Kept => entry \notin before[w]

\* It is out of the flushed tree before the new value is put, and so out of
\* every tree saved afterwards.
TreeOrdered ==
  kind = "ipfs" =>
    /\ \A c \in Client \ deaf :
         add[c].pc \in {"put", "return"} => flushed \notin before[add[c].value]
    /\ \A w \in stands : flushed \notin before[w]
    /\ \A w \in lasting : saved \notin before[w]

\* While the name is missing, some Add is about to put it.
Present ==
  Kept /\ (acked # {} \/ \E c \in Client : add[c].pc = "return") =>
    entry # NoValue \/ \E c \in Client : add[c].pc \in {"flush", "put"}

OInv == NInv /\ Fresh /\ EntryOrdered /\ TreeOrdered /\ Present

LEMMA InitOInv == Init => OInv
  BY InitNInv
     DEF Init, OInv, Fresh, EntryOrdered, TreeOrdered, Present, Gone, Idle

\* An Add under way takes a step that writes no value but its own, that finds
\* the entry gone only if it is, and that flushes the directory as it is.
LEMMA GoingOnKeepsOrder ==
  ASSUME OInv, TypeOK', NEW c \in Client, NEW p \in Steps, NEW found \in BOOLEAN,
         add[c] # Idle,
         add' = [add EXCEPT ![c] = [pc |-> p, value |-> add[c].value,
                                    exists |-> found]],
         UNCHANGED <<kind, address, acked, before, begun, crashes, stands, lasting>>,
         entry' \in {entry, NoValue, add[c].value},
         flushed' \in {flushed, entry'},
         kind = "ipfs" => saved' = saved,
         deaf \subseteq deaf', swallowed' = 0 => swallowed = 0,
         Heeds(c)' /\ Gone(c)' => Gone(c) \/ entry' \in {NoValue, add[c].value},
         c \notin deaf' /\ kind = "ipfs" /\ p \in {"put", "return"} =>
           add[c].pc \in {"put", "return"} \/ (flushed' = entry' /\ Gone(c)')
  PROVE  Fresh' /\ EntryOrdered' /\ TreeOrdered'
<1>0. TypeOK /\ Fresh /\ EntryOrdered /\ TreeOrdered
  BY DEF OInv, NInv, TInv
<1> USE <1>0
<1>1. /\ \A d \in Client : add'[d] = Idle <=> add[d] = Idle
      /\ \A d \in Client : add[d] # Idle => add'[d].value = add[d].value
      /\ \A d \in Client : d # c => add'[d] = add[d]
      /\ add'[c].pc = p
  <2>1. /\ \A d \in Client : d # c => add'[d] = add[d]
        /\ add'[c].pc = p /\ add'[c].value = add[c].value
    BY DEF TypeOK
  <2>2. add'[c] # Idle
    <3>1. Idle.pc = "idle" /\ p # "idle"
      BY DEF Idle, Steps
    <3>2. QED
      BY <2>1, <3>1
  <2>3. QED
    BY <2>1, <2>2
<1>2. Fresh'
  <2>1. /\ acked' = acked /\ before' = before /\ begun' = begun
        /\ address' = address
    OBVIOUS
  <2>2. /\ acked' \subseteq 1..begun' /\ \A v \in Value : before'[v] \subseteq acked'
        /\ begun' > 0 => IsValid(address')
    BY <2>1 DEF Fresh
  <2>3. \A d \in Client :
          add'[d] # Idle => add'[d].value \in 1..begun' /\ add'[d].value \notin acked'
    BY <1>1, <2>1 DEF Fresh
  <2>4. \A d, e \in Client :
          d # e /\ add'[d] # Idle /\ add'[e] # Idle => add'[d].value # add'[e].value
    BY <1>1 DEF Fresh
  <2>5. QED
    BY <2>2, <2>3, <2>4 DEF Fresh
<1>3. \A d \in Client : Gone(d) \/ Gone(d)' \/ add[d].pc = "put" => add[d] # Idle
  BY <1>1 DEF Gone, Idle
<1>4. \A v \in Value : /\ before'[v] = before[v]
                       /\ NoValue \notin before[v]
                       /\ add[c].value \notin before[v]
  BY DEF Fresh, NoValue
<1>5. \A d \in Client : add[d] # Idle => add[d].value \in Value
  BY IdleIsNoAdd DEF TypeOK
<1>6. /\ Kept' => Kept
      /\ \A d \in Client : Heeds(d)' => Heeds(d)
  BY DEF Kept, Heeds
<1>7. EntryOrdered'
  <2>1. ASSUME NEW w \in acked', w \in stands' \/ Kept'
        PROVE  entry' \notin before'[w]
    BY <1>4, <1>6, <2>1 DEF EntryOrdered, TypeOK
  <2>2. ASSUME NEW d \in Client, Heeds(d)', Gone(d)'
        PROVE  entry' \notin before'[add'[d].value]
    <3>1. add'[d].value = add[d].value /\ add[d].value \in Value
      BY <1>1, <1>3, <1>5, <2>2
    <3>2. CASE entry' \in {NoValue, add[c].value}
      BY <1>4, <3>1, <3>2
    <3>3. CASE entry' = entry /\ entry' \notin {NoValue, add[c].value}
      <4>1. Gone(d)
        BY <1>1, <2>2, <3>3 DEF Gone
      <4>2. QED
        BY <1>4, <1>6, <2>2, <3>1, <3>3, <4>1 DEF EntryOrdered
    <3>4. QED
      BY <3>2, <3>3
  <2>3. QED
    BY <2>1, <2>2 DEF EntryOrdered
<1>8. ASSUME kind = "ipfs"
      PROVE  /\ \A d \in Client \ deaf' :
                  add'[d].pc \in {"put", "return"} =>
                    flushed' \notin before'[add'[d].value]
             /\ \A w \in stands' : flushed' \notin before'[w]
             /\ \A w \in lasting' : saved' \notin before'[w]
  <2>1. ASSUME NEW w \in stands'
        PROVE  flushed' \notin before'[w]
    BY <1>7, <1>8 DEF TreeOrdered, EntryOrdered, TypeOK
  <2>2. ASSUME NEW d \in Client, d \notin deaf', add'[d].pc \in {"put", "return"}
        PROVE  flushed' \notin before'[add'[d].value]
    <3>1. Gone(d)' /\ Heeds(d)'
      BY <2>2 DEF Gone, Heeds
    <3>2. CASE flushed' = entry'
      BY <1>7, <3>1, <3>2 DEF EntryOrdered
    <3>3. CASE flushed' = flushed /\ flushed' # entry'
      <4>1. add[d].pc \in {"put", "return"} /\ d \notin deaf
        BY <1>1, <1>8, <2>2, <3>3
      <4>2. add[d] # Idle /\ add'[d].value = add[d].value
        BY <1>1, <4>1 DEF Idle
      <4>3. QED
        BY <1>8, <3>3, <4>1, <4>2 DEF TreeOrdered
    <3>4. QED
      BY <3>2, <3>3
  <2>3. \A w \in lasting' : saved' \notin before'[w]
    BY <1>8 DEF TreeOrdered
  <2>4. QED
    BY <2>1, <2>2, <2>3
<1>9. QED
  BY <1>2, <1>7, <1>8 DEF TreeOrdered

\* An Add that ends, having failed or having put its value or given way.
LEMMA EndingKeepsOrder ==
  ASSUME OInv, TypeOK', NEW c \in Client, add[c] # Idle, Ends(c),
         \/ acked' = acked /\ stands' = stands /\ lasting' = lasting
         \/ /\ add[c].pc = "return"
            /\ acked' = acked \cup {add[c].value}
            /\ stands' = IF c \in deaf THEN stands ELSE stands \cup {add[c].value}
            /\ lasting' = IF flushed = saved THEN stands' ELSE lasting,
         UNCHANGED <<kind, address, entry, flushed, saved, begun, before,
                     swallowed, crashes>>
  PROVE  Fresh' /\ EntryOrdered' /\ TreeOrdered'
<1>0. TypeOK /\ Fresh /\ EntryOrdered /\ TreeOrdered
  BY DEF OInv, NInv, TInv
<1> USE <1>0
<1>1. /\ add'[c] = Idle
      /\ \A d \in Client : d # c => add'[d] = add[d]
  BY DEF Ends, TypeOK
<1>2. acked \subseteq acked' /\ acked' \subseteq acked \cup {add[c].value}
  OBVIOUS
<1>3. Fresh'
  BY <1>1, <1>2 DEF Fresh
<1>4. EntryOrdered'
  <2>1. \A d \in Client : Gone(d)' /\ Heeds(d)' =>
          d # c /\ add'[d] = add[d] /\ Gone(d) /\ Heeds(d)
    BY <1>1 DEF Gone, Heeds, Kept, Ends, Idle
  <2>2. add[c].pc = "return" => Gone(c)
    BY DEF Gone
  <2>3. \A w \in acked' : w \in stands' \/ Kept' =>
          \/ w \in acked /\ (w \in stands \/ Kept)
          \/ w = add[c].value /\ add[c].pc = "return" /\ Heeds(c)
    BY DEF Heeds, Kept, Fresh, TypeOK
  <2>4. QED
    BY <2>1, <2>2, <2>3 DEF EntryOrdered
<1>5. TreeOrdered'
  <2>1. ASSUME kind = "ipfs"
        PROVE  /\ \A d \in Client \ deaf' :
                    add'[d].pc \in {"put", "return"} =>
                      flushed \notin before[add'[d].value]
               /\ \A w \in stands' : flushed \notin before[w]
    BY <1>1, <2>1 DEF TreeOrdered, Ends, Idle
  <2>2. kind = "ipfs" => \A w \in lasting' : saved \notin before[w]
    BY <2>1 DEF TreeOrdered
  <2>3. QED
    BY <2>1, <2>2 DEF TreeOrdered
<1>6. QED
  BY <1>3, <1>4, <1>5

\* Each step keeps the order.
LEMMA StepOInv ==
  ASSUME OInv, [Next]_vars
  PROVE  OInv'
<1>0. /\ NInv /\ TypeOK /\ KindsApart /\ Seen
      /\ Fresh /\ EntryOrdered /\ TreeOrdered /\ Present
      /\ NInv' /\ TypeOK'
  BY StepNInv DEF OInv, NInv, TInv
<1> SUFFICES Fresh' /\ EntryOrdered' /\ TreeOrdered' /\ Present'
  BY <1>0 DEF OInv
<1> USE <1>0
<1>1. ASSUME NEW c \in Client, Begin(c)
      PROVE  Fresh' /\ EntryOrdered' /\ TreeOrdered' /\ Present'
  <2>1. /\ begun \in Nat /\ begun + 1 \in Value
    BY <1>1, BoundsAssumption DEF Begin, TypeOK, Value
  <2>2. /\ add'[c].value = begun + 1 /\ add'[c].pc \in {"lookup", "store"}
        /\ add'[c] # Idle /\ add[c] = Idle
        /\ \A d \in Client : d # c => add'[d] = add[d]
    BY <1>1 DEF Begin, TypeOK, Idle
  <2>3. \A v \in Value : v # begun + 1 => before'[v] = before[v]
    BY <1>1 DEF Begin, TypeOK
  <2>4. before'[begun + 1] = acked
    BY <1>1, <2>1 DEF Begin, TypeOK
  <2>5. Fresh'
    BY <1>1, <2>1, <2>2, <2>3, <2>4 DEF Begin, Fresh
  <2>6. \A w \in acked : before'[w] = before[w]
    BY <2>1, <2>3 DEF Fresh, TypeOK
  <2>7. \A d \in Client :
          d # c /\ add[d] # Idle => before'[add[d].value] = before[add[d].value]
    BY <2>1, <2>3, IdleIsNoAdd DEF Fresh, TypeOK
  <2>8. EntryOrdered'
    BY <1>1, <2>2, <2>6, <2>7 DEF Begin, EntryOrdered, Heeds, Kept, Gone, Idle, standing
  <2>9. TreeOrdered'
    BY <1>1, <2>2, <2>6, <2>7 DEF Begin, TreeOrdered, Idle, TypeOK, standing
  <2>10. Present'
    BY <1>1, <2>2 DEF Begin, Present, Kept, Idle
  <2>11. QED
    BY <2>5, <2>8, <2>9, <2>10
<1>2. ASSUME NEW c \in Client, Store(c)
      PROVE  Fresh' /\ EntryOrdered' /\ TreeOrdered' /\ Present'
  <2>1. add[c] # Idle /\ add[c].exists \in BOOLEAN /\ kind # "ipfs"
    BY <1>2, IdleIsNoAdd DEF Store, Idle, TypeOK, KindsApart
  <2>2. /\ add' = [add EXCEPT ![c] = [pc |-> "return", value |-> add[c].value,
                                      exists |-> add[c].exists]]
        /\ entry' = add[c].value /\ entry' \in Value
    BY <1>2, <2>1, WriteMoves DEF Store
  <2>3. Fresh' /\ EntryOrdered' /\ TreeOrdered'
    BY <1>2, <2>1, <2>2, GoingOnKeepsOrder DEF Store, Steps, standing
  <2>4. Present'
    BY <2>2 DEF Present, Value, NoValue
  <2>5. QED
    BY <2>3, <2>4
<1>3. ASSUME NEW c \in Client, Lookup(c) \/ LookupFails(c)
      PROVE  Fresh' /\ EntryOrdered' /\ TreeOrdered' /\ Present'
  <2>1. /\ add[c] # Idle /\ add[c].pc = "lookup"
        /\ UNCHANGED <<kind, address, entry, flushed, saved, acked, before,
                       begun, crashes, stands, lasting>>
        /\ swallowed' = 0 => swallowed = 0
    BY <1>3 DEF Lookup, LookupFails, Idle, TypeOK, standing
  <2>2. PICK found \in BOOLEAN :
          /\ add' = [add EXCEPT ![c] = [pc |-> "mkdir", value |-> add[c].value,
                                        exists |-> found]]
          /\ \/ deaf' = deaf /\ swallowed' = swallowed
                /\ (~found => entry = NoValue)
             \/ deaf' = deaf \cup {c} /\ swallowed' = swallowed + 1
    BY <1>3 DEF Lookup, LookupFails
  <2>3. /\ deaf \subseteq deaf'
        /\ swallowed' # swallowed => c \in deaf' /\ swallowed' # 0
    BY <2>2, BoundsAssumption DEF TypeOK
  <2>4. add'[c].exists = found /\ add'[c].pc = "mkdir"
    BY <2>2 DEF TypeOK
  <2>5. Heeds(c)' /\ Gone(c)' => entry' = NoValue
    BY <2>1, <2>2, <2>3, <2>4 DEF Gone, Heeds, Kept
  <2>6. Fresh' /\ EntryOrdered' /\ TreeOrdered'
    BY <2>1, <2>2, <2>3, <2>5, GoingOnKeepsOrder DEF Steps
  <2>7. Present'
    BY <2>1, <2>2, <2>3 DEF Present, Kept, TypeOK
  <2>8. QED
    BY <2>6, <2>7
<1>4. ASSUME NEW c \in Client, Mkdir(c) \/ Flush(c) \/ Unlink(c) \/ FlushFails(c)
      PROVE  Fresh' /\ EntryOrdered' /\ TreeOrdered' /\ Present'
  <2>1. /\ add[c] # Idle /\ add[c].exists \in BOOLEAN
        /\ add[c].pc \in {"mkdir", "flush", "unlink"}
        /\ UNCHANGED <<kind, address, saved, acked, before, begun, crashes,
                       swallowed, stands, lasting>>
        /\ entry' \in {entry, NoValue} /\ flushed' \in {flushed, entry'}
        /\ deaf \subseteq deaf'
    BY <1>4, IdleIsNoAdd
       DEF Mkdir, Flush, Unlink, FlushFails, Idle, TypeOK, standing
  <2>2. PICK p \in Steps :
          /\ GoTo(c, p)
          /\ p \in {"unlink", "flush", "put"}
          /\ add[c].pc = "unlink" => p = "flush" /\ entry' = NoValue
          /\ add[c].pc = "flush" => p = "put"
          /\ add[c].pc = "mkdir" /\ p # "unlink" => ~add[c].exists
          /\ add[c].pc = "mkdir" => p # "flush"
          /\ add[c].pc \in {"mkdir", "flush"} => entry' = entry
          /\ p = "put" /\ c \notin deaf' => flushed' = entry'
    BY <1>4 DEF Mkdir, Flush, Unlink, FlushFails, Steps
  <2>3. add' = [add EXCEPT ![c] = [pc |-> p, value |-> add[c].value,
                                   exists |-> add[c].exists]]
    BY <2>1, <2>2, GoToMoves
  <2>4. add'[c].pc = p /\ \A d \in Client : d # c => add'[d] = add[d]
    BY <2>3 DEF TypeOK
  <2>5. Gone(c)' => Gone(c) \/ entry' = NoValue
    BY <2>1, <2>2, <2>4 DEF Gone
  <2>6. p = "put" => Gone(c)'
    BY <2>4 DEF Gone
  <2>7. Fresh' /\ EntryOrdered' /\ TreeOrdered'
    BY <2>1, <2>2, <2>3, <2>5, <2>6, GoingOnKeepsOrder
  <2>8. Present'
    BY <2>1, <2>2, <2>4 DEF Present, Kept
  <2>9. QED
    BY <2>7, <2>8
<1>5. ASSUME NEW c \in Client, Put(c) \/ PutFails(c)
      PROVE  Fresh' /\ EntryOrdered' /\ TreeOrdered' /\ Present'
  <2>1. /\ add[c] # Idle /\ add[c].exists \in BOOLEAN /\ add[c].pc = "put"
        /\ UNCHANGED <<kind, address, flushed, saved, acked, before, begun,
                       crashes, deaf, stands, lasting>>
        /\ swallowed' = 0 => swallowed = 0
    BY <1>5, IdleIsNoAdd DEF Put, PutFails, Idle, TypeOK, standing
  <2>2. add' = [add EXCEPT ![c] = [pc |-> "return", value |-> add[c].value,
                                   exists |-> add[c].exists]]
    BY <1>5, <2>1, WriteMoves, GoToMoves DEF Put, PutFails, Steps
  <2>3. /\ entry' \in {entry, add[c].value}
        /\ swallowed' = 0 => entry' # NoValue
    BY <1>5, <2>1, WriteMoves DEF Put, PutFails, TypeOK, Value, NoValue
  <2>4. Gone(c)
    BY <2>1 DEF Gone
  <2>5. Fresh' /\ EntryOrdered' /\ TreeOrdered'
    BY <2>1, <2>2, <2>3, <2>4, GoingOnKeepsOrder DEF Steps
  <2>6. Present'
    BY <2>3 DEF Present, Kept
  <2>7. QED
    BY <2>5, <2>6
<1>6. ASSUME NEW c \in Client, UnlinkFails(c) \/ AddFails(c) \/ Return(c)
      PROVE  Fresh' /\ EntryOrdered' /\ TreeOrdered' /\ Present'
  <2>1. /\ add[c] # Idle /\ add[c].pc \notin {"flush", "put"}
        /\ UNCHANGED <<kind, address, entry, flushed, saved, begun, before,
                       swallowed, crashes>>
        /\ Ends(c)
        /\ \/ acked' = acked /\ stands' = stands /\ lasting' = lasting
           \/ /\ add[c].pc = "return"
              /\ acked' = acked \cup {add[c].value}
              /\ stands' = IF c \in deaf THEN stands ELSE stands \cup {add[c].value}
              /\ lasting' = IF flushed = saved THEN stands' ELSE lasting
    BY <1>6 DEF UnlinkFails, AddFails, Return, Idle, standing
  <2>2. Fresh' /\ EntryOrdered' /\ TreeOrdered'
    BY <2>1, EndingKeepsOrder
  <2>3. add'[c].pc = "idle" /\ \A d \in Client : d # c => add'[d] = add[d]
    BY <2>1 DEF Ends, TypeOK, Idle
  <2>4. Present'
    BY <2>1, <2>3 DEF Present, Kept
  <2>5. QED
    BY <2>2, <2>4
<1>7. ASSUME Save
      PROVE  Fresh' /\ EntryOrdered' /\ TreeOrdered' /\ Present'
  BY <1>7 DEF Save, Fresh, EntryOrdered, TreeOrdered, Present, Heeds, Kept, Gone
<1>8. ASSUME Crash
      PROVE  Fresh' /\ EntryOrdered' /\ TreeOrdered' /\ Present'
  <2>1. /\ \A d \in Client : add'[d] = Idle
        /\ entry' = saved /\ flushed' = saved /\ crashes' # 0
        /\ UNCHANGED <<kind, address, begun, acked, before, held, swallowed>>
        /\ saved' = saved /\ stands' = lasting'
        /\ stands' = IF flushed = saved THEN stands ELSE lasting
    BY <1>8, BoundsAssumption DEF Crash, TypeOK
  <2>2. Fresh'
    BY <2>1 DEF Fresh
  <2>3. EntryOrdered'
    <3>1. \A w \in acked : NoValue \notin before[w]
      BY DEF Fresh, TypeOK, Value, NoValue
    <3>2. CASE kind = "memory"
      BY <2>1, <3>1, <3>2 DEF EntryOrdered, Gone, Idle, TypeOK
    <3>3. CASE kind = "bolt"
      BY <2>1, <3>3 DEF EntryOrdered, Gone, Idle, Kept, TypeOK
    <3>4. CASE kind = "ipfs"
      BY <2>1, <3>4 DEF EntryOrdered, TreeOrdered, Gone, Idle, Kept
    <3>5. QED
      BY <3>2, <3>3, <3>4 DEF TypeOK
  <2>4. TreeOrdered'
    BY <2>1 DEF TreeOrdered, Idle
  <2>5. Present'
    BY <2>1 DEF Present, Kept, Idle, KindsApart, TypeOK
  <2>6. QED
    BY <2>2, <2>3, <2>4, <2>5
<1>9. ASSUME UNCHANGED vars
      PROVE  Fresh' /\ EntryOrdered' /\ TreeOrdered' /\ Present'
  BY <1>9 DEF vars, Fresh, EntryOrdered, TreeOrdered, Present, Heeds, Kept, Gone
<1>10. QED
  BY <1>1, <1>2, <1>3, <1>4, <1>5, <1>6, <1>7, <1>8, <1>9 DEF Next, Step

LEMMA OrderHolds == Spec => []OInv
  BY InitOInv, StepOInv, PTL DEF Spec

\* A value does not come back once an Add that began after it was acked has
\* returned, unless that Add ignored an error of Lookup or Flush, or a crash
\* came before the tree was saved and took that Add back.
THEOREM OldValuesStayGone == Spec => []NoOldValueComesBack
<1>1. OInv => NoOldValueComesBack
  BY DEF OInv, NInv, TInv, TypeOK, EntryOrdered, NoOldValueComesBack
<1>2. QED
  BY <1>1, OrderHolds, PTL

\* When the Adds under way have ended, the name resolves to a value that no
\* later Add replaced, unless an error was swallowed or a crash came.
THEOREM LastAddResolves == Spec => []ResolvesLastAdd
<1>1. ASSUME OInv, acked # {}, Kept, \A c \in Client : add[c] = Idle
      PROVE  Resolve \in held /\ ~Overtaken(Resolve)
  <2>1. begun > 0 /\ IsValid(address)
    <3>1. begun \in Nat /\ acked \subseteq 1..begun
      BY <1>1, BoundsAssumption DEF OInv, NInv, TInv, TypeOK, Fresh
    <3>2. PICK w \in acked : TRUE
      BY <1>1
    <3>3. begun > 0
      BY <3>1, <3>2
    <3>4. begun > 0 => IsValid(address)
      BY <1>1 DEF OInv, Fresh
    <3>5. QED
      BY <3>3, <3>4
  <2>2. Resolve = entry
    BY <2>1 DEF Resolve
  <2>3. entry # NoValue
    BY <1>1 DEF OInv, Present, Idle
  <2>4. entry \in held
    BY <1>1, <2>3 DEF OInv, NInv, Seen
  <2>5. ~Overtaken(entry)
    BY <1>1 DEF OInv, EntryOrdered, Overtaken
  <2>6. QED
    BY <2>2, <2>4, <2>5
<1>2. OInv => ResolvesLastAdd
  BY <1>1 DEF ResolvesLastAdd, Kept
<1>3. QED
  BY <1>2, OrderHolds, PTL
-----------------------------------------------------------------------------
(* Numbers and digits.  NumberOf and DigitsOf are recursive functions: what *)
(* their equations say of every input is shown by the least input they do  *)
(* not say it of.                                                          *)

\* A set of naturals has a least one.
LEMMA LeastNat ==
  ASSUME NEW T \in SUBSET Nat, T # {}
  PROVE  \E n \in T : \A m \in T : n <= m
<1> DEFINE R == {ss \in Nat \X Nat : ss[1] < ss[2]}
<1>1. IsWellFoundedOn(R, Nat)
  BY NatLessThanWellFounded DEF OpToRel
<1>2. PICK n \in T : \A m \in T : <<m, n>> \notin R
  <2> HIDE DEF R
  <2>1. QED
    BY <1>1, WFMin
<1>3. ASSUME NEW m \in T
      PROVE  n <= m
  <2>1. <<m, n>> \in Nat \X Nat /\ <<m, n>>[1] = m /\ <<m, n>>[2] = n
    OBVIOUS
  <2>2. ~(m < n)
    BY <1>2, <2>1
  <2>3. QED
    BY <2>2
<1>4. QED
  BY <1>3

\* f is what NumberOf computes of the first n digits of s.
SpellsTo(f, n, s, base) ==
  /\ f \in [0..n -> Int] /\ f[0] = 0
  /\ \A i \in 1..n : f[i] = f[i - 1] * base + s[i]

Spells(f, s, base) == SpellsTo(f, Len(s), s, base)

LEMMA SpellsExists ==
  ASSUME NEW s \in Seq(Int), NEW base \in Int
  PROVE  \E f : Spells(f, s, base)
<1> DEFINE T == {n \in 0..Len(s) : ~ \E f : SpellsTo(f, n, s, base)}
<1>1. T \in SUBSET Nat
  OBVIOUS
<1>2. ASSUME NEW n \in T, \A m \in T : n <= m
      PROVE  FALSE
  <2>1. n \in 0..Len(s) /\ n \in Nat /\ Len(s) \in Nat
    OBVIOUS
  <2>2. n # 0
    <3>1. SpellsTo([i \in 0..0 |-> 0], 0, s, base)
      BY DEF SpellsTo
    <3>2. QED
      BY <3>1
  <2>3. n - 1 \in 0..Len(s) /\ n \in 1..Len(s) /\ ~(n <= n - 1)
    BY <2>1, <2>2
  <2>4. PICK f : SpellsTo(f, n - 1, s, base)
    BY <1>2, <2>3
  <2> DEFINE g == [i \in 0..n |-> IF i = n THEN f[n - 1] * base + s[n]
                                  ELSE f[i]]
  <2>5. f \in [0..(n - 1) -> Int] /\ f[n - 1] \in Int
    BY <2>3, <2>4 DEF SpellsTo
  <2>6. f[n - 1] * base + s[n] \in Int
    BY <2>3, <2>5
  <2>7. g \in [0..n -> Int] /\ g[0] = 0
    BY <2>2, <2>3, <2>4, <2>5, <2>6 DEF SpellsTo
  <2>8. ASSUME NEW i \in 1..n
        PROVE  g[i] = g[i - 1] * base + s[i]
    <3>1. g[i - 1] = f[i - 1]
      BY <2>3
    <3>2. CASE i = n
      BY <3>1, <3>2
    <3>3. CASE i # n
      <4>1. i \in 1..(n - 1) /\ g[i] = f[i]
        BY <2>3, <3>3
      <4>2. f[i] = f[i - 1] * base + s[i]
        BY <2>4, <4>1 DEF SpellsTo
      <4>3. QED
        BY <3>1, <4>1, <4>2
    <3>4. QED
      BY <3>2, <3>3
  <2>9. SpellsTo(g, n, s, base)
    <3> HIDE DEF g
    <3>1. QED
      BY <2>7, <2>8 DEF SpellsTo
  <2>10. QED
    BY <2>9
<1>3. T = {}
  <2> HIDE DEF T
  <2>1. QED
    BY <1>1, <1>2, LeastNat
<1>4. Len(s) \in 0..Len(s)
  OBVIOUS
<1>5. QED
  BY <1>3, <1>4 DEF Spells

\* Any such f ends in NumberOf.
LEMMA NumberOfSpelt ==
  ASSUME NEW s \in Seq(Int), NEW base \in Int, NEW f, Spells(f, s, base)
  PROVE  NumberOf(s, base) = f[Len(s)]
<1> DEFINE IsIt(g) == g = [i \in 0..Len(s) |->
                             IF i = 0 THEN 0 ELSE g[i - 1] * base + s[i]]
<1>1. IsIt(f)
  <2>1. ASSUME NEW i \in 0..Len(s)
        PROVE  f[i] = IF i = 0 THEN 0 ELSE f[i - 1] * base + s[i]
    BY DEF Spells, SpellsTo
  <2>2. f = [i \in 0..Len(s) |-> f[i]]
    BY DEF Spells, SpellsTo
  <2>3. QED
    BY <2>1, <2>2
<1>2. ASSUME NEW g, IsIt(g)
      PROVE  g = f
  <2> DEFINE T == {i \in 0..Len(s) : g[i] # f[i]}
  <2>1. T = {}
    <3> SUFFICES ASSUME T # {}
                 PROVE  FALSE
      OBVIOUS
    <3>1. T \in SUBSET Nat
      OBVIOUS
    <3>2. PICK n \in T : \A m \in T : n <= m
      <4> HIDE DEF T
      <4>1. QED
        BY <3>1, LeastNat
    <3>3. n # 0
      BY <1>1, <1>2
    <3>4. n - 1 \in 0..Len(s) /\ n - 1 \notin T
      BY <3>2, <3>3
    <3>5. g[n - 1] = f[n - 1]
      BY <3>4
    <3>6. g[n] = g[n - 1] * base + s[n] /\ f[n] = f[n - 1] * base + s[n]
      BY <1>1, <1>2, <3>3
    <3>7. QED
      BY <3>5, <3>6
  <2>2. \A i \in 0..Len(s) : g[i] = f[i]
    BY <2>1
  <2>3. g = [i \in 0..Len(s) |-> g[i]] /\ f = [i \in 0..Len(s) |-> f[i]]
    BY <1>1, <1>2
  <2>4. QED
    BY <2>2, <2>3
<1>3. f = CHOOSE g : IsIt(g)
  <2> HIDE DEF IsIt
  <2>1. QED
    BY <1>1, <1>2
<1>4. QED
  BY <1>3 DEF NumberOf

\* Digit by digit.
LEMMA NumberOfNone ==
  ASSUME NEW base \in Int
  PROVE  NumberOf(<<>>, base) = 0
<1> <<>> \in Seq(Int) /\ Len(<<>>) = 0
  OBVIOUS
<1>1. PICK f : Spells(f, <<>>, base)
  BY SpellsExists
<1>2. NumberOf(<<>>, base) = f[0]
  BY <1>1, NumberOfSpelt
<1>3. QED
  BY <1>1, <1>2 DEF Spells, SpellsTo

LEMMA NumberOfAppend ==
  ASSUME NEW s \in Seq(Int), NEW x \in Int, NEW base \in Int
  PROVE  /\ NumberOf(s, base) \in Int
         /\ NumberOf(Append(s, x), base) = NumberOf(s, base) * base + x
<1>1. PICK f : Spells(f, s, base)
  BY SpellsExists
<1>2. NumberOf(s, base) = f[Len(s)] /\ f[Len(s)] \in Int
  <2>1. Len(s) \in 0..Len(s)
    OBVIOUS
  <2>2. QED
    BY <1>1, <2>1, NumberOfSpelt DEF Spells, SpellsTo
<1> DEFINE t == Append(s, x)
           n == Len(s) + 1
           g == [i \in 0..n |-> IF i = n THEN f[Len(s)] * base + x ELSE f[i]]
<1>3. t \in Seq(Int) /\ Len(t) = n /\ t[n] = x /\ \A i \in 1..Len(s) : t[i] = s[i]
  OBVIOUS
<1>4. f[Len(s)] * base + x \in Int
  BY <1>2
<1>5. g \in [0..n -> Int] /\ g[0] = 0
  BY <1>1, <1>4 DEF Spells, SpellsTo
<1>6. ASSUME NEW i \in 1..n
      PROVE  g[i] = g[i - 1] * base + t[i]
  <2>1. g[i - 1] = f[i - 1]
    OBVIOUS
  <2>2. CASE i = n
    BY <1>3, <2>1, <2>2
  <2>3. CASE i # n
    <3>1. i \in 1..Len(s) /\ g[i] = f[i]
      BY <2>3
    <3>2. f[i] = f[i - 1] * base + s[i]
      BY <1>1, <3>1 DEF Spells, SpellsTo
    <3>3. QED
      BY <1>3, <2>1, <3>1, <3>2
  <2>4. QED
    BY <2>2, <2>3
<1>7. Spells(g, t, base)
  <2> HIDE DEF g, t
  <2>1. QED
    BY <1>3, <1>5, <1>6 DEF Spells, SpellsTo
<1>8. NumberOf(t, base) = g[n]
  <2> HIDE DEF g, t
  <2>1. QED
    BY <1>3, <1>7, NumberOfSpelt
<1>9. QED
  BY <1>2, <1>8

\* Zeros in front change nothing.
LEMMA NumberOfPadded ==
  ASSUME NEW z \in Seq(Int), NEW s \in Seq(Int), NEW base \in Int,
         \A i \in DOMAIN z : z[i] = 0
  PROVE  NumberOf(z \o s, base) = NumberOf(s, base)
<1>1. PICK f : Spells(f, s, base)
  BY SpellsExists
<1> DEFINE t == z \o s
           k == Len(z)
           n == Len(z) + Len(s)
           g == [i \in 0..n |-> IF i <= k THEN 0 ELSE f[i - k]]
<1>2. /\ t \in Seq(Int) /\ Len(t) = n
      /\ \A i \in 1..k : t[i] = 0
      /\ \A i \in (k + 1)..n : t[i] = s[i - k]
  OBVIOUS
<1>3. g \in [0..n -> Int] /\ g[0] = 0 /\ g[n] = f[Len(s)]
  BY <1>1 DEF Spells, SpellsTo
<1>4. ASSUME NEW i \in 1..n
      PROVE  g[i] = g[i - 1] * base + t[i]
  <2>1. CASE i <= k
    <3>1. g[i] = 0 /\ g[i - 1] = 0 /\ t[i] = 0
      BY <1>2, <2>1
    <3>2. QED
      BY <3>1
  <2>2. CASE i > k
    <3>0. k \in Nat /\ Len(s) \in Nat /\ n = k + Len(s)
      OBVIOUS
    <3>1. i - k \in 1..Len(s) /\ g[i] = f[i - k] /\ g[i - 1] = f[(i - k) - 1]
      <4> HIDE DEF k, n
      <4>1. i - k \in 1..Len(s) /\ i \in 0..n /\ i - 1 \in 0..n
        BY <2>2, <3>0
      <4>2. g[i] = f[i - k]
        BY <2>2, <3>0, <4>1
      <4>3. CASE i - 1 = k
        <5>1. g[i - 1] = 0 /\ (i - k) - 1 = 0
          BY <3>0, <4>1, <4>3
        <5>2. f[0] = 0
          BY <1>1 DEF Spells, SpellsTo
        <5>3. QED
          BY <4>1, <4>2, <5>1, <5>2
      <4>4. CASE i - 1 > k
        <5>1. g[i - 1] = f[(i - 1) - k] /\ (i - 1) - k = (i - k) - 1
          BY <3>0, <4>1, <4>4
        <5>2. QED
          BY <4>1, <4>2, <5>1
      <4>5. QED
        BY <2>2, <3>0, <4>3, <4>4
    <3>2. f[i - k] = f[(i - k) - 1] * base + s[i - k]
      BY <1>1, <3>1 DEF Spells, SpellsTo
    <3>3. QED
      BY <1>2, <2>2, <3>1, <3>2
  <2>3. QED
    BY <2>1, <2>2
<1>5. Spells(g, t, base)
  <2> HIDE DEF g, t
  <2>1. QED
    BY <1>2, <1>3, <1>4 DEF Spells, SpellsTo
<1>6. NumberOf(t, base) = g[n]
  <2> HIDE DEF g, t, k, n
  <2>1. t \in Seq(Int) /\ Len(t) = n
    BY <1>2
  <2>2. NumberOf(t, base) = g[Len(t)]
    BY <1>5, <2>1, NumberOfSpelt
  <2>3. QED
    BY <2>1, <2>2
<1>7. NumberOf(s, base) = f[Len(s)]
  BY <1>1, NumberOfSpelt
<1>8. QED
  BY <1>3, <1>6, <1>7
-----------------------------------------------------------------------------
(* The digits of a number.                                                 *)

Digit(base) == 0..(base - 1)

\* Division by the base.
LEMMA Division ==
  ASSUME NEW x \in Nat, NEW base \in Nat, base > 1
  PROVE  /\ x \div base \in Nat /\ x % base \in Digit(base)
         /\ (x \div base) * base + (x % base) = x
         /\ x > 0 => x \div base < x
  BY Z3 DEF Digit

LEMMA DivisionIs ==
  ASSUME NEW q \in Nat, NEW base \in Nat, base > 1, NEW r \in Digit(base)
  PROVE  /\ q * base + r \in Nat
         /\ (q * base + r) \div base = q
         /\ (q * base + r) % base = r
  BY Z3 DEF Digit

\* f is what DigitsOf computes of the numbers up to n.
Writes(f, n, base) ==
  /\ f \in [0..n -> Seq(Digit(base))] /\ f[0] = <<>>
  /\ \A y \in 1..n : f[y] = Append(f[y \div base], y % base)

LEMMA WritesExists ==
  ASSUME NEW x \in Nat, NEW base \in Nat, base > 1
  PROVE  \E f : Writes(f, x, base)
<1> DEFINE T == {n \in Nat : ~ \E f : Writes(f, n, base)}
<1>1. ASSUME NEW n \in T, \A m \in T : n <= m
      PROVE  FALSE
  <2>1. n # 0
    <3>1. <<>> \in Seq(Digit(base))
      OBVIOUS
    <3>2. Writes([i \in 0..0 |-> <<>>], 0, base)
      BY <3>1 DEF Writes
    <3>3. QED
      BY <3>2
  <2>2. n \in Nat /\ n - 1 \in Nat /\ ~(n <= n - 1)
    BY <2>1
  <2>3. PICK f : Writes(f, n - 1, base)
    BY <1>1, <2>2
  <2>4. n \div base \in 0..(n - 1) /\ n % base \in Digit(base)
    <3>1. n > 0
      BY <2>2
    <3>2. n \div base \in Nat /\ n \div base < n /\ n % base \in Digit(base)
      BY <2>2, <3>1, Division
    <3>3. QED
      BY <2>2, <3>2
  <2> DEFINE last == Append(f[n \div base], n % base)
             g == [y \in 0..n |-> IF y = n THEN last ELSE f[y]]
  <2>5. f \in [0..(n - 1) -> Seq(Digit(base))] /\ last \in Seq(Digit(base))
    BY <2>3, <2>4 DEF Writes
  <2>6. g \in [0..n -> Seq(Digit(base))] /\ g[0] = <<>>
    <3> HIDE DEF last
    <3>1. QED
      BY <2>1, <2>2, <2>3, <2>5 DEF Writes
  <2>7. ASSUME NEW y \in 1..n
        PROVE  g[y] = Append(g[y \div base], y % base)
    <3>1. y \div base \in 0..n /\ y \div base < y
      BY <2>2, Division
    <3>2. g[y \div base] = f[y \div base]
      BY <2>2, <3>1
    <3>3. CASE y = n
      <4>1. g[y] = last
        BY <2>2, <3>3
      <4>2. QED
        BY <3>2, <3>3, <4>1
    <3>4. CASE y # n
      <4>1. y \in 1..(n - 1) /\ g[y] = f[y]
        BY <2>2, <3>4
      <4>2. f[y] = Append(f[y \div base], y % base)
        BY <2>3, <4>1 DEF Writes
      <4>3. QED
        BY <3>2, <4>1, <4>2
    <3>5. QED
      BY <3>3, <3>4
  <2>8. Writes(g, n, base)
    <3> HIDE DEF g
    <3>1. QED
      BY <2>6, <2>7 DEF Writes
  <2>9. QED
    BY <2>8
<1>2. T = {}
  <2>1. T \in SUBSET Nat
    OBVIOUS
  <2> HIDE DEF T
  <2>2. QED
    BY <1>1, <2>1, LeastNat
<1>3. QED
  BY <1>2

LEMMA DigitsOfWritten ==
  ASSUME NEW x \in Nat, NEW base \in Nat, base > 1, NEW f, Writes(f, x, base)
  PROVE  DigitsOf(x, base) = f[x]
<1> DEFINE IsIt(g) == g = [y \in 0..x |->
                             IF y = 0 THEN <<>> ELSE Append(g[y \div base], y % base)]
<1>1. IsIt(f)
  <2>1. ASSUME NEW y \in 0..x
        PROVE  f[y] = IF y = 0 THEN <<>> ELSE Append(f[y \div base], y % base)
    <3>1. y = 0 \/ y \in 1..x
      OBVIOUS
    <3>2. QED
      BY <3>1 DEF Writes
  <2>2. f = [y \in 0..x |-> f[y]]
    BY DEF Writes
  <2>3. QED
    BY <2>1, <2>2
<1>2. ASSUME NEW g, IsIt(g)
      PROVE  g = f
  <2> DEFINE T == {y \in 0..x : g[y] # f[y]}
  <2>1. ASSUME NEW n \in T, \A m \in T : n <= m
        PROVE  FALSE
    <3>1. n # 0 /\ n \in 0..x /\ n \in Nat
      BY <1>1, <1>2
    <3>2. n \div base \in 0..x /\ ~(n <= n \div base)
      BY <3>1, Division
    <3>3. g[n \div base] = f[n \div base]
      BY <2>1, <3>2
    <3>4. /\ g[n] = Append(g[n \div base], n % base)
          /\ f[n] = Append(f[n \div base], n % base)
      BY <1>1, <1>2, <3>1
    <3>5. QED
      BY <3>3, <3>4
  <2>2. T = {}
    <3>1. T \in SUBSET Nat
      OBVIOUS
    <3> HIDE DEF T
    <3>2. QED
      BY <2>1, <3>1, LeastNat
  <2>3. \A y \in 0..x : g[y] = f[y]
    BY <2>2
  <2>4. g = [y \in 0..x |-> g[y]] /\ f = [y \in 0..x |-> f[y]]
    BY <1>1, <1>2
  <2>5. QED
    BY <2>3, <2>4
<1>3. f = CHOOSE g : IsIt(g)
  <2> HIDE DEF IsIt
  <2>1. QED
    BY <1>1, <1>2
<1>4. QED
  BY <1>3 DEF DigitsOf

\* The equation of DigitsOf.
LEMMA DigitsOfIs ==
  ASSUME NEW x \in Nat, NEW base \in Nat, base > 1
  PROVE  /\ DigitsOf(x, base) \in Seq(Digit(base))
         /\ x = 0 => DigitsOf(x, base) = <<>>
         /\ x > 0 => DigitsOf(x, base)
                       = Append(DigitsOf(x \div base, base), x % base)
<1>1. PICK f : Writes(f, x, base)
  BY WritesExists
<1>2. DigitsOf(x, base) = f[x]
  BY <1>1, DigitsOfWritten
<1>3. ASSUME x > 0
      PROVE  DigitsOf(x \div base, base) = f[x \div base]
  <2> DEFINE q == x \div base
             g == [y \in 0..q |-> f[y]]
  <2>1. q \in Nat /\ q < x
    BY <1>3, Division
  <2>2. g \in [0..q -> Seq(Digit(base))] /\ g[0] = <<>> /\ g[q] = f[q]
    <3> HIDE DEF q
    <3>1. QED
      BY <1>1, <2>1 DEF Writes
  <2>3. ASSUME NEW y \in 1..q
        PROVE  g[y] = Append(g[y \div base], y % base)
    <3> HIDE DEF q
    <3>1. y \div base \in 0..q /\ y \in 1..x
      BY <2>1, Division
    <3>2. f[y] = Append(f[y \div base], y % base)
      BY <1>1, <3>1 DEF Writes
    <3>3. QED
      BY <3>1, <3>2
  <2>4. Writes(g, q, base)
    <3> HIDE DEF g, q
    <3>1. QED
      BY <2>2, <2>3 DEF Writes
  <2>5. DigitsOf(q, base) = g[q]
    <3> HIDE DEF g, q
    <3>1. QED
      BY <2>1, <2>4, DigitsOfWritten
  <2>6. QED
    BY <2>2, <2>5
<1>4. x > 0 => f[x] = Append(f[x \div base], x % base)
  <2>1. x > 0 => x \in 1..x
    OBVIOUS
  <2>2. QED
    BY <1>1, <2>1 DEF Writes
<1>5. f[x] \in Seq(Digit(base)) /\ f[0] = <<>>
  BY <1>1 DEF Writes
<1>6. QED
  BY <1>2, <1>3, <1>4, <1>5

-----------------------------------------------------------------------------
(* Reading what was written, and writing what was read.                    *)

\* A number's digits spell it, and do not begin with a zero.
LEMMA NumberOfDigits ==
  ASSUME NEW x \in Nat, NEW base \in Nat, base > 1
  PROVE  /\ NumberOf(DigitsOf(x, base), base) = x
         /\ x > 0 => DigitsOf(x, base) # <<>> /\ DigitsOf(x, base)[1] # 0
<1> DEFINE P(n) == /\ NumberOf(DigitsOf(n, base), base) = n
                   /\ n > 0 => DigitsOf(n, base) # <<>> /\ DigitsOf(n, base)[1] # 0
           T == {n \in Nat : ~P(n)}
<1>1. ASSUME NEW n \in T, \A m \in T : n <= m
      PROVE  FALSE
  <2>1. n # 0
    BY DigitsOfIs, NumberOfNone
  <2>2. n \in Nat /\ n > 0
    BY <2>1
  <2> DEFINE q == n \div base
             r == n % base
             s == DigitsOf(q, base)
  <2>3. q \in Nat /\ r \in Digit(base) /\ q * base + r = n /\ ~(n <= q)
    BY <2>2, Division
  <2>4. P(q)
    BY <1>1, <2>3
  <2>5. s \in Seq(Digit(base)) /\ DigitsOf(n, base) = Append(s, r)
    BY <2>2, <2>3, DigitsOfIs
  <2>6. NumberOf(DigitsOf(n, base), base) = n
    <3>1. s \in Seq(Int) /\ r \in Int
      BY <2>3, <2>5 DEF Digit
    <3>2. NumberOf(Append(s, r), base) = NumberOf(s, base) * base + r
      BY <3>1, NumberOfAppend
    <3>3. QED
      BY <2>3, <2>4, <2>5, <3>2
  <2>7. DigitsOf(n, base) # <<>> /\ DigitsOf(n, base)[1] # 0
    <3>1. CASE q = 0
      <4>1. s = <<>> /\ r = n
        BY <2>3, <3>1, DigitsOfIs
      <4>2. QED
        BY <2>2, <2>5, <4>1
    <3>2. CASE q # 0
      <4>1. s # <<>> /\ s[1] # 0
        BY <2>3, <2>4, <3>2
      <4>2. QED
        BY <2>5, <4>1
    <3>3. QED
      BY <3>1, <3>2
  <2>8. QED
    BY <2>6, <2>7
<1>2. T = {}
  <2>1. T \in SUBSET Nat
    OBVIOUS
  <2> HIDE DEF T
  <2>2. QED
    BY <1>1, <2>1, LeastNat
<1>3. QED
  BY <1>2
\* Digits without leading zeros are those of the number they spell.
LEMMA DigitsOfNumber ==
  ASSUME NEW base \in Nat, base > 1, NEW s \in Seq(Digit(base)),
         s # <<>> => s[1] # 0
  PROVE  /\ NumberOf(s, base) \in Nat
         /\ s # <<>> => NumberOf(s, base) > 0
         /\ DigitsOf(NumberOf(s, base), base) = s
<1> DEFINE P(d) == /\ NumberOf(d, base) \in Nat
                   /\ d # <<>> => NumberOf(d, base) > 0
                   /\ DigitsOf(NumberOf(d, base), base) = d
           Q(n) == \A d \in Seq(Digit(base)) :
                     Len(d) = n /\ (d # <<>> => d[1] # 0) => P(d)
           T == {n \in Nat : ~Q(n)}
<1>1. ASSUME NEW n \in T, \A m \in T : n <= m
      PROVE  FALSE
  <2>1. PICK d \in Seq(Digit(base)) :
          Len(d) = n /\ (d # <<>> => d[1] # 0) /\ ~P(d)
    OBVIOUS
  <2>2. d # <<>>
    <3>1. P(<<>>)
      <4>1. NumberOf(<<>>, base) = 0
        BY NumberOfNone
      <4>2. DigitsOf(0, base) = <<>>
        BY DigitsOfIs
      <4>3. QED
        BY <4>1, <4>2
    <3>2. QED
      BY <2>1, <3>1
  <2>3. n \in Nat /\ n > 0
    BY <2>1, <2>2
  <2> DEFINE t == [i \in 1..(n - 1) |-> d[i]]
             x == d[n]
             N == NumberOf(t, base)
  <2>4. /\ t \in Seq(Digit(base)) /\ Len(t) = n - 1
        /\ x \in Digit(base) /\ d = Append(t, x)
        /\ t # <<>> => t[1] = d[1]
        /\ t = <<>> => x = d[1]
    <3>1. /\ n - 1 \in Nat /\ n \in 1..n /\ d \in [1..n -> Digit(base)]
          /\ \A i \in 1..(n - 1) : i \in 1..n
      BY <2>1, <2>3
    <3>2. t \in Seq(Digit(base)) /\ Len(t) = n - 1 /\ x \in Digit(base)
      BY <3>1
    <3>3. \A i \in 1..(n - 1) : t[i] = d[i]
      OBVIOUS
    <3> HIDE DEF t, x
    <3>4. /\ t # <<>> => t[1] = d[1]
          /\ t = <<>> => n = 1
      BY <2>3, <3>1, <3>2, <3>3
    <3> DEFINE u == Append(t, x)
    <3>5. /\ u \in Seq(Digit(base)) /\ Len(u) = n /\ u[n] = x
          /\ \A i \in 1..(n - 1) : u[i] = t[i]
      BY <2>3, <3>1, <3>2
    <3> HIDE DEF u
    <3>6. \A i \in 1..n : u[i] = d[i]
      <4>1. \A i \in 1..n : i \in 1..(n - 1) \/ i = n
        BY <2>3
      <4>2. QED
        BY <3>3, <3>5, <4>1 DEF x
    <3>7. u = [i \in 1..n |-> u[i]] /\ d = [i \in 1..n |-> d[i]]
      BY <3>1, <3>5
    <3>8. u = d
      BY <3>6, <3>7
    <3>9. QED
      BY <3>2, <3>4, <3>8 DEF u, x
  <2>5. N \in Nat /\ (t # <<>> => N > 0) /\ DigitsOf(N, base) = t
    <3>1. n - 1 \in Nat /\ ~(n <= n - 1)
      BY <2>3
    <3>2. Q(n - 1)
      BY <1>1, <3>1
    <3> HIDE DEF t
    <3>3. QED
      BY <2>1, <2>2, <2>4, <3>2
  <2>6. NumberOf(d, base) = N * base + x
    <3>1. t \in Seq(Int) /\ x \in Int
      BY <2>4 DEF Digit
    <3> HIDE DEF t, x
    <3>2. QED
      BY <2>4, <3>1, NumberOfAppend
  <2> HIDE DEF t, x, N
  <2>7. N * base + x \in Nat /\ (N * base + x) \div base = N
        /\ (N * base + x) % base = x
    BY <2>4, <2>5, DivisionIs
  <2>8. N * base + x > 0
    <3>1. CASE N > 0
      BY <2>4, <2>5, <2>7, <3>1, Division
    <3>2. CASE N = 0
      <4>1. x # 0
        BY <2>1, <2>2, <2>4, <2>5, <3>2
      <4>2. QED
        BY <2>4, <3>2, <4>1 DEF Digit
    <3>3. QED
      BY <2>5, <3>1, <3>2
  <2>9. DigitsOf(N * base + x, base) = d
    BY <2>4, <2>5, <2>7, <2>8, DigitsOfIs
  <2>10. QED
    BY <2>1, <2>6, <2>7, <2>8, <2>9
<1>2. T = {}
  <2>1. T \in SUBSET Nat
    OBVIOUS
  <2> HIDE DEF T
  <2>2. QED
    BY <1>1, <2>1, LeastNat
<1>3. Q(Len(s))
  BY <1>2
<1>4. QED
  BY <1>3

\* Leading zeros, and what comes after them.
LEMMA ZerosLead ==
  ASSUME NEW S, 0 \in S, NEW s \in Seq(S), ~RunsOff(s)
  PROVE  /\ LeadingZeros(s) \in Seq(S) /\ RunsOff(LeadingZeros(s))
         /\ \E t \in Seq(S) : t # <<>> /\ t[1] # 0 /\ s = LeadingZeros(s) \o t
<1> DEFINE First(i) == s[i] # 0 /\ \A j \in 1..(i - 1) : s[j] = 0
           T == {i \in DOMAIN s : s[i] # 0}
<1>1. \E i \in DOMAIN s : First(i)
  <2>1. T \in SUBSET Nat /\ T # {}
    BY DEF RunsOff
  <2>2. PICK i \in T : \A m \in T : i <= m
    <3> HIDE DEF T
    <3>1. QED
      BY <2>1, LeastNat
  <2>3. \A j \in 1..(i - 1) : j \in DOMAIN s /\ j \notin T
    BY <2>2
  <2>4. QED
    BY <2>2, <2>3
<1> DEFINE first == CHOOSE i \in DOMAIN s : First(i)
<1>2. first \in DOMAIN s /\ First(first)
  <2> HIDE DEF First
  <2>1. QED
    BY <1>1
<1>3. LeadingZeros(s) = SubSeq(s, 1, first - 1)
  BY DEF LeadingZeros
<1> HIDE DEF first
<1> DEFINE z == SubSeq(s, 1, first - 1)
           t == SubSeq(s, first, Len(s))
<1>4. /\ z \in Seq(S) /\ Len(z) = first - 1
      /\ \A i \in 1..(first - 1) : z[i] = s[i]
  BY <1>2
<1>5. /\ t \in Seq(S) /\ Len(t) = Len(s) - first + 1
      /\ \A i \in 1..(Len(s) - first + 1) : t[i] = s[first + i - 1]
  BY <1>2
<1>6. RunsOff(z)
  BY <1>2, <1>4 DEF RunsOff
<1>7. t # <<>> /\ t[1] # 0
  BY <1>2, <1>5
<1>8. s = z \o t
  <2> HIDE DEF z, t
  <2>1. first \in 1..Len(s) /\ Len(s) \in Nat
    BY <1>2
  <2> DEFINE u == z \o t
  <2>2. /\ u \in Seq(S) /\ Len(u) = Len(s)
        /\ \A i \in 1..(first - 1) : u[i] = z[i]
        /\ \A i \in first..Len(s) : u[i] = t[i - (first - 1)]
    BY <1>4, <1>5, <2>1
  <2> HIDE DEF u
  <2>3. ASSUME NEW i \in 1..Len(s)
        PROVE  u[i] = s[i]
    <3>1. CASE i < first
      BY <1>4, <2>1, <2>2, <3>1
    <3>2. CASE i >= first
      <4>1. i - (first - 1) \in 1..(Len(s) - first + 1)
        BY <2>1, <3>2
      <4>2. t[i - (first - 1)] = s[first + (i - (first - 1)) - 1]
        BY <1>5, <4>1
      <4>3. first + (i - (first - 1)) - 1 = i
        BY <2>1
      <4>4. QED
        BY <2>1, <2>2, <3>2, <4>2, <4>3
    <3>3. QED
      BY <2>1, <3>1, <3>2
  <2>4. u = [i \in 1..Len(s) |-> u[i]] /\ s = [i \in 1..Len(s) |-> s[i]]
    BY <2>2
  <2>5. u = s
    BY <2>3, <2>4
  <2>6. QED
    BY <2>5 DEF u
<1>9. QED
  BY <1>3, <1>4, <1>5, <1>6, <1>7, <1>8

LEMMA LeadingZerosAre ==
  ASSUME NEW S, NEW z \in Seq(S), NEW t \in Seq(S), RunsOff(z),
         t # <<>>, t[1] # 0
  PROVE  LeadingZeros(z \o t) = z /\ ~RunsOff(z \o t)
<1> DEFINE s == z \o t
           n == Len(z) + 1
           First(i) == s[i] # 0 /\ \A j \in 1..(i - 1) : s[j] = 0
<1>1. /\ s \in Seq(S) /\ Len(s) = Len(z) + Len(t) /\ Len(t) \in Nat \ {0}
      /\ \A i \in 1..Len(z) : s[i] = z[i] /\ s[i] = 0
      /\ s[n] = t[1] /\ n \in DOMAIN s
  BY DEF RunsOff
<1> HIDE DEF s
<1>2. First(n)
  BY <1>1
<1>3. ASSUME NEW i \in DOMAIN s, First(i)
      PROVE  i = n
  <2>1. ~(i < n)
    BY <1>1, <1>3
  <2>2. ~(i > n)
    BY <1>1, <1>3
  <2>3. QED
    BY <1>1, <2>1, <2>2
<1>4. n = CHOOSE i \in DOMAIN s : First(i)
  <2> HIDE DEF First, n
  <2>1. QED
    BY <1>1, <1>2, <1>3
<1>5. LeadingZeros(s) = SubSeq(s, 1, n - 1)
  BY <1>4 DEF LeadingZeros
<1>6. SubSeq(s, 1, n - 1) = z
  BY <1>1
<1>7. ~RunsOff(s)
  BY <1>1 DEF RunsOff
<1>8. QED
  BY <1>5, <1>6, <1>7 DEF s

\* From one base into another and back.
Transcription(s, b, c) == LeadingZeros(s) \o DigitsOf(NumberOf(s, b), c)

LEMMA Transcribed ==
  ASSUME NEW b \in Nat, NEW c \in Nat, b > 1, c > 1,
         NEW s \in Seq(Digit(b)), ~RunsOff(s)
  PROVE  LET e == Transcription(s, b, c)
         IN /\ NumberOf(s, b) \in Nat
            /\ e \in Seq(Digit(c)) /\ ~RunsOff(e)
            /\ Transcription(e, c, b) = s
<1> DEFINE e == Transcription(s, b, c)
           z == LeadingZeros(s)
           N == NumberOf(s, b)
           d == DigitsOf(N, c)
<1>0. 0 \in Digit(b) /\ 0 \in Digit(c)
  BY DEF Digit
<1>1. PICK t \in Seq(Digit(b)) : t # <<>> /\ t[1] # 0 /\ s = z \o t
  BY <1>0, ZerosLead
<1>2. z \in Seq(Digit(b)) /\ RunsOff(z)
  BY <1>0, ZerosLead
<1> HIDE DEF e, z, N, d
<1>3. z \in Seq(Int) /\ t \in Seq(Int)
  BY <1>1, <1>2 DEF Digit
<1>4. N = NumberOf(t, b)
  BY <1>1, <1>2, <1>3, NumberOfPadded DEF RunsOff, N
<1>5. N \in Nat /\ N > 0 /\ DigitsOf(N, b) = t
  BY <1>1, <1>4, DigitsOfNumber
<1>6. /\ d \in Seq(Digit(c)) /\ d # <<>> /\ d[1] # 0
      /\ NumberOf(d, c) = N
  BY <1>5, DigitsOfIs, NumberOfDigits DEF d
<1>7. z \in Seq(Digit(c))
  <2>1. z = [i \in 1..Len(z) |-> 0]
    BY <1>2 DEF RunsOff
  <2>2. [i \in 1..Len(z) |-> 0] \in Seq(Digit(c))
    BY <1>0, <1>2
  <2>3. QED
    BY <2>1, <2>2
<1>8. e = z \o d
  BY DEF e, z, d, N, Transcription
<1>9. LeadingZeros(e) = z /\ ~RunsOff(e)
  BY <1>2, <1>6, <1>7, <1>8, LeadingZerosAre
<1>10. NumberOf(e, c) = N
  <2>1. d \in Seq(Int)
    BY <1>6 DEF Digit
  <2>2. QED
    BY <1>2, <1>3, <1>6, <1>8, <2>1, NumberOfPadded DEF RunsOff
<1>11. e \in Seq(Digit(c))
  BY <1>6, <1>7, <1>8
<1>12. QED
  BY <1>1, <1>5, <1>9, <1>10, <1>11 DEF N, e, Transcription
-----------------------------------------------------------------------------
(* Addresses.                                                              *)

\* What is encoded reads back as itself, and what is a spelling is the one its
\* bytes encode to.
LEMMA DecodeEncode ==
  ASSUME NEW s \in Seq(Digit(Byte)), ~RunsOff(s)
  PROVE  /\ Base58Encode(s) \in Seq(Digit(Base)) /\ ~RunsOff(Base58Encode(s))
         /\ Base58Decode(Base58Encode(s)) = s
<1> DEFINE e == Base58Encode(s)
<1>1. e = Transcription(s, Byte, Base)
  BY DEF Base58Encode, Transcription
<1>2. Base \in Nat /\ Byte \in Nat /\ Base > 1 /\ Byte > 1
  BY DigitsAssumption
<1> HIDE DEF e
<1>3. /\ e \in Seq(Digit(Base)) /\ ~RunsOff(e)
      /\ Transcription(e, Base, Byte) = s
  BY <1>1, <1>2, Transcribed
<1>4. NumberOf(e, Base) \in Nat
  BY <1>2, <1>3, Transcribed
<1>5. Magnitude(NumberOf(e, Base)) = NumberOf(e, Base)
  BY <1>4 DEF Magnitude
<1>6. QED
  BY <1>3, <1>5 DEF Base58Decode, Transcription, e

LEMMA EncodeDecode ==
  ASSUME NEW s \in Seq(Digit(Base)), ~RunsOff(s)
  PROVE  Base58Encode(Base58Decode(s)) = s
<1> DEFINE e == Base58Decode(s)
<1>1. Base \in Nat /\ Byte \in Nat /\ Base > 1 /\ Byte > 1
  BY DigitsAssumption
<1>2. NumberOf(s, Base) \in Nat
  BY <1>1, Transcribed
<1>3. Magnitude(NumberOf(s, Base)) = NumberOf(s, Base)
  BY <1>2 DEF Magnitude
<1>4. e = Transcription(s, Base, Byte)
  BY <1>3 DEF Base58Decode, Transcription
<1> HIDE DEF e
<1>5. Transcription(e, Byte, Base) = s
  BY <1>1, <1>4, Transcribed
<1>6. QED
  BY <1>5 DEF Base58Encode, Transcription, e

\* An owner's address.
LEMMA OwnAddress ==
  ASSUME NEW h \in Hashes, NEW a, a = AddressFor(h)
  PROVE  /\ IsValid(a) /\ SubSeq(Base58Decode(a), 2, Len(h) + 1) = h
         /\ Base58Encode(Base58Decode(a)) = a
<1> DEFINE payload == <<Version>> \o h
           sum == Checksum(payload)
           bytes == payload \o sum
<1>1. /\ bytes \in Seq(Digit(Byte)) /\ h \in Seq(Digit(Byte))
      /\ Len(sum) = ChecksumLen /\ ~RunsOff(bytes)
  BY HashesAssumption DEF Digit
<1>2. a = Base58Encode(bytes)
  BY DEF AddressFor
<1> HIDE DEF sum
<1>3. /\ a \in Seq(Digit(Base)) /\ ~RunsOff(a) /\ Base58Decode(a) = bytes
  <2> HIDE DEF bytes
  <2>1. QED
    BY <1>1, <1>2, DecodeEncode
<1>4. a # <<>>
  BY <1>3 DEF RunsOff
<1>5. Len(bytes) = Len(h) + 1 + ChecksumLen
  BY <1>1
<1>6. SubSeq(bytes, 2, Len(h) + 1) = h
  BY <1>1, <1>5, ChecksumAssumption
<1>7. SubSeq(bytes, 1, Len(bytes) - ChecksumLen) = payload
  BY <1>1, <1>5, ChecksumAssumption
<1>8. Len(bytes) > ChecksumLen
  BY <1>1, <1>5, ChecksumAssumption
<1>9. IsValid(a)
  <2> HIDE DEF bytes, payload
  <2>1. bytes = payload \o Checksum(payload)
    BY DEF bytes, sum
  <2>2. QED
    BY <1>3, <1>4, <1>7, <1>8, <2>1 DEF IsValid
<1>10. QED
  BY <1>2, <1>3, <1>6, <1>9

\* The address of a name is an owner's for good.
Owned == address \in {AddressFor(h) : h \in Hashes}

LEMMA AddressStays == Spec => []Owned
<1>1. Init => Owned
  BY DEF Init, Owned
<1>2. Owned /\ [Next]_vars => Owned'
  <2>1. [Next]_vars => address' = address
    BY DEF Next, Step, Begin, Store, Lookup, LookupFails, Mkdir, Unlink,
           UnlinkFails, Flush, FlushFails, Put, PutFails, AddFails, Return,
           Save, Crash, vars
  <2>2. QED
    BY <2>1 DEF Owned
<1>3. QED
  BY <1>1, <1>2, PTL DEF Spec

\* Whoever has keys has an address that every peer's name check accepts and that
\* reads back as the version, the hash and the checksum, whatever the alphabet,
\* the bytes, the hash and its leading zeros.
THEOREM OwnAddressesValid == Spec => []OwnAddressIsValid
<1>1. Owned => OwnAddressIsValid
  BY OwnAddress DEF Owned, OwnAddressIsValid
<1>2. QED
  BY <1>1, AddressStays, PTL

\* No other string of letters that passes the name check spells an owner's
\* address.
THEOREM AddressesHaveOneSpelling == Spec => []AddressHasOneSpelling
<1>1. ASSUME Owned, NEW a \in Spellings, IsValid(a),
             Base58Decode(a) = Base58Decode(address)
      PROVE  a = address
  <2>1. a \in Seq(Digit(Base)) /\ ~RunsOff(a)
    BY <1>1, SpellingsAssumption DEF Digit, IsValid
  <2>2. Base58Encode(Base58Decode(a)) = a
    BY <2>1, EncodeDecode
  <2>3. Base58Encode(Base58Decode(address)) = address
    BY <1>1, OwnAddress DEF Owned
  <2>4. QED
    BY <1>1, <2>2, <2>3
<1>2. Owned => AddressHasOneSpelling
  BY <1>1 DEF AddressHasOneSpelling
<1>3. QED
  BY <1>2, AddressStays, PTL

-----------------------------------------------------------------------------
(* Key pairs and signatures.                                               *)

\* A number behind its padding has the width, and is read back.
LEMMA PaddedNumber ==
  ASSUME NEW x \in Numbers
  PROVE  LET padded == LeftPadBytes(Bytes(x), Width)
         IN /\ padded \in Seq(Int) /\ Len(padded) = Width
            /\ NumberOf(padded, Byte) = x
<1> DEFINE d == Bytes(x)
           z == [i \in 1..(Width - Len(d)) |-> 0]
<1>1. x \in Nat /\ Byte \in Nat /\ Byte > 1 /\ Width \in Nat /\ Len(d) <= Width
  BY NumbersAssumption, DigitsAssumption, WidthAssumption, FitAssumption
<1>2. d \in Seq(Int) /\ NumberOf(d, Byte) = x
  <2>1. d \in Seq(Digit(Byte)) /\ NumberOf(d, Byte) = x
    BY <1>1, DigitsOfIs, NumberOfDigits DEF Bytes
  <2> HIDE DEF d
  <2>2. QED
    BY <1>1, <2>1 DEF Digit
<1>3. LeftPadBytes(d, Width) = z \o d
  BY DEF LeftPadBytes
<1> HIDE DEF d
<1>4. z \in Seq(Int) /\ Len(z) = Width - Len(d) /\ \A i \in DOMAIN z : z[i] = 0
  BY <1>1, <1>2
<1> HIDE DEF z
<1>5. z \o d \in Seq(Int) /\ Len(z \o d) = Width
  BY <1>1, <1>2, <1>4
<1>6. NumberOf(z \o d, Byte) = x
  BY <1>1, <1>2, <1>4, NumberOfPadded
<1>7. QED
  BY <1>3, <1>5, <1>6 DEF d

LEMMA HalvesOfPair ==
  ASSUME NEW x \in Numbers, NEW y \in Numbers
  PROVE  Halves(Pair(<<x, y>>)) = <<x, y>>
<1> DEFINE p == LeftPadBytes(Bytes(x), Width)
           q == LeftPadBytes(Bytes(y), Width)
<1>1. p \in Seq(Int) /\ Len(p) = Width /\ NumberOf(p, Byte) = x
  BY PaddedNumber
<1>2. q \in Seq(Int) /\ Len(q) = Width /\ NumberOf(q, Byte) = y
  BY PaddedNumber
<1>3. Pair(<<x, y>>) = p \o q
  BY DEF Pair
<1> HIDE DEF p, q
<1>4. Width \in Nat /\ Len(p \o q) = Width + Width
  BY <1>1, <1>2, WidthAssumption
<1>5. Len(p \o q) \div 2 = Width
  BY <1>4
<1>6. SubSeq(p \o q, 1, Width) = p
  BY <1>1, <1>2, <1>4
<1>7. SubSeq(p \o q, Width + 1, Width + Width) = q
  BY <1>1, <1>2, <1>4
<1>8. QED
  BY <1>1, <1>2, <1>3, <1>4, <1>5, <1>6, <1>7 DEF Halves

\* A message signed with an owner's keys as read back carries the public key its
\* address was made from and passes a reader's check, whatever numbers the key
\* pair and the signature come to and however many zero bytes they begin with.
THEOREM OwnSignaturesVerify == Spec => []OwnSignatureVerifies
<1>1. OwnSignatureVerifies
  <2> SUFFICES ASSUME NEW d \in Numbers, NEW x \in Numbers, NEW y \in Numbers,
                      NEW r \in Numbers, NEW s \in Numbers
               PROVE  LET keys == NewKeyPair(d, <<x, y>>)
                          key == ToEcdsaPrivateKey(keys)
                          message == SignWithKey(key, <<r, s>>)
                      IN /\ key = [d |-> d, point |-> <<x, y>>]
                         /\ message.public = keys.public
                         /\ VerifySignature(message, key.point, <<r, s>>)
    BY DEF OwnSignatureVerifies
  <2>1. NumberOf(Bytes(d), Byte) = d
    BY NumbersAssumption, DigitsAssumption, NumberOfDigits DEF Bytes
  <2>2. Halves(Pair(<<x, y>>)) = <<x, y>> /\ Halves(Pair(<<r, s>>)) = <<r, s>>
    BY HalvesOfPair
  <2>3. ToEcdsaPrivateKey(NewKeyPair(d, <<x, y>>))
          = [d |-> d, point |-> <<x, y>>]
    BY <2>1, <2>2 DEF ToEcdsaPrivateKey, NewKeyPair
  <2>4. QED
    BY <2>2, <2>3 DEF NewKeyPair, SignWithKey, VerifySignature
<1>2. QED
  BY <1>1, PTL
=============================================================================
