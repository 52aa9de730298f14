------------------------------ MODULE Backend ------------------------------
(***************************************************************************)
(* The backends of package resolver: Adds of one name by several callers.  *)
(* The memory backend stores into a map, Bolt commits a transaction, and   *)
(* the IPFS backend goes through the node's MFS file tree in steps that    *)
(* nothing keeps together: look the name up, make its directory, unlink    *)
(* the old entry and put the new one.                                      *)
(*                                                                         *)
(* Every name the Dag uses has an MFS directory of its own.  MFS keeps     *)
(* entries in memory; flushing a directory writes it into the tree, and    *)
(* the tree's root is saved a while later.                                 *)
(***************************************************************************)
EXTENDS Keys

CONSTANTS
  Client,     \* callers of Add
  Hashes,     \* hashes of public keys, one of which owns the name
  Spellings,  \* strings of letters that may stand for an address
  MaxAdds,    \* bound: calls of Add, each with a value of its own
  MaxFaults,  \* bound: operations that fail
  MaxCrashes  \* bound: ends of the process

ASSUME BoundsAssumption == {MaxAdds, MaxFaults, MaxCrashes} \subseteq Nat

\* Hashes and checksums are bytes.  Not all of them are zero: generateAddressHash
\* would run off the end of such a payload and checksum.
ASSUME HashesAssumption ==
  \A h \in Hashes :
    LET payload == <<Version>> \o h
        bytes == payload \o Checksum(payload)
    IN /\ bytes \in Seq(0..(Byte - 1)) /\ h \in Seq(0..(Byte - 1))
       /\ Len(Checksum(payload)) = ChecksumLen
       /\ ~RunsOff(bytes)
ASSUME SpellingsAssumption == Spellings \subseteq Seq(0..(Base - 1))

VARIABLES
  kind,     \* which backend it is
  address,  \* the address component of the name
  entry,    \* the name's value: in the map, in the bucket, in the directory
  flushed,  \* the value in the tree as last flushed
  saved,    \* the value a restart finds
  add,      \* the Add each caller is in
  faults,   \* operations that have failed
  crashes,  \* times the process has ended
  begun,    \* history: calls of Add; the n-th adds the value n
  acked,    \* history: values whose Add has returned no error
  before,   \* history: value -> the values acked when its Add began
  held,     \* history: values the name has had
  swallowed,\* history: errors of Lookup and PutNode no caller was told of
  passed,   \* history: callers in an Add during which a value was put
  deaf,     \* history: callers in an Add that ignored a Lookup's or Flush's error
  stands,   \* history: values whose Add returned no error and ignored none, and
            \* which no crash has undone
  lasting   \* history: those of stands that the tree had when it was last saved

vars == <<kind, address, entry, flushed, saved, add, faults, crashes, begun,
          acked, before, held, swallowed, passed, deaf, stands, lasting>>

\* The Adds a restart finds done.
standing == <<stands, lasting>>

NoValue == 0
Value == 1..MaxAdds

Idle == [pc |-> "idle"]

\* exists: filesExists.
Add == [pc : {"lookup", "mkdir", "unlink", "flush", "put", "store", "return"},
        value : Value, exists : BOOLEAN]

Init ==
  /\ kind \in {"memory", "bolt", "ipfs"}
  /\ address \in {AddressFor(h) : h \in Hashes}
  /\ entry = NoValue /\ flushed = NoValue /\ saved = NoValue
  /\ add = [c \in Client |-> Idle]
  /\ faults = 0 /\ crashes = 0 /\ begun = 0 /\ swallowed = 0
  /\ acked = {} /\ held = {} /\ passed = {}
  /\ before = [v \in Value |-> {}]
  /\ deaf = {} /\ stands = {} /\ lasting = {}

GoTo(c, pc) == add' = [add EXCEPT ![c].pc = pc]

Ends(c) ==
  /\ add' = [add EXCEPT ![c] = Idle]
  /\ passed' = passed \ {c}
  /\ deaf' = deaf \ {c}

\* The name gets c's value, and every Add under way has seen one put.
Write(c) ==
  /\ entry' = add[c].value
  /\ held' = held \cup {entry'}
  /\ passed' = {d \in Client : add[d] # Idle}
  /\ GoTo(c, "return")

Fault == faults < MaxFaults /\ faults' = faults + 1

-----------------------------------------------------------------------------
\* The resolver lets a valid name through.
Begin(c) ==
  /\ add[c] = Idle
  /\ IsValid(address)
  /\ begun < MaxAdds
  /\ begun' = begun + 1
  /\ before' = [before EXCEPT ![begun + 1] = acked]
  /\ add' = [add EXCEPT ![c] =
       [pc |-> IF kind = "ipfs" THEN "lookup" ELSE "store",
        value |-> begun + 1, exists |-> FALSE]]
  /\ UNCHANGED <<kind, address, entry, flushed, saved, faults, crashes, acked,
                 held, swallowed, deaf, standing, passed>>

\* Mutated: a Bolt transaction is committed and not synced.
StoreUnsynced(c) ==
  /\ add[c].pc = "store"
  /\ Write(c)
  /\ UNCHANGED <<kind, address, flushed, saved, faults, crashes, begun, acked,
                 before, swallowed, deaf, standing>>

\* The map's Store, or Bolt's transaction: one step.
Store(c) ==
  /\ add[c].pc = "store"
  /\ Write(c)
  /\ IF kind = "bolt"
     THEN flushed' = entry' /\ saved' = entry'
     ELSE UNCHANGED <<flushed, saved>>
  /\ UNCHANGED <<kind, address, faults, crashes, begun, acked, before,
                 swallowed, deaf, standing>>

Lookup(c) ==
  /\ add[c].pc = "lookup"
  /\ add' = [add EXCEPT ![c] = [pc |-> "mkdir", value |-> add[c].value,
                                exists |-> entry # NoValue]]
  /\ UNCHANGED <<kind, address, entry, flushed, saved, faults, crashes, begun,
                 acked, before, held, swallowed, deaf, standing, passed>>

\* Any error is taken for "not there".
LookupFails(c) ==
  /\ add[c].pc = "lookup"
  /\ entry # NoValue
  /\ Fault
  /\ deaf' = deaf \cup {c}
  /\ swallowed' = swallowed + 1
  /\ passed' = passed \cup {c}
  /\ add' = [add EXCEPT ![c] = [pc |-> "mkdir", value |-> add[c].value,
                                exists |-> FALSE]]
  /\ UNCHANGED <<kind, address, entry, flushed, saved, crashes, begun, acked,
                 before, held, standing>>

\* Mutated: the entry is thought absent, so it is left for PutNode to trip on.
MkdirThenPut(c) ==
  /\ add[c].pc = "mkdir"
  /\ flushed' = entry
  /\ GoTo(c, "put")
  /\ UNCHANGED <<kind, address, entry, saved, faults, crashes, begun, acked,
                 before, held, swallowed, deaf, standing, passed>>

\* Mkdir flushes the directory, with what it holds, also when it is there.
Mkdir(c) ==
  /\ add[c].pc = "mkdir"
  /\ flushed' = entry
  /\ GoTo(c, IF add[c].exists THEN "unlink" ELSE "put")
  /\ UNCHANGED <<kind, address, entry, saved, faults, crashes, begun, acked,
                 before, held, swallowed, deaf, standing, passed>>

Unlink(c) ==
  /\ add[c].pc = "unlink"
  /\ entry # NoValue
  /\ entry' = NoValue
  /\ GoTo(c, "flush")
  /\ UNCHANGED <<kind, address, flushed, saved, faults, crashes, begun, acked,
                 before, held, swallowed, deaf, standing, passed>>

\* Another Add has unlinked the entry: this one returns the error.
UnlinkFails(c) ==
  /\ add[c].pc = "unlink"
  /\ entry = NoValue
  /\ Ends(c)
  /\ UNCHANGED <<kind, address, entry, flushed, saved, faults, crashes, begun,
                 acked, before, held, swallowed, standing>>

\* Mutated: the directory is not flushed without the entry.
FlushLeftOut(c) ==
  /\ add[c].pc = "flush"
  /\ GoTo(c, "put")
  /\ UNCHANGED <<kind, address, entry, flushed, saved, faults, crashes, begun,
                 acked, before, held, swallowed, deaf, standing, passed>>

\* Mutated: the new entry is put only when there was none.
FlushAndReturn(c) ==
  /\ add[c].pc = "flush"
  /\ flushed' = entry
  /\ GoTo(c, "return")
  /\ UNCHANGED <<kind, address, entry, saved, faults, crashes, begun, acked,
                 before, held, swallowed, deaf, standing, passed>>

Flush(c) ==
  /\ add[c].pc = "flush"
  /\ flushed' = entry
  /\ GoTo(c, "put")
  /\ UNCHANGED <<kind, address, entry, saved, faults, crashes, begun, acked,
                 before, held, swallowed, deaf, standing, passed>>

\* Mutated: the error of Flush is returned.
FlushFailsReturned(c) ==
  /\ add[c].pc = "flush"
  /\ Fault
  /\ Ends(c)
  /\ UNCHANGED <<kind, address, entry, flushed, saved, crashes, begun, acked,
                 before, held, swallowed, standing>>

\* The error of Flush is ignored.
FlushFails(c) ==
  /\ add[c].pc = "flush"
  /\ Fault
  /\ deaf' = deaf \cup {c}
  /\ GoTo(c, "put")
  /\ UNCHANGED <<kind, address, entry, flushed, saved, crashes, begun, acked,
                 before, held, swallowed, passed, standing>>

\* PutNode does not replace: an entry put meanwhile stays, and Add returns no
\* error.
Put(c) ==
  /\ add[c].pc = "put"
  /\ IF entry = NoValue
     THEN Write(c)
     ELSE GoTo(c, "return") /\ UNCHANGED <<entry, held, passed>>
  /\ UNCHANGED <<kind, address, flushed, saved, faults, crashes, begun, acked,
                 before, swallowed, deaf, standing>>

\* PutNode fails and Add returns no error.
PutFails(c) ==
  /\ add[c].pc = "put"
  /\ entry = NoValue
  /\ Fault
  /\ swallowed' = swallowed + 1
  /\ passed' = passed \cup {c}
  /\ GoTo(c, "return")
  /\ UNCHANGED <<kind, address, entry, flushed, saved, crashes, begun, acked,
                 before, held, deaf, standing>>

\* The value cannot be fetched, the directory not made, the transaction not
\* committed: Add returns the error.
AddFails(c) ==
  /\ kind # "memory"
  /\ add[c].pc \in {"lookup", "mkdir", "unlink", "store"}
  /\ Fault
  /\ Ends(c)
  /\ UNCHANGED <<kind, address, entry, flushed, saved, crashes, begun, acked,
                 before, held, swallowed, standing>>

Return(c) ==
  /\ add[c].pc = "return"
  /\ acked' = acked \cup {add[c].value}
  /\ stands' = IF c \in deaf THEN stands ELSE stands \cup {add[c].value}
  /\ lasting' = IF flushed = saved THEN stands' ELSE lasting
  /\ Ends(c)
  /\ UNCHANGED <<kind, address, entry, flushed, saved, faults, crashes, begun,
                 before, held, swallowed>>

-----------------------------------------------------------------------------
(* The MFS root's publisher, and the process.                              *)

Save ==
  /\ kind = "ipfs"
  /\ saved # flushed
  /\ saved' = flushed
  /\ lasting' = stands
  /\ UNCHANGED <<kind, address, entry, flushed, add, faults, crashes, begun,
                 acked, before, held, swallowed, deaf, stands, passed>>

Crash ==
  /\ crashes < MaxCrashes
  /\ crashes' = crashes + 1
  /\ entry' = saved /\ flushed' = saved
  /\ add' = [c \in Client |-> Idle] /\ passed' = {} /\ deaf' = {}
  /\ stands' = IF flushed = saved THEN stands ELSE lasting
  /\ lasting' = stands'
  /\ UNCHANGED <<kind, address, saved, faults, begun, acked, before, held,
                 swallowed>>

-----------------------------------------------------------------------------
Step(c) ==
  \/ Store(c)
  \/ Lookup(c) \/ Mkdir(c)
  \/ Unlink(c) \/ UnlinkFails(c) \/ Flush(c)
  \/ Put(c)
  \/ Return(c)

Next ==
  \/ \E c \in Client :
       \/ Begin(c) \/ Step(c)
       \/ LookupFails(c) \/ FlushFails(c) \/ PutFails(c) \/ AddFails(c)
  \/ Save
  \/ Crash

Spec == Init /\ [][Next]_vars

\* An Add that has begun runs to its end.
FairSpec == Spec /\ \A c \in Client : WF_vars(Step(c))

-----------------------------------------------------------------------------
(* Correctness.                                                            *)

\* The value v was acked before the Add of one that is acked too began.
Overtaken(v) == \E w \in acked : v \in before[w]

\* What Resolve answers; only the memory backend takes any name.
Resolve ==
  IF kind = "memory" \/ IsValid(address) THEN entry ELSE NoValue

\* Every variable holds a value of its kind; Bolt's values are on disk and a
\* map's never.
TypeOK ==
  /\ kind \in {"memory", "bolt", "ipfs"}
  /\ {entry, flushed, saved} \subseteq Value \cup {NoValue}
  /\ add \in [Client -> Add \cup {Idle}]
  /\ faults \in 0..MaxFaults /\ crashes \in 0..MaxCrashes
  /\ begun \in 0..MaxAdds /\ swallowed \in 0..faults
  /\ acked \subseteq Value /\ held \subseteq Value
  /\ before \in [Value -> SUBSET Value]
  /\ passed \subseteq Client /\ deaf \subseteq Client
  /\ stands \subseteq acked /\ lasting \subseteq stands
  /\ kind = "bolt" => entry = saved
  /\ kind = "memory" => saved = NoValue

\* Once an Add has returned no error and ignored none, whatever other Adds race
\* with it or fail, the name does not go back to a value that was acked before
\* it began: a PutNode that trips over a racing one and the lookup that is stale
\* by then do no harm.  Nor does a restart bring one back, if the tree was saved
\* since that Add returned, or held nothing unsaved when it did: the removal is
\* flushed before the new entry is put.  A process that ends sooner may undo the
\* Add, with no error to anyone: it promises nothing any more.
NoOldValueComesBack ==
  entry # NoValue => \A w \in stands : entry \notin before[w]

\* When no Add is under way, a name that was added resolves to a value that no
\* later Add replaced, unless Lookup or PutNode has failed or the process has
\* ended, which Bolt alone survives: no failure of another step loses the name.
ResolvesLastAdd ==
  /\ acked # {}
  /\ swallowed = 0 /\ (crashes = 0 \/ kind = "bolt")
  /\ \A c \in Client : add[c] = Idle
  => Resolve \in held /\ ~Overtaken(Resolve)

\* An address has one spelling: no other string of letters that passes the
\* name check spells the same bytes, so that two peers cannot keep a name apart
\* that is one.
AddressHasOneSpelling ==
  begun = 0 =>
    \A a \in Spellings :
      IsValid(a) /\ Base58Decode(a) = Base58Decode(address) => a = address

\* Whoever has keys has an address that every peer's name check accepts, and
\* that spells the version, the hash and the checksum again.
OwnAddressIsValid ==
  /\ IsValid(address)
  /\ \E h \in Hashes :
       /\ address = AddressFor(h)
       /\ SubSeq(Base58Decode(address), 2, Len(h) + 1) = h

\* Whatever numbers an owner's key pair and signature come to, with leading
\* zero bytes or without, a message signed with the keys as read back carries
\* the public key its address was made from and passes the check of a reader.
OwnSignatureVerifies ==
  begun = 0 =>
    \A d, x, y, r, s \in Numbers :
      LET keys == NewKeyPair(d, <<x, y>>)
          key == ToEcdsaPrivateKey(keys)
          message == SignWithKey(key, <<r, s>>)
      IN /\ key = [d |-> d, point |-> <<x, y>>]
         /\ message.public = keys.public
         /\ VerifySignature(message, key.point, <<r, s>>)

\* A name that was added and is missing, which it is between Unlink and
\* PutNode, is there again.
NameComesBack ==
  (entry = NoValue /\ acked # {}) ~>
    (entry # NoValue \/ swallowed > 0 \/ crashes > 0)

-----------------------------------------------------------------------------
(* As Names sees it.                                                       *)

Open == [c \in Client |-> IF add[c] = Idle THEN NoValue ELSE add[c].value]

Settled == {c \in Client : add[c].pc = "return"}

Promise ==
  INSTANCE Names WITH
    name <- entry, past <- held, open <- Open, settled <- Settled,
    silent <- swallowed, MaxSilent <- MaxFaults

\* Every backend keeps the promise the resolver and the Dag build on.
ImplementsNames == Promise!Spec
=============================================================================
