# SetInStone in TLA+

SetInStone keeps *timelines*: signed nodes in IPFS, linked by `Previous` into
branches, and reached through resolver names ("shortcuts") that point at an
address's root node and at the head of every branch. This directory models how
those pieces change state when several callers, peers and goroutines use them
at once, checks the models with TLC on small instances and proves the central
invariants with TLAPS for instances of every size.

## 1. The system

| component | state | operations | used by |
|---|---|---|---|
| `dag` | none of its own: nodes in a data store, names in a resolver | SetRoot, Append, GetLast, GetRoot, VerifyNode, Manage | graph |
| `datastore` | content-addressed blocks | Put, Get (10 s timeout), Remove | dag |
| `graph` | an address | Append, createFirstNode, GetIterator, Get, Manage | applications |
| graph iterator | start, keyRoot, branch, previous | Last, Prev, All | applications |
| `resolver` (IpfsResolver) | resource cache, resolution cache (10 s), pending map, backend | Add, Resolve, Manage, Subscribe, Remove; handleQuery, handleResolution, sendResolution | dag |
| backends (memory, Bolt, IPFS MFS) | name -> value | Add, Resolve | IpfsResolver |
| `event` | callbacks per event name, one pubsub subscription, one loop goroutine | On, Next, Unsubscribe, Emit, the loop | IpfsResolver |
| `address` | none | Base58Encode, Base58Decode, IsValid, generateAddressHash, NewKeyPair, ToEcdsaPrivateKey | resolver, message |
| `message`, `crypto`, `cache`, `internal` | none, or a map | signing, encoding, lookup | all |

How they interact. `Graph.Append` reads the root and the head through the Dag,
builds and signs a node, and calls `Dag.Append` or `Dag.SetRoot`, which read
the same names again and then write: the node, the name of the branch head, for
a root the name of the root, and one name for every branch the node declares.
Names of managed addresses live in the peer's backend; all other names are asked
for over pubsub and answered by the peer that holds the address's keys. The
messages come in through an event manager, whose single loop calls the
resolver's callbacks.

What is hard. There is no lock or transaction around any of those sequences, so
everything between a check and its write, and between two writes, is open to
other callers and to failures. A read that takes too long is reported as "not
found". The event loop calls callbacks of callers that may have left. The
resolver's pending map is shared by the queries of all peers, and its answers
sleep before they are sent. The IPFS backend replaces a name by unlinking one file
and putting another. `PROJECT.json` lists these hazards with their lines.

What correctness means, per component:

- dag: stored nodes are well linked; heads point into their branch; roots have
  heads; what a call has returned is found again; branches only grow.
- graph: the node it builds is accepted by the Dag; it drives the Dag only as
  the Dag expects.
- iterator: a walk is complete, in order and without repetition.
- event: registered listeners get every event; `Next` returns; the loop goes on.
- resolver: resolved values do not go back; queries are answered; a managed
  address accepts names; who finds an entry listens.
- backends: what Add returned for is what the name resolves to, or a later Add's
  value is; once an Add is done, and saved, no older value comes back; a name is never gone for good.
- address, keys: an address is valid and has one spelling; what is written of a
  key and a signature reads back as itself.

## 2. Modules

| module | models | notes |
|---|---|---|
| `Dag` | dag.go, the Put and Get of the data store, and the resolver's Add as the Dag sees it | the core |
| `Timeline` | what package dag promises: one root per address, branches as lists that grow at the end | abstract specification |
| `DagTimeline` | the refinement mapping from `Dag` to `Timeline` | `ImplementsTimeline` |
| `Graph` | graph.go's write side, over `Dag` | composition; `DagBehaviour` is its refinement of `Dag` |
| `GraphIterator` | iterator.go, over `Dag` | composition with a reader |
| `EventManager` | manager.go, subscription.go | |
| `Resolver` | ipfs_resolver.go with its caches | several peers, each with the event managers it has built |
| `Address` | base58.go, the checksum and name check of address.go | pure, recursive functions |
| `Keys` | how keypair.go, crypto.go, message.go write and read pairs of numbers | pure, over `Address` |
| `Backend` | Add and Resolve of the memory, the Bolt and the IPFS backend | over `Keys` |
| `Names` | what a backend promises about one name | abstract specification; `ImplementsNames` |
| `DagProofs`, `WriterProofs` | theorems about `Dag`: for any callers, and for callers that keep out of each other's way | TLAPS |
| `TimelineProofs` | `Dag` implements `Timeline` | TLAPS, over `WriterProofs` |
| `IteratorProofs` | theorems about `GraphIterator` | TLAPS, over `WriterProofs` |
| `GraphProofs` | theorems about `Graph`, down to `Timeline` | TLAPS, over `TimelineProofs` |
| `BackendProofs` | theorems about `Backend`, `Address` and `Keys` | TLAPS |
| `EventManagerProofs`, `ResolverProofs` | theorems about `EventManager` and `Resolver` | TLAPS |
| `MCDag`, `MCGraph`, `MCGraphIterator`, `MCEventManager`, `MCResolver`, `MCBackend` | values for the constants of a run, symmetry | most of `Resolver`'s runs need none |

Definitions named `...` under a comment "Mutated:" are never part of a
specification. Each is a plausible mistake in the code, and the property paired
with it in `PROJECT.json` fails when it takes the place of the definition it
mutates.

### Dag

State: `store` (key -> node), `rootName` (`/addr/ns/dag/shortcuts/root`),
`lastName` (`.../shortcuts/<root>/<branch>/last`), and `call`, the place each
client has reached in its SetRoot or Append. `acked`, `named` and the counters are
history: what calls have returned, and which keys have been an address's root. Actions and code:

| action | code |
|---|---|
| `SetRoot`, `AppendNode` | the checks: SetRoot 54-69 with GetRoot, VerifyNode 136-193 with GetLast |
| `PutNode` | `dt.Put` in saveNode and saveRootNode |
| `PutTaken` | the same for a node that is stored already: the IPFS store refuses the path that is taken, the local store takes it again |
| `AddHead` | `resolver.Add` of the head's name, 256-257 and 283-284 |
| `AddRoot` | `resolver.Add` of the root's name, 289-290 |
| `AddBranch`, `Return` | the loop of addResolutionForNodeBranches and the return |
| `Unmanaged` | the resolver refuses the name (ipfs_resolver.go 103-107): earlier writes stay |
| `Abort` | any other error return between two writes, or the end of the process |

The reads of one check are one step. They are several reads in the code, but the
one that decides is the last read of the head's name, and everything else they
read (stored nodes) never changes. `timedOut` is the outcome "the head (for
SetRoot: the root) could not be fetched in ten seconds". A call that is refused
changes nothing and is a stuttering step.

Data left out: payload, properties, timestamps, signatures (one flag,
`genuine`), the file path a node is stored under. Two different nodes that agree
in everything modelled get two keys. Callers are assumed to give Append a node
that carries the branch root it is appended under, as `graph.createNode` does;
dag.go does not compare them. And SetRoot itself verifies nothing of its node but the
default branch (dag.go 54-60): `RootCandidate` offers what `graph.createFirstNode` builds, genuine
nodes of Seq 1 without `Previous` or root, for an address the client founds with its keys. What a
caller of package dag could pass to SetRoot beyond that is not modelled.

### Graph and GraphIterator

`graph` holds what `Graph.Append` has read so far: the root (`"last"`) or the
node it has built (`"append"`, `"setRoot"`). `HandOver` is the call of the Dag.
The iterator's `it` is the struct of iterator.go and a phase; each node is fetched
by a step of its own.

### EventManager

`loop` and `todo` are the loop's place and the callbacks it has copied and not
called. A callback is a listener's, or the one `Next` registers for one call: it
returns only when that very call is in its select. `inserting` are callbacks
whose write into the subscriptions map, made without the lock, is under way:
such a write that meets another access to the same map may be lost or may stop
the process, both as nondeterministic outcomes. Callbacks given to `On` return
at once; those of the resolver do (they leave the sleep to a goroutine).

### Resolver

One name of one address. `resource` is the resource cache's entry for the address: none, or with
or without keys, and the event manager it names. `live` are the managers whose callbacks are
registered, each with a loop of its own; `value` the backend, which an owner in `Restarted` has
filled in an earlier run; `cached` and `arrived` the resolution cache; `pending` the peers that
hold the name's query; `inbox` the messages under way, in no order, each to one manager.

subscribe (359-377) looks for an entry, builds a manager, registers its callbacks and stores the
entry, with nothing held in between. All who call it take these steps one by one:

| caller | look | build and On | store |
|---|---|---|---|
| Manage | `ManageFound`, `ManageMissed` | `ManageBuild` | `ManageStore`, with keys |
| query | `Subscribe` | `SubscribeBuild` | `SubscribeStore` |
| handleQuery, 256 | `HandlerFound`, `HandlerMissed` | `HandlerBuild` | `HandlerStore` |
| sendResolution, 325 | `SendAnswer`, `SendMissed` | `SendBuild` | `SendStore` |

From the second of these steps on a manager's loop may handle messages, before the entry is
there. That is how a query's handler comes to find none: with a backend that has the name from an
earlier run (`Restarted`) a query that arrives between `ManageBuild` and `ManageStore` makes the handler build
an entry without keys, and `HandlerStore` may come after `ManageStore`. Manage has returned nil and Add is
refused. `resolver_subscribe` has this race; `ManageTakes`, which it breaks, is checked where it cannot happen.
`Remove` unsubscribes the manager of the entry it found and `RemoveEntry` deletes whatever entry
there is by then; a message for which the loop has already copied the callbacks is still handled
(`InHand`). The handler is a step for the read of the backend (`HandleQuery`) and steps for what
follows; the stamp is taken in `HandlerFound`. `sending` are the goroutines of sendResolution and
their place between `pending.Load`, `pending.Delete`, Subscribe and `Emit`.

The ways a query ends: `Poll`, an answer; `GiveUp`, an error (no manager, ten seconds, the
caller's context); `EmitFails`, a failed publish, which query reports as an empty message and no
error, so that Resolve returns the empty value with success. `got` is what Resolve has returned
last, the empty value included.

### Backend, Address and Keys

One name. `entry` is the value it has now: in the map, in the Bolt bucket, in the
MFS directory. `flushed` is what the MFS tree has as last flushed, `saved` what a
restart finds. `add` is the place each caller has reached in its Add.

| action | code |
|---|---|
| `Begin` | the call; the name's address passed the resolver's IsValid |
| `Store` | memory: the map's Store; Bolt: one transaction, on disk when it returns |
| `Lookup`, `LookupFails` | ipfs_backend.go 57-60: every error is "not there" |
| `Mkdir` | 60-70, with `Flush` set |
| `Unlink`, `UnlinkFails` | 70-88: the error is returned if another Add unlinked first |
| `Flush`, `FlushFails` | 90: its error is ignored |
| `Put`, `PutFails` | 93-98: does not replace an entry; its error is logged and nil returned |
| `AddFails` | the errors Add does return |
| `Save`, `Crash` | the MFS publisher; the end of the process |

Three history variables say which Adds a reader may rely on. `deaf` are callers in an Add that has
ignored an error of Lookup or Flush; `stands` are the values whose Add returned no error and
was not deaf; `lasting` those of them the tree had when it was last saved. Nothing in Add waits for the
publisher: a process that ends before the tree is saved starts again with the tree
saved before, where the old value may be, although Add had returned nil. `Crash` takes such Adds out of `stands`, and
`NoOldValueComesBack` speaks of those that remain. What it says of a crash is that this
is the only way: no tree flushed after the unlink has the old entry, so one save is enough.

`Names` is the promise the Dag and the Resolver build on: an Add that returned took
effect, or one that overlapped it did; only the IPFS backend lets a name vanish
for a while; after a crash a map is empty, Bolt is as it was, and the IPFS backend
has some earlier value or none. `Backend` implements it with `passed`, the callers in whose
time a value was put.

`Address` and `Keys` are functions of sequences of digits. The base, the byte, the
checksum and the width are parameters, so that TLC can go through every address of
a small alphabet. A letter is its index; -1 is a character that is none. The
curve, the hashes and JSON are left out: a signature verifies when the numbers read
are those that were written.

## 3. Runs

| run | question | bounds | result |
|---|---|---|---|
| `dag_race` | do nodes and names fit together whatever callers race? is what one client has to itself safe from the other? | 2 clients that hold the keys of 2 addresses, both found one of them and write one of 2 branches, 3 keys, 1 timeout | holds |
| `dag_crash` | with one writer per branch, is anything lost, are declared branches open, is an append the next element, does a head leave its branch, does a stranger get in? | 2 writers and a stranger without the keys, 3 keys, one call cut short at any point | holds; implements `Timeline` |
| `graph_write` | do Graph's and VerifyNode's rules agree? does Graph refine Dag? | 2 clients, 3 keys | holds |
| `iterator` | is a walk complete while others write? does it stay on its branch when that is one of the graph's root? | one writer, one visitor without the keys, one reader, 3 keys | holds |
| `event_manager` | does every listener hear, does Next return, does the loop go on? | 1 listener, 1 waiter with 2 calls, 2 messages of 4 kinds, backoff of 2 | holds |
| `resolver` | do reads go forward and stamps follow values, does Manage take effect for an owner that manages before it resolves? | 1 owner, 2 readers, 2 values, 3 seconds, answers live 2 and take 1, 1 manager a peer, 1 fault | holds |
| `resolver_subscribe` | does who finds an entry listen? is every query answered? | an owner with the name from before and 2 readers; the owner and one reader may Remove and come back; 2 managers a peer, no fault, one second | holds |
| `backend` | does every backend keep its promise? do addresses and keys read back? | 3 callers, 3 Adds, 1 failed operation, 1 crash; base 3, bytes of 4 values, width 2 | holds; implements `Names` |
| `dag_lost_append` | is an append the next element of its branch? | 2 clients on one branch | violated |
| `dag_second_root` | does a root stay? | 1 client, 1 timeout | violated |
| `event_blocked` | is a callback called every time? | 1 listener, 1 waiter with 1 call | violated |
| `resolver_manage` | does Manage take effect? | 2 peers, 1 of them the owner, which resolves first | violated |

The violated ones are findings: each quotes the comment the code disagrees with.

Bounds and why they are enough. Three keys are a root, a node and a second node
that competes with it or extends it, or a nested branch root and a node under it;
in `dag_crash` they are a root, an orphan and the node that comes after it. Two clients
are enough for every check-then-write race, as each has one call at a time and
names are overwritten by one call at a time. In `dag_race` two addresses and two
branches make every case of sharing: an address with one founder and with two, a branch
with one writer and with two. Nodes declare no branch, or both branches; in `dag_race`, the
largest run, they all declare both, which is why `HeadsOnBranch` is checked in `dag_crash`. `MaxSeq`, 3, is the longest chain three appended keys allow above the root's Seq
of 1 within the runs' keys. `MaxLate`, `MaxAborts` and `MaxFaults`, where not 0, are 1: one fault at
any place, which is where these sequences break. Three clock seconds give
answers of the same second and of different ones, and let an entry expire and another answer come. One manager a peer
is all that `resolver` needs, since nobody removes there and no two calls of one peer subscribe at once; `resolver_subscribe`
has two, for calls that race or for one that comes after a Remove, and `QueryAnswered` leaves out behaviours
in which a handler or a sender wants a third; with one reader less its
properties also hold with three, and with the owner as a reader. There the clock stands still, as an entry that expires only makes a reader
ask again, and nothing fails: the failing steps are in `resolver`. The event manager's 2 calls of Next
are the departed call and its successor. The backend's three Adds are one that is
done, one that replaces it, and one that races the second: enough for a stale
lookup, for the gap between Unlink and PutNode, and for a PutNode that comes
late. Its hashes have two, one and no leading zero digits, all strings of up to
six letters are tried as spellings, and the numbers of keys and signatures need
one byte or two. Keys are symmetric; runs with liveness use no
symmetry. The Dag, Graph and event runs end when their keys, messages or calls are
used up, so deadlock is not checked there; the reader of `iterator` never stops.

What each run leaves out on purpose. `dag_crash` has one writer per branch because
with two `AckedReachable` is false (`dag_lost_append`), and no timeouts because
with them `RootNeverReplaced` and `AppendsNextElement` are (`dag_second_root`, and for the append the rewind of dag.go 98: a head that cannot be
fetched in time makes GetLast return the branch root, and a node that hangs off the root takes the head's name). `dag_race` has both, and claims what is kept
branch by branch: `OwnNodesKept` and `OwnBranchesGrow` speak of branches left to one client,
until a read times out. `graph_write` and `iterator`
have no timeouts either. `resolver` has one owner: two
owners have a backend each and nothing reconciles them. Its owner resolves only what it manages, never removes it, and starts with an
empty backend: otherwise `ManageTakes` is false (`resolver_manage`, and section 2), and with a second
manager at the owner two handlers may stamp in another order than they read. In `resolver_subscribe` the owner
has been restarted and may Remove, so `QueryAnswered` has exceptions: the asker or the owner leaves, or a keyless entry has replaced the owner's.

Fairness. `Dag` and `Graph`: a call that has begun runs to its end (a goroutine
is scheduled). `EventManager`: the loop runs, a context passed to Next ends, deferred
calls are made. `Backend`: an Add that has begun runs to its end; no operation
is assumed to fail or to succeed, and the publisher may never save. `Resolver`: loops
take delivered messages, sleepers wake, pollers poll. Nothing is assumed of callers, of the network beyond the fault budget, or of
receive errors.

Time. The clock counts seconds, as stamps do. A cached answer expires by time alone, `TTL` seconds after it
came in, whatever else is on its way (`Tick` waits for `Expire`, `Expire` for the clock). An answer is
handled or lost within `MaxDelay` seconds of its stamp: the sender sleeps for less than one, and the rest
is the network's, of which the code says nothing. `ReadsGoForward` needs `MaxDelay < TTL`, which the
run has (1 and 2; in the code TTL is 10): with an answer that outlives the entry of a newer one TLC finds a read
that goes back, as the cache has forgotten by then. A call that polls every 300 ms sees
an entry before it expires.

## 4. Proofs

`DagProofs` proves for all clients, addresses, branches, keys and bounds, from the
named assumptions of `Dag` (NoKey is no key, branch lists are sequences of
branches, what each client may do is given by functions, bounds are naturals):

- `TypeCorrect`: `Spec => []TypeOK`;
- `LinksSound`, `HeadsSound`, `RootsSound`: `NodesWellLinked`, `HeadsOnBranch` and
  `RootHasHead` are invariants;
- `KeyHoldersName`: `NamedByKeyHolders` is an invariant, for any number of strangers;
- `Inductive`: the invariant `IInv` the first three come from.

The argument. None of the three is inductive by itself: what a later step writes
was checked by an earlier one, while other callers wrote in between. `IInv` adds
what a call carries: the node in hand is a root's or is well linked to stored
nodes; after `PutNode` its key is stored with that node; a root past `AddHead` has its
default branch's name. Two facts make this last: stored nodes never change or go
(`LinksStable`), and a name, once there, is never removed and only ever moved
within its branch (`NamesStable`). `CallsStable` uses both for the calls a step
does not touch; then there is one lemma per action.

This is why races and timeouts may lose a node but never mislink one: the
findings about the Dag break reachability, not structure.

`KeyHoldersName` needs more: a call under way was submitted by a client that can sign
for its node (`KInv`).

`HeadsReachRoots`: `HeadReachesRoot` is an invariant, of any callers. `Ancestry` is a
recursive function over the store, and the prover has no induction to reason about
one. The store, however, grows a node at a time, after the nodes it hangs from, so
that what `Ancestry` is can be an invariant like any other: `AncestryDefined` says that
one function and no other solves its equation, and stays true when a node is added,
as the old solution extends in one way (`AncestryExtends`). `AncestrySound` says what it
contains: the nodes behind a node, none of which lead back to it, and its branch root. A head
is a node of its branch (`HeadsOnBranch`), so its root is among them. `AInv` is both,
with `IInv`.

`WriterProofs` proves what these findings break, for callers that keep out of each
other's way. The assumptions are explicit: `NoTimeouts` (MaxLate = 0), `OneFounder`
and `OneWriter` (two clients that may found an address, or write a branch of one, are
the same client), `BranchesOnce` (no branch twice in a node's list). `dag_crash` runs
with constants that meet all four.

- `RootsStay`: no timeouts and one founder give `Spec => RootNeverReplaced`. `RInv`:
  a founder's address has no root until its AddRoot, and a root once named is its
  address's root for good.
- `HeadsExtend`: all four give `Spec => AppendExtendsHead`. `WInv` adds to `RInv` that an
  Append under way still extends the head it was verified against, since no one else
  writes that branch; that the branches a call has yet to open have no head (for a
  root's own branch: none but the root); that a node which heads branches has been
  the head of the one it is on, which keeps a repeated Append of it out; that nobody has
  appended under a root before it was named. Every write of a name then either
  extends the old head or opens a branch.
- `AckedStayReachable`: all four give `Spec => []AckedReachable`: what was acknowledged is reached, and
  the branches it declares have heads. `SInv` adds to `WInv` and
  `AInv` that a call which has named its node reaches it from the head, and that the
  branches it has passed are open. A head that moves goes one node forward, and the
  ancestry of the new head contains that of the old one (`HeadKeepsReached`).
- `AppendsAreNext`: all four give `Spec => AppendsNextElement`. The only step that takes an append past
  "head" is its own AddHead, and `WInv` says that the head is still its Previous then.

These hypotheses speak of all callers at once. The last part of `WriterProofs` asks much less, of one
address and one branch at a time: `SoleFounder(a)`, one client founds a, and `SoleWriter(a, b)`, one client
that holds a's keys writes branches named b. Of the four, only `BranchesOnce` is left as a hypothesis;
timeouts may happen, and what is claimed is claimed until the first.

- `OwnHeadsExtend`: `Spec => OwnBranchesGrow`;
- `OwnNodesStay`: `Spec => []OwnNodesKept`.

So an application need not keep all its callers in order to keep its own branch: others may race on the
next branch, on another root or address, fail, and be refused, even with the same address's keys.
`QInv` carries `AInv` and, while `late` is 0, what `RInv` and `SInv` say, each part of the roots and branches that are
one client's own. It does not need `OpensAfterHead`, the part of `WInv` that keeps a repeated append from
opening branches twice, since that is about branches of nodes that are not roots. Those nested branches
are what the weaker theorems leave to the stronger ones. `OwnHeadMoves` is the centre: an own head stays, or its
writer's node takes over from its Previous (`Takes`), or its root opens it (`OpensOwn`);
`OthersKeepOwn` shows that neither disturbs a call of another client.

`TimelineProofs` proves `DagImplementsTimeline` from the same four: `Spec =>
ImplementsTimeline`. `Listed`, the list a branch reads as, is recursive like `Ancestry` and
known the same way (`LInv`). `StepIsTimelines` maps the steps: AddRoot of an address
without a root is `Found`; AddHead of a node, which hangs from the head it replaces, puts one element at the
end of one list, which is `Extend`; AddHead of a root and AddBranch, of a branch
without a head, are `Open`; every other step, a repeated one included, leaves the lists
as they are.

`IteratorProofs` proves `WalksAreComplete` from the same four: `ISpec => []WalkIsComplete`. The
walk's invariant `WalkOK` is the usual one of a loop, made to hold while others write: what
has been returned and what is behind the next node (`Behind`) do not overlap and are together all
there is to return (`Complete`). Writers cannot disturb it, since ancestries of stored
nodes never change and nodes acknowledged before the walk are reached from the
head that Last reads (`WritersPassBy`, `LastFromHeadKeeps`). TLC has gone through `WalkOK` as an invariant
of `iterator`'s instance, also with a call cut short.

`GraphWalksStay`, of any callers: `ISpec => []GraphWalkStaysOnBranch`. A walk of a branch whose root is a graph's
own yields nodes of that branch and the root, each of a lower Seq than the one before. `GWInv` adds that the node the
walk is about to fetch is on the branch, which a node's Previous is by `NodesWellLinked`.

`GraphProofs`: `GraphTypes` (`GSpec => []GTypeOK`) and `GraphImplementsDag`
(`GSpec => DagBehaviour`): a step of Graph is a step of Dag or leaves its variables
alone, so every theorem about `Dag` is one about the Dag under Graph. `GInv` joins
`IInv` with what Graph carries between its reads and `HandOver`: a root it has read
stays a known key, and the node it has built stays one that a caller of Dag may
submit. That is where known keys must only grow.

`BuiltNodesAccepted`: `GSpec => []BuiltNodeAccepted`, from `NoTimeouts`, `OneFounder`,
`BranchesOnce` and `SoleWriters` (no two clients write one branch, as in `graph_write`). `BInv` joins `GInv` with `WInv`, with a client
being in Graph or in the Dag but not in both (`OneAtATime`), and with the node in hand
being acceptable as long as its builder writes the branch alone (`AcceptedAlone`). What makes
that last between the reads and the hand-over is `HeadMovedByWriter`: a head is only moved by a client
that writes the branch and holds the keys of its address.

`GraphIsTimeline` goes from end to end, from the four hypotheses of `WriterProofs` alone:
`GSpec => ImplementsTimeline`, `[]AckedReachable` and `AppendsNextElement`. `Graph.Append`, over the Dag, over the names, is an append to a list.

`BackendProofs`, from the assumptions on bounds only: `BackendTypes`;
`BackendImplementsNames` (`Spec => ImplementsNames`), over `NInv`, which says that
whoever is past its write has been passed by one; `OldValuesStayGone` and
`LastAddResolves`, over `OInv`: every Add carries a value of its own; the value an Add
replaces is out of the directory, and out of the flushed tree, before the Add goes on (`EntryOrdered`,
`TreeOrdered`), unless it ignored an error; what was saved last has none of the values replaced by the Adds in
`lasting`, so that a crash, which goes back to it, leaves no Add in `stands` whose old value is
there; while the name is missing some Add is about to put it. `OldValuesStayGone` says nothing of an Add that
ignored an error of Lookup or Flush, nor of one that a crash before the save undid: section 2.

The same module proves what a name's address and an owner's keys rely on:

- `OwnAddressesValid` and `AddressesHaveOneSpelling`, for any base, byte, checksum length, hashes
  and spellings. `Transcribed` is the centre: leading zeros are kept one by one, the
  digits after them are those of a number, and so writing in one base what was read in another, and
  back, gives the input again. It rests on `HashesAssumption`: hashes and checksums are bytes,
  the checksum has its length, and they are not zeros only, a case in which the code runs off
  the end (a hazard listed without a property); and on `SpellingsAssumption`: spellings are letters.
- `OwnSignaturesVerify`, for any numbers that fit the width (`FitAssumption`; on P-256 all do).

`NumberOf` and `DigitsOf` are recursive functions of one number. Induction is had from
`WFMin` of the library, which speaks of sets: a non-empty set of naturals has a least element
(`LeastNat`), and the least number for which a statement fails gives the contradiction. So their equations
(`DigitsOfIs`, `NumberOfAppend`), and that each undoes the other (`NumberOfDigits`, `DigitsOfNumber`), are
proved for every number.

`EventManagerProofs`, from the assumptions that names are assigned, bounds are
naturals and no listener is a call of Next:

- `EventTypes`, with where the loop is: it copies or calls only with a verified message
  in hand;
- `NoListenerMissed`: `ListenersMissNothing` is an invariant. `HeardInv` adds what is
  still to come: a listener that is to be called has heard of nothing as late as the
  message in hand, and misses at most that one;
- `NextIsItsOwn`: `NextReturnsItsEvent` is an invariant. A call of Next is inserted once and
  before it selects (`CallsInv`), so the time it registered cannot change while its
  callback is in the loop's hands (`InHand`), and a departed call's callback, which may
  still be there, is another's.

`ResolverProofs`:

- `ResolverTypes`: `Spec => []TypeOK`, with no hypothesis. `TInv` adds that managers are numbered as they
  are built and that whoever is past its build owns the one it has built;
- `EntriesAlwaysListen`: `Spec => []EntriesListen`, with no hypothesis. `EInv`: a manager between build and store is
  held by one caller and by no entry (`Holders`, `Alone`), so that no Remove unsubscribes it before its
  entry is there; an entry is listened to until its own Remove is past the first step (`Listens`); and a loop whose
  callbacks are gone has been drained of all but what it had in hand (`Drained`, `OneInHand`);
- `ManageTakesKeys`: `ManageTakes` is an invariant when owners only manage (`OwnersOnlyManage`: no owner resolves the
  name before it has the keys or removes the address) and have an empty backend to begin with (`FreshBackends`). `MInv`: an owner has
  no value until its Manage has stored an entry with keys, since Add is refused until then; so a handler that passes the backend's read
  finds that entry, and builds nothing (`AnswerersTake`); and an owner then has one loop (`OneLoop`);
- `StampsSound`, with one owner (`OneOwner`) and the two hypotheses above: `StampsFollowValues` is an invariant.
  `SInv`: all answers and the one query in the owner's hands are behind the owner's value and the clock (`Behind`), later stamps go
  with values no older (`Ordered`), and the value in hand is no older than any answer's, so the stamp it
  gets is in order (`HandlersLead`). The one loop is needed for that: two of them could read in one order and stamp in the
  other, which is why the two hypotheses are there;
- `ReadsSound`, with the three and `AnswersInTime` (`MaxDelay < TTL`): `Spec => ReadsGoForward`. `OwnReads`: an owner reads its own backend, which only goes forward. `NotNewer`: what another
  peer has resolved is no newer than its cache, or than any answer to come once the cache has let
  go; an answer older than the cached one was stamped before the cached one came in, so it is
  handled before that one's time is up.

Findings and their counterparts. A violated run says that the code does not keep a documented promise; a
theorem says when it does:

| finding | the promise is kept | theorem |
|---|---|---|
| `dag_lost_append` | when one client writes the branch | `AppendsAreNext`, `OwnHeadsExtend` |
| `dag_second_root` | when reads are in time and one client founds the address | `RootsStay`, `OwnNodesStay` |
| `resolver_manage` | when the owner does not resolve the name before it manages the address | `ManageTakesKeys` |
| `event_blocked` | while no call of Next leaves before its callback is called (not modelled apart) | none; `ListenersMissNothing` holds of the events all the same |

Every safety invariant, action property and refinement the passing runs check is stated by one of these
theorems. Model-checked only are the liveness properties, which are out of the prover's reach
as they rest on fairness: `DeclaredBranchesOpen`, `NextReturns`, `LoopAdvances`,
`QueryAnswered`, `NameComesBack`.

Where a theorem has hypotheses about callers, the code does not enforce them: an application has to.
Without them the properties are false: the runs `dag_lost_append`, `dag_second_root` and
`resolver_manage` show how, and sections 2 and 3 for an owner's restart and for a head that is read too late.

## 5. Not modelled

- The curve, hashes and JSON, whose outcomes are flags; Encrypt, Decrypt and PEM
  files: library calls with no state.
- `VerifyNode` with `mustBeNew` false and `datastore.Remove`: nothing calls them.
- `getFullPath`: it makes the path a copy of the node is filed under, and nothing
  reads it.
- Nodes that list a branch twice (dag.go 304): `AppendExtendsHead` does not hold for them
  and nothing says whether they are allowed.
- Walks of a branch rooted at a node of another branch are in `GraphIterator` (Prev follows `Previous` and never
  looks at the branch, iterator.go 63-80, so they go on into that other branch), but no property is about
  where they lead: `GraphWalkStaysOnBranch` speaks of branches of the graph's root.
- Several names per address in `Resolver`, which share its entry and its event managers.
- Addresses with characters that are no letters: IsValid takes them as index -1, and
  `AddressHasOneSpelling` is about letters only.
- Composition of `Resolver` or `Backend` with `Dag`: the Dag's names are those of a peer that
  manages the address and has a backend that adds in one step. What an IPFS
  backend's gap does to a reader is `NameComesBack` alone.
- What a panic (base58 of a string of zero digits) does to the caller.

## 6. Plan

Done: `Dag`, `Timeline`, `DagTimeline`, `Graph`, `GraphIterator`, `EventManager`,
`Resolver`, `Backend`, `Names`, `Address`, `Keys`, and the proofs of section 4. Left, in
this order:

1. `OwnNodesKept` for nested branches too, whose roots are nodes that an Append may store and open twice.
2. The owner-and-reader composition: an iterator that reads names through the
   `Resolver`, whose cache may be stale, over a backend with a gap.
