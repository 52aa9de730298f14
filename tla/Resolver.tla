------------------------------ MODULE Resolver ------------------------------
(***************************************************************************)
(* resolver.IpfsResolver: the peers that hold an address's keys keep the   *)
(* value of a name in their backend; every other peer asks for it over     *)
(* pubsub, waits for a signed answer and caches it.  One name of one       *)
(* address is modelled: what the resolver keeps is kept per name, and only *)
(* the subscription is shared by the names of an address.                  *)
(*                                                                         *)
(* subscribe looks for the address's entry and, when there is none, builds *)
(* an event manager, registers its callbacks and stores an entry: nothing  *)
(* keeps these steps together, and Manage, Resolve, the handler of a query *)
(* and the sender of an answer all take them.  Each manager has an event   *)
(* loop of its own, which handles one message after the other and leaves   *)
(* the sending of an answer to a goroutine that sleeps first and sends     *)
(* only if nobody has answered.                                            *)
(***************************************************************************)
EXTENDS Integers

CONSTANTS
  Peer,        \* processes with an IpfsResolver
  Owner,       \* those that call Manage with the address's keys
  Reader,      \* those that call Resolve also when they do not manage the address
  Remover,     \* those that call Remove
  Restarted,   \* owners whose backend has the name from an earlier run
  TTL,         \* seconds an answer is cached
  MaxDelay,    \* seconds an answer may take from its stamp to its handler
  MaxAdds,     \* bound: values an owner gives the name
  MaxQueries,  \* bound: times a reader asks the network
  MaxSubs,     \* bound: event managers a peer builds
  MaxClock,    \* bound: seconds that pass
  MaxFaults    \* bound: messages lost, steps that fail, questions given up

ASSUME PeersAssumption ==
  Owner \cup Reader \cup Remover \subseteq Peer /\ Restarted \subseteq Owner
ASSUME BoundsAssumption ==
  /\ {MaxQueries, MaxSubs, MaxClock, MaxFaults} \subseteq Nat
  /\ MaxAdds \in Nat \ {0}
ASSUME TimesAssumption == {TTL, MaxDelay} \subseteq Nat

VARIABLES
  resource,  \* resourceCache: peer -> its entry for the address
  live,      \* peer -> its event managers with the callbacks registered
  built,     \* peer -> event managers built so far
  removing,  \* peers in Remove, past Unsubscribe
  manage,    \* how far a peer's call of Manage is
  value,     \* backend: peer -> the value of the name, 0 before the first Add
  cached,    \* resolutionCache: peer -> the answer it holds
  arrived,   \* and the second it came in
  pending,   \* peers in whose pending map the name's query is
  handling,  \* queries in the hands of an event loop, past backend.Resolve
  sending,   \* goroutines of sendResolution
  inbox,     \* peer -> messages on their way to its event loops
  ask,       \* a peer's call of Resolve
  clock,     \* the second it is
  faults     \* messages lost, steps failed, questions given up

entries == <<resource, live, built, removing, manage>>
caches == <<value, cached, arrived, pending>>
messages == <<handling, sending, inbox>>
vars == <<entries, caches, messages, ask, clock, faults>>

-----------------------------------------------------------------------------
(* Messages.  A query is one peer's n-th; its GetID is the same for every   *)
(* query of the name, so re only tells messages apart, as by, the event     *)
(* manager that was asked, does.                                            *)

Sub == 1..MaxSubs

QueryMsg == [from : Peer, n : 1..MaxQueries]

NoAnswer == [value |-> 0, stamp |-> 0]

Answer == [re : QueryMsg, by : Sub, value : 1..MaxAdds, stamp : 0..MaxClock]

Delivery == [to : Sub, msg : QueryMsg \cup Answer]

\* keys: the entry's address has its private key.
Entry == [keys : BOOLEAN, sub : Sub]

NoEntry == [keys |-> FALSE, sub |-> 0]

\* In handling: the loop is that of manager to; own is the manager that the
\* handler's own call of subscribe has registered.
Handler == [at : Peer, to : Sub, msg : QueryMsg, value : 1..MaxAdds,
            pc : {"find", "build", "store"}, own : 0..MaxSubs]

\* "asleep": before pending.Load; "found": before pending.Delete.
Sender == [at : Peer, answer : Answer, own : 0..MaxSubs,
           pc : {"asleep", "found", "find", "build", "store"}]

\* got is what Resolve has returned last, 0 for the empty value, and seen the
\* last that was not empty; answerable: when the query was published an owner was
\* listening and had a value, and neither it nor the peer has left since.
Ask == [pc : {"idle", "find", "build", "store", "emit", "poll"},
        n : 0..MaxQueries, own : 0..MaxSubs,
        got : 0..MaxAdds, seen : 0..MaxAdds, answerable : BOOLEAN]

Managing == [pc : {"no", "build", "store", "done"}, own : 0..MaxSubs]

Init ==
  /\ resource = [p \in Peer |-> NoEntry]
  /\ live = [p \in Peer |-> {}]
  /\ built = [p \in Peer |-> 0]
  /\ removing = {}
  /\ manage = [p \in Peer |-> [pc |-> "no", own |-> 0]]
  /\ value = [p \in Peer |-> IF p \in Restarted THEN 1 ELSE 0]
  /\ cached = [p \in Peer |-> NoAnswer]
  /\ arrived = [p \in Peer |-> 0]
  /\ pending = {}
  /\ handling = {}
  /\ sending = {}
  /\ inbox = [p \in Peer |-> {}]
  /\ ask = [p \in Peer |-> [pc |-> "idle", n |-> 0, own |-> 0, got |-> 0,
                            seen |-> 0, answerable |-> FALSE]]
  /\ clock = 0
  /\ faults = 0

HasKeys(p) == resource[p].keys

\* Queries that are published now reach p, and p may answer them.
Listening(p) == HasKeys(p) /\ resource[p].sub \in live[p]

Fault == faults < MaxFaults /\ faults' = faults + 1

\* Every manager with callbacks gets the message but the publisher's own, whose
\* event loops pass its messages over.
Publish(p, m) ==
  inbox' = [q \in Peer |->
              IF q = p THEN inbox[q]
              ELSE inbox[q] \cup {[to |-> i, msg |-> m] : i \in live[q]}]

-----------------------------------------------------------------------------
(* The steps of subscribe after its look at the cache.                      *)

\* Build and On: the new manager hears what is published from here on.
Register(p) ==
  /\ built[p] < MaxSubs
  /\ built' = [built EXCEPT ![p] = @ + 1]
  /\ live' = [live EXCEPT ![p] = @ \cup {built[p] + 1}]

\* resourceCache.Add replaces whatever entry there is.
Store(p, keys, i) == resource' = [resource EXCEPT ![p] = [keys |-> keys, sub |-> i]]

-----------------------------------------------------------------------------
(* Manage, Remove and Add.                                                 *)

ManageIdle(p) == p \in Owner /\ manage[p].pc \in {"no", "done"}

\* subscribe finds an entry, whoever made it and with whatever keys.
ManageFound(p) ==
  /\ ManageIdle(p)
  /\ resource[p] # NoEntry
  /\ manage' = [manage EXCEPT ![p].pc = "done"]
  /\ UNCHANGED <<resource, live, built, removing, caches, messages, ask, clock,
                 faults>>

ManageMissed(p) ==
  /\ ManageIdle(p)
  /\ resource[p] = NoEntry
  /\ manage' = [manage EXCEPT ![p].pc = "build"]
  /\ UNCHANGED <<resource, live, built, removing, caches, messages, ask, clock,
                 faults>>

ManageBuild(p) ==
  /\ manage[p].pc = "build"
  /\ Register(p)
  /\ manage' = [manage EXCEPT ![p] = [pc |-> "store", own |-> built'[p]]]
  /\ UNCHANGED <<resource, removing, caches, messages, ask, clock, faults>>

ManageStore(p) ==
  /\ manage[p].pc = "store"
  /\ Store(p, TRUE, manage[p].own)
  /\ manage' = [manage EXCEPT ![p] = [pc |-> "done", own |-> 0]]
  /\ UNCHANGED <<live, built, removing, caches, messages, ask, clock, faults>>

\* No event manager can be built: Manage returns the error.
ManageFails(p) ==
  /\ manage[p].pc = "build"
  /\ Fault
  /\ manage' = [manage EXCEPT ![p].pc = "no"]
  /\ UNCHANGED <<resource, live, built, removing, caches, messages, ask, clock>>

\* At most one message of the loop is in its hands already, and only when it
\* handles no other.
InHand(p, i) ==
  {{}} \cup {{d} : d \in {e \in inbox[p] :
                            e.to = i /\ \A h \in handling : <<h.at, h.to>> # <<p, i>>}}

\* The peer p leaves: queries are no longer promised an answer.
Forsake(p) ==
  ask' = [q \in Peer |-> [ask[q] EXCEPT !.answerable = @ /\ p \notin Owner \cup {q}]]

\* Mutated: the entry is not deleted.
RemoveKeepsEntry(p) ==
  /\ p \in Remover
  /\ resource[p] # NoEntry
  /\ live' = [live EXCEPT ![p] = @ \ {resource[p].sub}]
  /\ \E kept \in InHand(p, resource[p].sub) :
       inbox' = [inbox EXCEPT ![p] =
                   {d \in @ : d.to # resource[p].sub} \cup kept]
  /\ Forsake(p)
  /\ UNCHANGED <<resource, built, removing, manage, caches, handling, sending,
                 clock, faults>>

\* Unsubscribe: the callbacks are gone and messages still on their way find
\* none, but for the one the loop has copied them for.
Remove(p) ==
  /\ p \in Remover \ removing
  /\ resource[p] # NoEntry
  /\ live' = [live EXCEPT ![p] = @ \ {resource[p].sub}]
  /\ \E kept \in InHand(p, resource[p].sub) :
       inbox' = [inbox EXCEPT ![p] =
                   {d \in @ : d.to # resource[p].sub} \cup kept]
  /\ Forsake(p)
  /\ removing' = removing \cup {p}
  /\ UNCHANGED <<resource, built, manage, caches, handling, sending, clock, faults>>

\* resourceCache.Delete, of whatever entry there is by now.
RemoveEntry(p) ==
  /\ p \in removing
  /\ removing' = removing \ {p}
  /\ resource' = [resource EXCEPT ![p] = NoEntry]
  /\ Forsake(p)
  /\ UNCHANGED <<live, built, manage, caches, messages, clock, faults>>

Add(p) ==
  /\ HasKeys(p)
  /\ value[p] < MaxAdds
  /\ value' = [value EXCEPT ![p] = @ + 1]
  /\ UNCHANGED <<entries, cached, arrived, pending, messages, ask, clock, faults>>

-----------------------------------------------------------------------------
(* Resolve and query.                                                      *)

Unaware(p) == UNCHANGED <<entries, caches, messages, clock, faults>>

Idle(p) == p \in Reader /\ ask[p].pc = "idle"

\* Resolve returns the value v, which is not empty.
Returns(p, v) == ask' = [ask EXCEPT ![p].pc = "idle", ![p].got = v, ![p].seen = v]

\* A peer with the keys reads its backend; a name that is not there is an error.
ResolveManaged(p) ==
  /\ ask[p].pc = "idle" /\ HasKeys(p)
  /\ value[p] # 0
  /\ Returns(p, value[p])
  /\ Unaware(p)

ResolveCached(p) ==
  /\ Idle(p) /\ ~HasKeys(p)
  /\ cached[p] # NoAnswer
  /\ Returns(p, cached[p].value)
  /\ Unaware(p)

StartQuery(p) ==
  /\ Idle(p) /\ ~HasKeys(p)
  /\ cached[p] = NoAnswer
  /\ ask[p].n < MaxQueries
  /\ ask' = [ask EXCEPT ![p].pc = "find", ![p].n = @ + 1]
  /\ Unaware(p)

Subscribe(p) ==
  /\ ask[p].pc = "find"
  /\ ask' = [ask EXCEPT ![p].pc = IF resource[p] = NoEntry THEN "build" ELSE "emit"]
  /\ Unaware(p)

SubscribeBuild(p) ==
  /\ ask[p].pc = "build"
  /\ Register(p)
  /\ ask' = [ask EXCEPT ![p].pc = "store", ![p].own = built'[p]]
  /\ UNCHANGED <<resource, removing, manage, caches, messages, clock, faults>>

SubscribeStore(p) ==
  /\ ask[p].pc = "store"
  /\ Store(p, FALSE, ask[p].own)
  /\ ask' = [ask EXCEPT ![p].pc = "emit", ![p].own = 0]
  /\ UNCHANGED <<live, built, removing, manage, caches, messages, clock, faults>>

Emit(p) ==
  /\ ask[p].pc = "emit"
  /\ Publish(p, [from |-> p, n |-> ask[p].n])
  /\ ask' = [ask EXCEPT ![p].pc = "poll",
       ![p].answerable =
         live[p] # {} /\ \E o \in Owner \ {p} : Listening(o) /\ value[o] # 0]
  /\ UNCHANGED <<entries, caches, handling, sending, clock, faults>>

\* Publishing fails: query drops the error, and Resolve returns the empty value
\* as if it were the name's.
EmitFails(p) ==
  /\ ask[p].pc = "emit"
  /\ Fault
  /\ ask' = [ask EXCEPT ![p].pc = "idle", ![p].got = 0]
  /\ UNCHANGED <<entries, caches, messages, clock>>

Poll(p) ==
  /\ ask[p].pc = "poll"
  /\ cached[p] # NoAnswer
  /\ Returns(p, cached[p].value)
  /\ Unaware(p)

\* No event manager can be built, or the ten seconds or the caller's context are
\* over: Resolve returns the error.
GiveUp(p) ==
  /\ ask[p].pc \in {"build", "poll"}
  /\ Fault
  /\ ask' = [ask EXCEPT ![p].pc = "idle"]
  /\ UNCHANGED <<entries, caches, messages, clock>>

-----------------------------------------------------------------------------
(* The event loops.                                                        *)

\* The loop takes a message when it has handled the last one.
Take(p, d) ==
  /\ d \in inbox[p]
  /\ \A h \in handling : <<h.at, h.to>> # <<p, d.to>>
  /\ inbox' = [inbox EXCEPT ![p] = @ \ {d}]

Handled(p, d) == [at |-> p, to |-> d.to, msg |-> d.msg, value |-> value[p],
                  pc |-> "find", own |-> 0]

\* Mutated: a query that is already pending is not looked at again.
HandleQueryOnce(p, d) ==
  /\ d.msg \in QueryMsg
  /\ Take(p, d)
  /\ pending' = pending \cup {p}
  /\ handling' = IF value[p] # 0 /\ p \notin pending
                 THEN handling \cup {Handled(p, d)} ELSE handling
  /\ UNCHANGED <<entries, value, cached, arrived, sending, ask, clock, faults>>

\* Mutated: a name that is not there is answered for.
HandleQueryUnchecked(p, d) ==
  /\ d.msg \in QueryMsg
  /\ Take(p, d)
  /\ pending' = pending \cup {p}
  /\ handling' = handling \cup {Handled(p, d)}
  /\ UNCHANGED <<entries, value, cached, arrived, sending, ask, clock, faults>>

\* The query is pending whether or not this peer can answer it; a peer whose
\* backend does not have the name is done with it.
HandleQuery(p, d) ==
  /\ d.msg \in QueryMsg
  /\ Take(p, d)
  /\ pending' = pending \cup {p}
  /\ handling' = IF value[p] # 0 THEN handling \cup {Handled(p, d)} ELSE handling
  /\ UNCHANGED <<entries, value, cached, arrived, sending, ask, clock, faults>>

\* The handler h goes on to k.
Turn(h, k) == handling' = (handling \ {h}) \cup k

\* The handler's Subscribe finds the entry.  With the keys, the answer is
\* signed and stamped, with the value read before.
HandlerFound(h) ==
  /\ h.pc = "find"
  /\ resource[h.at] # NoEntry
  /\ Turn(h, {})
  /\ sending' = IF HasKeys(h.at)
       THEN sending \cup {[at |-> h.at, own |-> 0, pc |-> "asleep",
              answer |-> [re |-> h.msg, by |-> h.to, value |-> h.value,
                          stamp |-> clock]]}
       ELSE sending
  /\ UNCHANGED <<entries, caches, inbox, ask, clock, faults>>

\* It finds none when Manage has registered its callbacks and not stored its
\* entry yet, or when the entry has been removed.
HandlerMissed(h) ==
  /\ h.pc = "find"
  /\ resource[h.at] = NoEntry
  /\ Turn(h, {[h EXCEPT !.pc = "build"]})
  /\ UNCHANGED <<entries, caches, sending, inbox, ask, clock, faults>>

HandlerBuild(h) ==
  /\ h.pc = "build"
  /\ Register(h.at)
  /\ Turn(h, {[h EXCEPT !.pc = "store", !.own = built'[h.at]]})
  /\ UNCHANGED <<resource, removing, manage, caches, sending, inbox, ask, clock,
                 faults>>

\* The entry it makes has no keys, so the query is not answered.
HandlerStore(h) ==
  /\ h.pc = "store"
  /\ Store(h.at, FALSE, h.own)
  /\ Turn(h, {})
  /\ UNCHANGED <<live, built, removing, manage, caches, sending, inbox, ask, clock,
                 faults>>

\* The backend or the signing fails, or no event manager can be built.
HandlerFails(h) ==
  /\ h.pc \in {"find", "build"}
  /\ Fault
  /\ Turn(h, {})
  /\ UNCHANGED <<entries, caches, sending, inbox, ask, clock>>

Older(a, b) == a.stamp < b.stamp

\* Mutated: the latest arrival is cached.
HandleResolutionUnordered(p, d) ==
  /\ d.msg \in Answer
  /\ Take(p, d)
  /\ cached' = [cached EXCEPT ![p] = d.msg]
  /\ arrived' = [arrived EXCEPT ![p] = clock]
  /\ pending' = pending \ {p}
  /\ UNCHANGED <<entries, value, handling, sending, ask, clock, faults>>

\* Any answer to the name, not only one to this peer's own query.
HandleResolution(p, d) ==
  /\ d.msg \in Answer
  /\ Take(p, d)
  /\ IF cached[p] = NoAnswer \/ Older(cached[p], d.msg)
     THEN /\ cached' = [cached EXCEPT ![p] = d.msg]
          /\ arrived' = [arrived EXCEPT ![p] = clock]
     ELSE UNCHANGED <<cached, arrived>>
  /\ pending' = pending \ {p}
  /\ UNCHANGED <<entries, value, handling, sending, ask, clock, faults>>

-----------------------------------------------------------------------------
(* sendResolution's goroutine.                                             *)

\* The goroutine g goes on to k.
Proceed(g, k) == sending' = (sending \ {g}) \cup k

Wake(g) ==
  /\ g.pc = "asleep"
  /\ Proceed(g, IF g.at \in pending THEN {[g EXCEPT !.pc = "found"]} ELSE {})
  /\ UNCHANGED <<entries, caches, handling, inbox, ask, clock, faults>>

DeletePending(g) ==
  /\ g.pc = "found"
  /\ pending' = pending \ {g.at}
  /\ Proceed(g, {[g EXCEPT !.pc = "find"]})
  /\ UNCHANGED <<entries, value, cached, arrived, handling, inbox, ask, clock,
                 faults>>

\* Mutated: the answer is stamped when it is sent.
SendAnswerStamped(g) ==
  /\ g.pc = "find"
  /\ resource[g.at] # NoEntry
  /\ Publish(g.at, [g.answer EXCEPT !.stamp = clock])
  /\ Proceed(g, {})
  /\ UNCHANGED <<entries, caches, handling, ask, clock, faults>>

\* Mutated: the entry is not looked for, and a keyless one replaces it.
SendAnswerRebuilt(g) ==
  /\ g.pc = "find"
  /\ Store(g.at, FALSE, resource[g.at].sub)
  /\ Publish(g.at, g.answer)
  /\ Proceed(g, {})
  /\ UNCHANGED <<live, built, removing, manage, caches, handling, ask, clock, faults>>

SendAnswer(g) ==
  /\ g.pc = "find"
  /\ resource[g.at] # NoEntry
  /\ Publish(g.at, g.answer)
  /\ Proceed(g, {})
  /\ UNCHANGED <<entries, caches, handling, ask, clock, faults>>

\* A removed address is subscribed to again, without the keys.
SendMissed(g) ==
  /\ g.pc = "find"
  /\ resource[g.at] = NoEntry
  /\ Proceed(g, {[g EXCEPT !.pc = "build"]})
  /\ UNCHANGED <<entries, caches, handling, inbox, ask, clock, faults>>

SendBuild(g) ==
  /\ g.pc = "build"
  /\ Register(g.at)
  /\ Proceed(g, {[g EXCEPT !.pc = "store", !.own = built'[g.at]]})
  /\ UNCHANGED <<resource, removing, manage, caches, handling, inbox, ask, clock,
                 faults>>

SendStore(g) ==
  /\ g.pc = "store"
  /\ Store(g.at, FALSE, g.own)
  /\ Publish(g.at, g.answer)
  /\ Proceed(g, {})
  /\ UNCHANGED <<live, built, removing, manage, caches, handling, ask, clock, faults>>

\* No event manager can be built, or publishing fails: the answer is dropped.
SendFails(g) ==
  /\ g.pc \in {"find", "build"}
  /\ Fault
  /\ Proceed(g, {})
  /\ UNCHANGED <<entries, caches, handling, inbox, ask, clock>>

-----------------------------------------------------------------------------
(* Time and the network.                                                   *)

AnswersFor(p) ==
  {g.answer : g \in sending} \cup ({d.msg : d \in inbox[p]} \cap Answer)

\* A second passes.  An answer is handled or lost within MaxDelay seconds of its
\* stamp: the sender sleeps for less than one, the rest is the network's.  A
\* cached one expires in the second its time is up.
Tick ==
  /\ clock < MaxClock
  /\ \A p \in Peer :
       /\ \A a \in AnswersFor(p) : clock < a.stamp + MaxDelay
       /\ cached[p] # NoAnswer => clock < arrived[p] + TTL
  /\ clock' = clock + 1
  /\ UNCHANGED <<entries, caches, messages, ask, faults>>

\* Time is up.  A call that polls, every 300 ms, has seen the answer by then.
Expire(p) ==
  /\ cached[p] # NoAnswer
  /\ clock >= arrived[p] + TTL
  /\ ask[p].pc # "poll"
  /\ cached' = [cached EXCEPT ![p] = NoAnswer]
  /\ arrived' = [arrived EXCEPT ![p] = 0]
  /\ UNCHANGED <<entries, value, pending, messages, ask, clock, faults>>

Lose(p, d) ==
  /\ d \in inbox[p]
  /\ Fault
  /\ inbox' = [inbox EXCEPT ![p] = @ \ {d}]
  /\ UNCHANGED <<entries, caches, handling, sending, ask, clock>>

-----------------------------------------------------------------------------
Manage(p) == ManageFound(p) \/ ManageMissed(p) \/ ManageBuild(p) \/ ManageStore(p)

QueryStep(p) ==
  Subscribe(p) \/ SubscribeBuild(p) \/ SubscribeStore(p) \/ Emit(p) \/ Poll(p)

HandlerStep(h) ==
  HandlerFound(h) \/ HandlerMissed(h) \/ HandlerBuild(h) \/ HandlerStore(h)

LoopStep(p) ==
  \/ \E d \in inbox[p] : HandleQuery(p, d) \/ HandleResolution(p, d)
  \/ \E h \in handling : h.at = p /\ HandlerStep(h)

SendStep(g) ==
  \/ Wake(g) \/ DeletePending(g)
  \/ SendAnswer(g) \/ SendMissed(g) \/ SendBuild(g) \/ SendStore(g)

Next ==
  \/ \E p \in Peer :
       \/ Manage(p) \/ ManageFails(p) \/ Remove(p) \/ RemoveEntry(p) \/ Add(p)
       \/ ResolveManaged(p) \/ ResolveCached(p) \/ StartQuery(p)
       \/ QueryStep(p) \/ EmitFails(p) \/ GiveUp(p)
       \/ LoopStep(p)
       \/ Expire(p)
       \/ \E d \in inbox[p] : Lose(p, d)
  \/ \E h \in handling : HandlerFails(h)
  \/ \E g \in sending : SendStep(g) \/ SendFails(g)
  \/ Tick

Spec == Init /\ [][Next]_vars

\* Goroutines run: event loops take what is delivered, sleepers wake and
\* pollers poll.
FairSpec ==
  /\ Spec
  /\ WF_vars(\E g \in sending : SendStep(g))
  /\ \A p \in Peer : WF_vars(LoopStep(p))
  /\ \A p \in Reader : WF_vars(QueryStep(p))

-----------------------------------------------------------------------------
(* Correctness.                                                            *)

\* Every variable holds a value of its kind.
TypeOK ==
  /\ resource \in [Peer -> Entry \cup {NoEntry}]
  /\ live \in [Peer -> SUBSET Sub] /\ built \in [Peer -> 0..MaxSubs]
  /\ removing \subseteq Peer
  /\ manage \in [Peer -> Managing]
  /\ value \in [Peer -> 0..MaxAdds]
  /\ cached \in [Peer -> Answer \cup {NoAnswer}]
  /\ arrived \in [Peer -> 0..MaxClock]
  /\ pending \subseteq Peer
  /\ handling \subseteq Handler
  /\ sending \subseteq Sender
  /\ inbox \in [Peer -> SUBSET Delivery]
  /\ ask \in [Peer -> Ask]
  /\ clock \in 0..MaxClock /\ faults \in 0..MaxFaults

\* However the calls that subscribe race with each other and with Remove, who
\* finds an entry is listening: its event manager has its callbacks, and one
\* whose callbacks are gone has at most one message left, in hand or on its way.
EntriesListen ==
  \A p \in Peer :
    /\ resource[p] # NoEntry /\ p \notin removing => resource[p].sub \in live[p]
    /\ \A d \in inbox[p] : d.to \notin live[p] =>
         /\ \A e \in inbox[p] : d.to = e.to => d = e
         /\ \A h \in handling : <<h.at, h.to>> # <<p, d.to>>

\* With one owner a later stamp never goes with an older value, wherever the
\* answers are: what makes Older a safe test of which answer to keep.
StampsFollowValues ==
  LET all == (UNION {AnswersFor(p) : p \in Peer})
               \cup {cached[p] : p \in Peer}
  IN \A a, b \in all : a.value < b.value => a.stamp <= b.stamp

\* With one owner the values a peer resolves never go back, though answers to
\* several peers' queries overtake each other and entries expire in between.
\* Only the empty value of a query that could not be published comes between.
ReadsGoForward ==
  [][\A p \in Peer :
       /\ ask'[p].seen >= ask[p].seen
       /\ ask'[p].got < ask[p].got => ask'[p].got = 0 /\ faults' > faults]_vars

\* A query that finds an owner listening with a value is answered, unless one
\* of the two leaves, a keyless entry replaces the owner's, a message is lost or
\* the bound on managers is met: the pending map, cleared by every answer to the
\* name, never silences the owner while somebody still waits, nor do the managers
\* that racing calls of subscribe leave behind.
QueryAnswered ==
  \A p \in Reader :
    ask[p].pc = "poll" /\ ask[p].answerable ~>
      \/ ask[p].pc # "poll" \/ ~ask[p].answerable
      \/ ~\E o \in Owner : Listening(o)
      \/ faults > 0
      \/ \E s \in handling \cup sending : s.pc = "build" /\ built[s.at] = MaxSubs

\* Manage "configures ... to use the provided address (and its keys) for
\* subsequent write operations": once it has returned, Add is let through.
ManageTakes ==
  \A p \in Owner : manage[p].pc = "done" => HasKeys(p)
=============================================================================
