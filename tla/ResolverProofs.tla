--------------------------- MODULE ResolverProofs ---------------------------
(***************************************************************************)
(* Theorems about Resolver: its types and that entries listen, for any     *)
(* peers and owners; that Manage takes the keys, for owners that resolve   *)
(* only what they manage, never remove it and start with an empty backend; *)
(* and, with one such owner, that stamps and values of answers go together *)
(* and that what a peer resolves never goes back.                          *)
(***************************************************************************)
EXTENDS Resolver, TLAPS

-----------------------------------------------------------------------------
(* Types.                                                                  *)

\* Only owners manage, get keys and have values.
OwnersOnly ==
  \A p \in Peer : manage[p].pc # "no" \/ HasKeys(p) \/ value[p] # 0 => p \in Owner

\* A call that is past its cache is a reader's and has counted its query.
Numbered ==
  \A p \in Peer : ask[p].pc # "idle" => p \in Reader /\ ask[p].n \in 1..MaxQueries

StoringHandlers == {h \in handling : h.pc = "store"}

StoringSenders == {g \in sending : g.pc = "store"}

\* Who is about to store an entry has a manager of its own for it.
Owned ==
  /\ \A p \in Peer : manage[p].pc = "store" => manage[p].own \in Sub
  /\ \A p \in Peer : ask[p].pc = "store" => ask[p].own \in Sub
  /\ \A h \in StoringHandlers : h.own \in Sub
  /\ \A g \in StoringSenders : g.own \in Sub

Removing == removing \subseteq Remover

TInv == TypeOK /\ OwnersOnly /\ Numbered /\ Owned /\ Removing

\* A delivery of a message goes to managers with callbacks.
LEMMA PublishDelivers ==
  ASSUME TypeOK, NEW p \in Peer, NEW m \in QueryMsg \cup Answer, Publish(p, m)
  PROVE  /\ inbox' \in [Peer -> SUBSET Delivery]
         /\ \A q \in Peer : \A d \in inbox'[q] :
              d \in inbox[q] \/ (d.to \in live[q] /\ d.msg = m)
<1>1. \A q \in Peer : \A d \in inbox'[q] :
        d \in inbox[q] \/ \E i \in live[q] : d = [to |-> i, msg |-> m]
  BY DEF TypeOK, Publish
<1>2. \A q \in Peer : \A i \in live[q] : [to |-> i, msg |-> m] \in Delivery
  BY DEF TypeOK, Delivery
<1>3. inbox' = [q \in Peer |-> inbox'[q]]
  BY DEF Publish
<1>4. \A q \in Peer : inbox'[q] \subseteq Delivery
  BY <1>1, <1>2 DEF TypeOK
<1>5. QED
  BY <1>1, <1>3, <1>4

\* A new manager's number is the next, and it has its callbacks.
LEMMA Registers ==
  ASSUME TypeOK, NEW p \in Peer, Register(p)
  PROVE  /\ built \in [Peer -> Nat] /\ built[p] + 1 \in Sub
         /\ built' \in [Peer -> 0..MaxSubs] /\ built'[p] = built[p] + 1
         /\ live' \in [Peer -> SUBSET Sub] /\ live'[p] = live[p] \cup {built[p] + 1}
         /\ \A q \in Peer : q # p => built'[q] = built[q] /\ live'[q] = live[q]
  BY BoundsAssumption DEF TypeOK, Register, Sub

\* An entry is replaced, and no other.
LEMMA Stores ==
  ASSUME TypeOK, NEW p \in Peer, NEW keys \in BOOLEAN, NEW i \in Sub, Store(p, keys, i)
  PROVE  /\ resource' \in [Peer -> Entry \cup {NoEntry}]
         /\ resource'[p] = [keys |-> keys, sub |-> i]
         /\ resource'[p] # NoEntry /\ resource'[p].sub = i
         /\ resource'[p].keys = keys
         /\ \A q \in Peer : q # p => resource'[q] = resource[q]
<1>1. [keys |-> keys, sub |-> i] \in Entry /\ i # 0
  BY BoundsAssumption DEF Entry, Sub
<1>2. [keys |-> keys, sub |-> i].sub = i /\ NoEntry.sub = 0
  BY DEF NoEntry
<1>3. QED
  BY <1>1, <1>2 DEF TypeOK, Store

\* What a step makes of a handler, of a sender and of a call of Resolve.
LEMMA HandlerGoesOn ==
  ASSUME NEW h \in Handler, NEW i \in 0..MaxSubs
  PROVE  LET k == [h EXCEPT !.pc = "store", !.own = i]
         IN  /\ k \in Handler /\ k.at = h.at /\ k.to = h.to /\ k.value = h.value
             /\ k.pc = "store" /\ k.own = i
  BY DEF Handler

LEMMA HandlerBuilds ==
  ASSUME NEW h \in Handler
  PROVE  LET k == [h EXCEPT !.pc = "build"]
         IN  /\ k \in Handler /\ k.at = h.at /\ k.to = h.to /\ k.value = h.value
             /\ k.pc = "build"
  BY DEF Handler

LEMMA SenderGoesOn ==
  ASSUME NEW g \in Sender, NEW i \in 0..MaxSubs
  PROVE  LET k == [g EXCEPT !.pc = "store", !.own = i]
         IN  /\ k \in Sender /\ k.at = g.at /\ k.answer = g.answer
             /\ k.pc = "store" /\ k.own = i
  BY DEF Sender

LEMMA SenderTurns ==
  ASSUME NEW g \in Sender, NEW pc \in {"found", "find", "build"}
  PROVE  LET k == [g EXCEPT !.pc = pc]
         IN  k \in Sender /\ k.at = g.at /\ k.answer = g.answer /\ k.pc = pc
  BY DEF Sender

LEMMA AskTurns ==
  ASSUME NEW a \in Ask, NEW pc \in {"idle", "build", "emit"}
  PROVE  LET k == [a EXCEPT !.pc = pc]
         IN  k \in Ask /\ k.n = a.n /\ k.pc = pc /\ k.got = a.got /\ k.seen = a.seen
  BY DEF Ask

LEMMA AskGoesOn ==
  ASSUME NEW a \in Ask, NEW i \in 0..MaxSubs
  PROVE  LET k == [a EXCEPT !.pc = "store", !.own = i]
         IN  /\ k \in Ask /\ k.n = a.n /\ k.pc = "store" /\ k.own = i
             /\ k.got = a.got /\ k.seen = a.seen
  BY DEF Ask

LEMMA AskStored ==
  ASSUME NEW a \in Ask
  PROVE  LET k == [a EXCEPT !.pc = "emit", !.own = 0]
         IN  /\ k \in Ask /\ k.n = a.n /\ k.pc = "emit"
             /\ k.got = a.got /\ k.seen = a.seen
<1>1. 0 \in 0..MaxSubs
  BY BoundsAssumption
<1>2. QED
  BY <1>1 DEF Ask

LEMMA AskPolls ==
  ASSUME NEW a \in Ask, NEW b \in BOOLEAN
  PROVE  LET k == [a EXCEPT !.pc = "poll", !.answerable = b]
         IN  /\ k \in Ask /\ k.n = a.n /\ k.pc = "poll"
             /\ k.got = a.got /\ k.seen = a.seen
  BY DEF Ask

\* A peer that leaves changes no more of a call than whether an answer is promised.
LEMMA AskForsaken ==
  ASSUME TypeOK, NEW p \in Peer, Forsake(p)
  PROVE  /\ ask' \in [Peer -> Ask]
         /\ \A q \in Peer : /\ ask'[q].pc = ask[q].pc /\ ask'[q].n = ask[q].n
                            /\ ask'[q].own = ask[q].own /\ ask'[q].got = ask[q].got
                            /\ ask'[q].seen = ask[q].seen
<1> DEFINE k(q) == [ask[q] EXCEPT !.answerable = @ /\ p \notin Owner \cup {q}]
<1>1. \A q \in Peer :
        /\ k(q) \in Ask /\ k(q).pc = ask[q].pc /\ k(q).n = ask[q].n
        /\ k(q).own = ask[q].own /\ k(q).got = ask[q].got /\ k(q).seen = ask[q].seen
  BY DEF TypeOK, Ask
<1>2. ask' = [q \in Peer |-> k(q)]
  BY DEF Forsake
<1> HIDE DEF k
<1>3. QED
  BY <1>1, <1>2

LEMMA AskReturns ==
  ASSUME NEW a \in Ask, NEW v \in 0..MaxAdds
  PROVE  LET k == [a EXCEPT !.pc = "idle", !.got = v, !.seen = v]
             l == [a EXCEPT !.pc = "idle", !.got = 0]
         IN  /\ k \in Ask /\ k.pc = "idle" /\ k.got = v /\ k.seen = v
             /\ l \in Ask /\ l.pc = "idle" /\ l.got = 0 /\ l.seen = a.seen
<1>1. 0 \in 0..MaxAdds
  BY BoundsAssumption
<1>2. QED
  BY <1>1 DEF Ask

LEMMA AskStarts ==
  ASSUME NEW a \in Ask, a.n < MaxQueries
  PROVE  LET k == [a EXCEPT !.pc = "find", !.n = @ + 1]
         IN  /\ k \in Ask /\ k.n \in 1..MaxQueries /\ k.pc = "find"
             /\ k.got = a.got /\ k.seen = a.seen
<1>1. a.n \in Nat /\ a.n + 1 \in 0..MaxQueries /\ a.n + 1 \in 1..MaxQueries
  BY BoundsAssumption DEF Ask
<1>2. QED
  BY <1>1 DEF Ask

LEMMA ManageTurns ==
  ASSUME NEW a \in Managing, NEW pc \in {"no", "build", "done"}
  PROVE  LET k == [a EXCEPT !.pc = pc] IN k \in Managing /\ k.pc = pc
  BY DEF Managing

\* A handler and a sender are of a peer.
LEMMA HandlerFacts ==
  ASSUME TypeOK, NEW h \in handling
  PROVE  /\ h \in Handler /\ h.at \in Peer /\ h.to \in Sub /\ h.value \in 1..MaxAdds
         /\ h.msg \in QueryMsg /\ h.pc \in {"find", "build", "store"}
  BY DEF TypeOK, Handler

LEMMA SenderFacts ==
  ASSUME TypeOK, NEW g \in sending
  PROVE  g \in Sender /\ g.at \in Peer /\ g.answer \in Answer
  BY DEF TypeOK, Sender

LEMMA InitTInv == Init => TInv
<1> SUFFICES ASSUME Init PROVE TInv
  OBVIOUS
<1>1. 0 \in 0..MaxAdds /\ 1 \in 0..MaxAdds /\ 0 \in 0..MaxSubs /\ 0 \in 0..MaxClock
      /\ 0 \in 0..MaxFaults /\ 0 \in 0..MaxQueries
  BY BoundsAssumption
<1>2. [pc |-> "idle", n |-> 0, own |-> 0, got |-> 0, seen |-> 0,
       answerable |-> FALSE] \in Ask
  BY <1>1 DEF Ask
<1>3. TypeOK
  BY <1>1, <1>2 DEF Init, TypeOK, Managing
<1>4. OwnersOnly /\ Numbered /\ Owned /\ Removing
  BY PeersAssumption
     DEF Init, OwnersOnly, Numbered, Owned, Removing, HasKeys, NoEntry,
         StoringHandlers, StoringSenders
<1>5. QED
  BY <1>3, <1>4 DEF TInv

\* What a step of the cached answers, of time or of the network disturbs.
LEMMA TInvKept ==
  ASSUME TInv, TypeOK', UNCHANGED <<resource, manage, removing>>,
         \A p \in Peer : value'[p] # 0 => value[p] # 0 \/ p \in Owner,
         Numbered', Owned'
  PROVE  TInv'
  BY DEF TInv, OwnersOnly, Removing, HasKeys

\* Each action keeps every variable in its range and gives keys to owners only.
LEMMA ManageTInv ==
  ASSUME TInv, NEW p \in Peer,
         Manage(p) \/ ManageFails(p) \/ Remove(p) \/ RemoveEntry(p) \/ Add(p)
  PROVE  TInv'
<1>0. /\ TypeOK /\ manage[p] \in Managing
      /\ ask' \in [Peer -> Ask]
      /\ \A q \in Peer : /\ ask'[q].pc = ask[q].pc /\ ask'[q].n = ask[q].n
                         /\ ask'[q].own = ask[q].own
  <2>1. TypeOK /\ manage[p] \in Managing /\ ask \in [Peer -> Ask]
    BY DEF TInv, TypeOK
  <2>2. ask' = ask \/ Forsake(p)
    BY DEF Manage, ManageFound, ManageMissed, ManageBuild, ManageStore, ManageFails,
           Remove, RemoveEntry, Add
  <2>3. QED
    BY <2>1, <2>2, AskForsaken
<1>1. CASE ManageFound(p) \/ ManageMissed(p) \/ ManageFails(p)
  <2>1. /\ \E pc \in {"no", "build", "done"} : manage' = [manage EXCEPT ![p].pc = pc]
        /\ p \in Owner
        /\ UNCHANGED <<resource, live, built, removing, caches, messages, clock>>
    BY <1>0, <1>1
       DEF ManageFound, ManageMissed, ManageFails, ManageIdle, TInv, OwnersOnly
  <2>2. manage' \in [Peer -> Managing] /\ manage'[p].pc # "store"
        /\ \A q \in Peer : q # p => manage'[q] = manage[q]
    <3>1. PICK pc \in {"no", "build", "done"} : manage' = [manage EXCEPT ![p].pc = pc]
      BY <2>1
    <3> DEFINE k == [manage[p] EXCEPT !.pc = pc]
    <3>2. k \in Managing /\ k.pc = pc
      BY <1>0, ManageTurns
    <3>3. manage' = [manage EXCEPT ![p] = k] /\ manage \in [Peer -> Managing]
      BY <1>0, <3>1 DEF TypeOK
    <3> HIDE DEF k
    <3>4. QED
      BY <3>2, <3>3
  <2>3. faults' \in 0..MaxFaults
    BY <1>1, BoundsAssumption
       DEF ManageFound, ManageMissed, ManageFails, Fault, TInv, TypeOK
  <2>4. TypeOK'
    BY <1>0, <2>1, <2>2, <2>3 DEF TypeOK, caches, messages
  <2>5. OwnersOnly' /\ Numbered' /\ Owned' /\ Removing'
    BY <1>0, <2>1, <2>2
       DEF TInv, OwnersOnly, Numbered, Owned, Removing, HasKeys, caches, messages,
           StoringHandlers, StoringSenders
  <2>6. QED
    BY <2>4, <2>5 DEF TInv
<1>2. CASE ManageBuild(p)
  <2>1. /\ UNCHANGED <<resource, removing, caches, messages, clock, faults>>
        /\ Register(p) /\ p \in Owner
        /\ manage' = [manage EXCEPT ![p] = [pc |-> "store", own |-> built'[p]]]
    BY <1>2 DEF ManageBuild, TInv, OwnersOnly
  <2>2. built'[p] \in Sub /\ built'[p] \in 0..MaxSubs
        /\ built' \in [Peer -> 0..MaxSubs] /\ live' \in [Peer -> SUBSET Sub]
    BY <1>0, <2>1, Registers
  <2>3. manage' \in [Peer -> Managing] /\ manage'[p].own \in Sub
        /\ \A q \in Peer : q # p => manage'[q] = manage[q]
    BY <1>0, <2>1, <2>2 DEF TypeOK, Managing
  <2>4. TypeOK'
    BY <1>0, <2>1, <2>2, <2>3 DEF TypeOK, caches, messages
  <2>5. OwnersOnly' /\ Numbered' /\ Owned' /\ Removing'
    BY <1>0, <2>1, <2>3
       DEF TInv, OwnersOnly, Numbered, Owned, Removing, HasKeys, caches, messages,
           StoringHandlers, StoringSenders
  <2>6. QED
    BY <2>4, <2>5 DEF TInv
<1>3. CASE ManageStore(p)
  <2>1. /\ UNCHANGED <<live, built, removing, caches, messages, clock, faults>>
        /\ Store(p, TRUE, manage[p].own) /\ manage[p].own \in Sub /\ p \in Owner
        /\ manage' = [manage EXCEPT ![p] = [pc |-> "done", own |-> 0]]
    BY <1>3 DEF ManageStore, TInv, OwnersOnly, Owned
  <2>2. resource' \in [Peer -> Entry \cup {NoEntry}]
        /\ \A q \in Peer : q # p => resource'[q] = resource[q]
    BY <1>0, <2>1, Stores
  <2>3. manage' \in [Peer -> Managing] /\ manage'[p].pc = "done"
        /\ \A q \in Peer : q # p => manage'[q] = manage[q]
    BY <1>0, <2>1, BoundsAssumption DEF TypeOK, Managing
  <2>4. TypeOK'
    BY <1>0, <2>1, <2>2, <2>3 DEF TypeOK, caches, messages
  <2>5. OwnersOnly' /\ Numbered' /\ Owned' /\ Removing'
    BY <1>0, <2>1, <2>2, <2>3
       DEF TInv, OwnersOnly, Numbered, Owned, Removing, HasKeys, caches, messages,
           StoringHandlers, StoringSenders
  <2>6. QED
    BY <2>4, <2>5 DEF TInv
<1>4. CASE Remove(p)
  <2>1. /\ UNCHANGED <<resource, built, manage, caches, handling, sending, clock,
                       faults>>
        /\ live' = [live EXCEPT ![p] = @ \ {resource[p].sub}]
        /\ removing' = removing \cup {p} /\ p \in Remover
        /\ \A d \in inbox'[p] : d \in inbox[p]
        /\ \E k \in SUBSET inbox[p] : inbox' = [inbox EXCEPT ![p] = k]
    <3>1. PICK kept \in InHand(p, resource[p].sub) :
            inbox' = [inbox EXCEPT ![p] = {d \in @ : d.to # resource[p].sub} \cup kept]
      BY <1>4 DEF Remove
    <3>2. kept \subseteq inbox[p]
      BY DEF InHand
    <3>3. QED
      BY <1>0, <1>4, <3>1, <3>2 DEF Remove, TypeOK
  <2>2. TypeOK'
    BY <1>0, <2>1 DEF TypeOK, caches
  <2>3. OwnersOnly' /\ Numbered' /\ Owned' /\ Removing'
    BY <1>0, <2>1
       DEF TInv, OwnersOnly, Numbered, Owned, Removing, HasKeys, caches,
           StoringHandlers, StoringSenders
  <2>4. QED
    BY <2>2, <2>3 DEF TInv
<1>5. CASE RemoveEntry(p)
  <2>1. /\ UNCHANGED <<live, built, manage, caches, messages, clock, faults>>
        /\ removing' \subseteq removing
        /\ resource' = [resource EXCEPT ![p] = NoEntry]
    BY <1>5 DEF RemoveEntry
  <2>2. TypeOK'
    BY <1>0, <2>1 DEF TypeOK, caches, messages
  <2>3. \A q \in Peer : HasKeys(q)' => HasKeys(q)
    BY <1>0, <2>1 DEF TypeOK, HasKeys, NoEntry
  <2>4. OwnersOnly' /\ Numbered' /\ Owned' /\ Removing'
    BY <1>0, <2>1, <2>3
       DEF TInv, OwnersOnly, Numbered, Owned, Removing, caches, messages,
           StoringHandlers, StoringSenders
  <2>5. QED
    BY <2>2, <2>4 DEF TInv
<1>6. CASE Add(p)
  <2>1. /\ UNCHANGED <<entries, cached, arrived, pending, messages, clock, faults>>
        /\ value' = [value EXCEPT ![p] = @ + 1] /\ value[p] < MaxAdds /\ p \in Owner
    BY <1>6 DEF Add, TInv, OwnersOnly
  <2>2. value' \in [Peer -> 0..MaxAdds]
        /\ \A q \in Peer : q # p => value'[q] = value[q]
    BY <1>0, <2>1, BoundsAssumption DEF TypeOK
  <2>3. TypeOK'
    BY <1>0, <2>1, <2>2 DEF TypeOK, entries, messages
  <2>4. Numbered' /\ Owned'
    BY <1>0, <2>1 DEF TInv, Numbered, Owned, entries, messages, StoringHandlers,
                      StoringSenders
  <2>5. QED
    BY <2>1, <2>2, <2>3, <2>4, TInvKept DEF entries
<1>7. QED
  BY <1>1, <1>2, <1>3, <1>4, <1>5, <1>6 DEF Manage

\* The steps of a call of Resolve change its record, and may count a fault.
LEMMA AskTInv ==
  ASSUME TInv, NEW p \in Peer,
         UNCHANGED <<entries, caches, messages, clock>>, faults' \in 0..MaxFaults,
         NEW a \in Ask, ask' = [ask EXCEPT ![p] = a],
         a.pc # "idle" => p \in Reader /\ a.n \in 1..MaxQueries,
         a.pc = "store" => a.own \in Sub
  PROVE  TInv'
<1>1. ask' \in [Peer -> Ask] /\ ask'[p] = a
      /\ \A q \in Peer : q # p => ask'[q] = ask[q]
  BY DEF TInv, TypeOK
<1>2. TypeOK'
  BY <1>1 DEF TInv, TypeOK, entries, caches, messages
<1>3. Numbered' /\ Owned'
  BY <1>1 DEF TInv, Numbered, Owned, entries, messages, StoringHandlers, StoringSenders
<1>4. QED
  BY <1>2, <1>3, TInvKept DEF entries, caches

\* What such a step is.
LEMMA AskSteps ==
  ASSUME TInv, NEW p \in Peer,
         \/ ResolveManaged(p) \/ ResolveCached(p) \/ StartQuery(p) \/ Subscribe(p)
         \/ EmitFails(p) \/ Poll(p) \/ GiveUp(p)
  PROVE  /\ UNCHANGED <<entries, caches, messages, clock>>
         /\ faults' \in 0..MaxFaults /\ (faults' = faults \/ faults' > faults)
         /\ ask'[p] \in Ask /\ ask' = [ask EXCEPT ![p] = ask'[p]]
         /\ ask'[p].pc # "idle" => p \in Reader /\ ask'[p].n \in 1..MaxQueries
         /\ ask'[p].pc # "store"
         /\ \/ ask'[p].got = ask[p].got /\ ask'[p].seen = ask[p].seen
            \/ /\ ask'[p].got = 0 /\ ask'[p].seen = ask[p].seen
               /\ faults' > faults
            \/ /\ cached[p] # NoAnswer /\ p \in Reader
               /\ ask'[p].got = cached[p].value /\ ask'[p].seen = cached[p].value
            \/ /\ HasKeys(p) /\ ask'[p].got = value[p] /\ ask'[p].seen = value[p]
<1>1. /\ ask \in [Peer -> Ask] /\ ask[p] \in Ask /\ value[p] \in 0..MaxAdds
      /\ faults \in 0..MaxFaults /\ faults \in Nat
      /\ cached[p] # NoAnswer => cached[p].value \in 0..MaxAdds
      /\ ask[p].pc # "idle" => p \in Reader /\ ask[p].n \in 1..MaxQueries
  BY BoundsAssumption DEF TInv, TypeOK, Answer, Numbered
<1>2. CASE ResolveManaged(p) \/ ResolveCached(p)
  <2>1. \E v \in 0..MaxAdds :
          /\ ask' = [ask EXCEPT ![p] = [ask[p] EXCEPT !.pc = "idle", !.got = v, !.seen = v]]
          /\ \/ cached[p] # NoAnswer /\ p \in Reader /\ v = cached[p].value
             \/ HasKeys(p) /\ v = value[p]
          /\ UNCHANGED <<entries, caches, messages, clock, faults>>
    BY <1>1, <1>2 DEF ResolveManaged, ResolveCached, Returns, Unaware, Idle
  <2>2. PICK v \in 0..MaxAdds :
          /\ ask' = [ask EXCEPT ![p] = [ask[p] EXCEPT !.pc = "idle", !.got = v, !.seen = v]]
          /\ \/ cached[p] # NoAnswer /\ p \in Reader /\ v = cached[p].value
             \/ HasKeys(p) /\ v = value[p]
          /\ UNCHANGED <<entries, caches, messages, clock, faults>>
    BY <2>1
  <2> DEFINE k == [ask[p] EXCEPT !.pc = "idle", !.got = v, !.seen = v]
  <2>3. k \in Ask /\ k.pc = "idle" /\ k.got = v /\ k.seen = v
    BY <1>1, AskReturns
  <2>4. ask' = [ask EXCEPT ![p] = k] /\ ask'[p] = k
    BY <1>1, <2>2
  <2> HIDE DEF k
  <2>5. QED
    BY <1>1, <2>2, <2>3, <2>4
<1>3. CASE Poll(p)
  <2> DEFINE v == cached[p].value
             k == [ask[p] EXCEPT !.pc = "idle", !.got = v, !.seen = v]
  <2>1. /\ cached[p] # NoAnswer /\ p \in Reader /\ ask' = [ask EXCEPT ![p] = k]
        /\ UNCHANGED <<entries, caches, messages, clock, faults>>
    BY <1>1, <1>3 DEF Poll, Returns, Unaware
  <2>2. v \in 0..MaxAdds
    BY <1>1, <2>1
  <2>3. k \in Ask /\ k.pc = "idle" /\ k.got = v /\ k.seen = v
    BY <1>1, <2>2, AskReturns
  <2>4. ask'[p] = k
    BY <1>1, <2>1
  <2> HIDE DEF k
  <2>5. QED
    BY <1>1, <2>1, <2>3, <2>4
<1>4. CASE StartQuery(p)
  <2> DEFINE k == [ask[p] EXCEPT !.pc = "find", !.n = @ + 1]
  <2>1. /\ ask' = [ask EXCEPT ![p] = k] /\ ask[p].n < MaxQueries /\ p \in Reader
        /\ UNCHANGED <<entries, caches, messages, clock, faults>>
    BY <1>1, <1>4 DEF StartQuery, Unaware, Idle
  <2>2. /\ k \in Ask /\ k.n \in 1..MaxQueries /\ k.pc = "find"
        /\ k.got = ask[p].got /\ k.seen = ask[p].seen
    BY <1>1, <2>1, AskStarts
  <2>3. ask'[p] = k
    BY <1>1, <2>1
  <2> HIDE DEF k
  <2>4. QED
    BY <1>1, <2>1, <2>2, <2>3
<1>5. CASE Subscribe(p) \/ GiveUp(p)
  <2>1. \E pc \in {"idle", "build", "emit"} : ask' = [ask EXCEPT ![p].pc = pc]
    BY <1>5 DEF Subscribe, GiveUp
  <2>2. PICK pc \in {"idle", "build", "emit"} : ask' = [ask EXCEPT ![p].pc = pc]
    BY <2>1
  <2> DEFINE k == [ask[p] EXCEPT !.pc = pc]
  <2>3. k \in Ask /\ k.n = ask[p].n /\ k.pc = pc /\ k.got = ask[p].got
        /\ k.seen = ask[p].seen
    BY <1>1, AskTurns
  <2>4. ask' = [ask EXCEPT ![p] = k] /\ ask'[p] = k
    BY <1>1, <2>2
  <2>5. UNCHANGED <<entries, caches, messages, clock>> /\ ask[p].pc # "idle"
        /\ faults' \in 0..MaxFaults /\ (faults' = faults \/ faults' > faults)
    BY <1>1, <1>5, BoundsAssumption DEF Subscribe, GiveUp, Unaware, Fault
  <2> HIDE DEF k
  <2>6. QED
    BY <1>1, <2>3, <2>4, <2>5
<1>6. CASE EmitFails(p)
  <2> DEFINE k == [ask[p] EXCEPT !.pc = "idle", !.got = 0]
  <2>1. /\ ask' = [ask EXCEPT ![p] = k] /\ faults' = faults + 1 /\ faults < MaxFaults
        /\ UNCHANGED <<entries, caches, messages, clock>>
    BY <1>1, <1>6 DEF EmitFails, Fault
  <2>2. k \in Ask /\ k.pc = "idle" /\ k.got = 0 /\ k.seen = ask[p].seen
    BY <1>1, AskReturns, BoundsAssumption
  <2>3. ask'[p] = k
    BY <1>1, <2>1
  <2>4. faults' \in 0..MaxFaults /\ faults' > faults
    BY <1>1, <2>1, BoundsAssumption
  <2> HIDE DEF k
  <2>5. QED
    BY <1>1, <2>1, <2>2, <2>3, <2>4
<1>7. QED
  BY <1>2, <1>3, <1>4, <1>5, <1>6

LEMMA SubscribeTInv ==
  ASSUME TInv, NEW p \in Peer, SubscribeBuild(p) \/ SubscribeStore(p) \/ Emit(p)
  PROVE  /\ TInv'
         /\ ask'[p].got = ask[p].got /\ ask'[p].seen = ask[p].seen
         /\ \A q \in Peer : q # p => ask'[q] = ask[q]
<1>1. /\ TypeOK /\ ask \in [Peer -> Ask] /\ ask[p] \in Ask
      /\ ask[p].pc # "idle" => p \in Reader /\ ask[p].n \in 1..MaxQueries
  BY DEF TInv, TypeOK, Numbered
<1>2. CASE SubscribeBuild(p)
  <2> DEFINE i == built'[p]
             k == [ask[p] EXCEPT !.pc = "store", !.own = i]
  <2>1. /\ UNCHANGED <<resource, removing, manage, caches, messages, clock, faults>>
        /\ Register(p) /\ ask[p].pc = "build" /\ ask' = [ask EXCEPT ![p] = k]
    BY <1>1, <1>2 DEF SubscribeBuild
  <2>2. /\ i \in Sub /\ i \in 0..MaxSubs
        /\ built' \in [Peer -> 0..MaxSubs] /\ live' \in [Peer -> SUBSET Sub]
    BY <1>1, <2>1, Registers
  <2>3. /\ k \in Ask /\ k.n = ask[p].n /\ k.pc = "store" /\ k.own = i
        /\ k.got = ask[p].got /\ k.seen = ask[p].seen
    BY <1>1, <2>2, AskGoesOn
  <2> HIDE DEF k, i
  <2>4. ask' \in [Peer -> Ask] /\ ask'[p] = k /\ \A q \in Peer : q # p => ask'[q] = ask[q]
    BY <1>1, <2>1, <2>3
  <2>5. TypeOK'
    BY <1>1, <2>1, <2>2, <2>4 DEF TypeOK, caches, messages
  <2>6. OwnersOnly' /\ Numbered' /\ Owned' /\ Removing'
    BY <1>1, <2>1, <2>2, <2>3, <2>4
       DEF TInv, OwnersOnly, Numbered, Owned, Removing, HasKeys, caches, messages,
           StoringHandlers, StoringSenders
  <2>7. QED
    BY <2>3, <2>4, <2>5, <2>6 DEF TInv
<1>3. CASE SubscribeStore(p)
  <2> DEFINE k == [ask[p] EXCEPT !.pc = "emit", !.own = 0]
  <2>1. /\ UNCHANGED <<live, built, removing, manage, caches, messages, clock, faults>>
        /\ Store(p, FALSE, ask[p].own) /\ ask[p].pc = "store" /\ ask[p].own \in Sub
        /\ ask' = [ask EXCEPT ![p] = k]
    BY <1>1, <1>3 DEF SubscribeStore, TInv, Owned
  <2>2. /\ k \in Ask /\ k.n = ask[p].n /\ k.pc = "emit"
        /\ k.got = ask[p].got /\ k.seen = ask[p].seen
    BY <1>1, AskStored
  <2> HIDE DEF k
  <2>3. ask' \in [Peer -> Ask] /\ ask'[p] = k /\ \A q \in Peer : q # p => ask'[q] = ask[q]
    BY <1>1, <2>1, <2>2
  <2>4. resource' \in [Peer -> Entry \cup {NoEntry}] /\ ~resource'[p].keys
        /\ \A q \in Peer : q # p => resource'[q] = resource[q]
    BY <1>1, <2>1, Stores
  <2>5. TypeOK'
    BY <1>1, <2>1, <2>3, <2>4 DEF TypeOK, caches, messages
  <2>6. OwnersOnly' /\ Numbered' /\ Owned' /\ Removing'
    BY <1>1, <2>1, <2>2, <2>3, <2>4
       DEF TInv, OwnersOnly, Numbered, Owned, Removing, HasKeys, caches, messages,
           StoringHandlers, StoringSenders
  <2>7. QED
    BY <2>2, <2>3, <2>5, <2>6 DEF TInv
<1>4. CASE Emit(p)
  <2> DEFINE b == live[p] # {} /\ \E o \in Owner \ {p} : Listening(o) /\ value[o] # 0
             k == [ask[p] EXCEPT !.pc = "poll", !.answerable = b]
             m == [from |-> p, n |-> ask[p].n]
  <2>1. /\ UNCHANGED <<entries, caches, handling, sending, clock, faults>>
        /\ Publish(p, m) /\ ask[p].pc = "emit" /\ ask' = [ask EXCEPT ![p] = k]
    BY <1>1, <1>4 DEF Emit
  <2>2. b \in BOOLEAN
    OBVIOUS
  <2>3. m \in QueryMsg
    BY <1>1, <2>1 DEF QueryMsg
  <2> HIDE DEF b, m
  <2>4. /\ k \in Ask /\ k.n = ask[p].n /\ k.pc = "poll"
        /\ k.got = ask[p].got /\ k.seen = ask[p].seen
    BY <1>1, <2>2, AskPolls
  <2> HIDE DEF k
  <2>5. ask' \in [Peer -> Ask] /\ ask'[p] = k /\ \A q \in Peer : q # p => ask'[q] = ask[q]
    BY <1>1, <2>1, <2>4
  <2>6. inbox' \in [Peer -> SUBSET Delivery]
    BY <1>1, <2>1, <2>3, PublishDelivers
  <2>7. TypeOK'
    BY <1>1, <2>1, <2>5, <2>6 DEF TypeOK, entries, caches
  <2>8. Numbered' /\ Owned'
    BY <1>1, <2>1, <2>4, <2>5
       DEF TInv, Numbered, Owned, entries, StoringHandlers, StoringSenders
  <2>9. QED
    BY <2>1, <2>4, <2>5, <2>7, <2>8, TInvKept DEF entries, caches
<1>5. QED
  BY <1>2, <1>3, <1>4

\* The event loops.
LEMMA LoopTInv ==
  ASSUME TInv, NEW p \in Peer, NEW d \in inbox[p],
         HandleQuery(p, d) \/ HandleResolution(p, d) \/ Lose(p, d)
  PROVE  TInv'
<1>1. TypeOK /\ d \in Delivery
  BY DEF TInv, TypeOK
<1>2. /\ UNCHANGED <<entries, value, sending, ask, clock>>
      /\ inbox' = [inbox EXCEPT ![p] = @ \ {d}]
  BY DEF HandleQuery, HandleResolution, Lose, Take, caches
<1>3. /\ cached' \in [Peer -> Answer \cup {NoAnswer}]
      /\ arrived' \in [Peer -> 0..MaxClock]
  BY <1>1, BoundsAssumption DEF HandleQuery, HandleResolution, Lose, caches, TypeOK
<1>4. pending' \subseteq Peer /\ faults' \in 0..MaxFaults
  BY <1>1, BoundsAssumption
     DEF HandleQuery, HandleResolution, Lose, Fault, caches, TypeOK
<1>5. ASSUME HandleQuery(p, d), value[p] # 0
      PROVE  Handled(p, d) \in Handler /\ Handled(p, d).pc = "find"
  BY <1>1, <1>5, BoundsAssumption
     DEF HandleQuery, Handled, Handler, Delivery, Sub, TypeOK
<1>6. handling' \subseteq Handler /\ StoringHandlers' \subseteq StoringHandlers
  <2>1. \/ handling' = handling
        \/ /\ HandleQuery(p, d) /\ value[p] # 0
           /\ handling' = handling \cup {Handled(p, d)}
    BY DEF HandleQuery, HandleResolution, Lose
  <2>2. QED
    BY <1>1, <1>5, <2>1 DEF TypeOK, StoringHandlers
<1>7. TypeOK'
  BY <1>1, <1>2, <1>3, <1>4, <1>6 DEF TypeOK, entries
<1>8. Numbered' /\ Owned'
  BY <1>2, <1>6 DEF TInv, Numbered, Owned, entries, StoringSenders
<1>9. QED
  BY <1>2, <1>7, <1>8, TInvKept DEF entries

\* A step of a handler, and what it makes of it.
LEMMA HandlerTInv ==
  ASSUME TInv, NEW h \in handling, HandlerStep(h) \/ HandlerFails(h)
  PROVE  TInv'
<1>1. TypeOK /\ h \in Handler /\ h.at \in Peer
  BY HandlerFacts DEF TInv
<1>2. ASSUME UNCHANGED <<resource, removing, manage, caches, ask, inbox, clock>>,
             live' \in [Peer -> SUBSET Sub], built' \in [Peer -> 0..MaxSubs],
             handling' \subseteq Handler, sending' \subseteq Sender,
             faults' \in 0..MaxFaults,
             \A k \in StoringHandlers' : k \in handling \/ k.own \in Sub,
             StoringSenders' \subseteq StoringSenders
      PROVE  TInv'
  <2>1. TypeOK'
    BY <1>1, <1>2 DEF TypeOK, caches
  <2>2. Numbered' /\ Owned'
    BY <1>2 DEF TInv, Numbered, Owned, StoringHandlers
  <2>3. QED
    BY <1>2, <2>1, <2>2, TInvKept DEF caches
<1>3. CASE HandlerFound(h)
  <2> DEFINE g == [at |-> h.at, own |-> 0, pc |-> "asleep",
                   answer |-> [re |-> h.msg, by |-> h.to, value |-> h.value,
                               stamp |-> clock]]
  <2>1. g \in Sender /\ g.pc = "asleep"
    <3>1. [re |-> h.msg, by |-> h.to, value |-> h.value, stamp |-> clock] \in Answer
      BY <1>1, HandlerFacts DEF Answer, TypeOK
    <3>2. QED
      BY <1>1, <3>1, BoundsAssumption DEF Sender
  <2>2. /\ UNCHANGED <<entries, caches, inbox, ask, clock, faults>>
        /\ handling' \subseteq handling
        /\ sending' = sending \/ sending' = sending \cup {g}
    BY <1>3 DEF HandlerFound, Turn
  <2> HIDE DEF g
  <2>3. sending' \subseteq Sender /\ StoringSenders' \subseteq StoringSenders
    BY <1>1, <2>1, <2>2 DEF TypeOK, StoringSenders
  <2>4. QED
    BY <1>1, <1>2, <2>2, <2>3 DEF TypeOK, entries, StoringHandlers
<1>4. CASE HandlerMissed(h)
  <2> DEFINE k == [h EXCEPT !.pc = "build"]
  <2>1. k \in Handler /\ k.pc = "build"
    BY <1>1, HandlerBuilds
  <2>2. /\ UNCHANGED <<entries, caches, sending, inbox, ask, clock, faults>>
        /\ handling' = (handling \ {h}) \cup {k}
    BY <1>4 DEF HandlerMissed, Turn
  <2> HIDE DEF k
  <2>3. QED
    BY <1>1, <1>2, <2>1, <2>2 DEF TypeOK, entries, StoringHandlers, StoringSenders
<1>5. CASE HandlerBuild(h)
  <2> DEFINE i == built'[h.at]
             k == [h EXCEPT !.pc = "store", !.own = i]
  <2>1. /\ UNCHANGED <<resource, removing, manage, caches, sending, inbox, ask, clock,
                       faults>>
        /\ Register(h.at) /\ handling' = (handling \ {h}) \cup {k}
    BY <1>5 DEF HandlerBuild, Turn
  <2>2. /\ i \in Sub /\ i \in 0..MaxSubs
        /\ built' \in [Peer -> 0..MaxSubs] /\ live' \in [Peer -> SUBSET Sub]
    BY <1>1, <2>1, Registers
  <2>3. k \in Handler /\ k.own = i
    BY <1>1, <2>2, HandlerGoesOn
  <2> HIDE DEF k, i
  <2>4. QED
    BY <1>1, <1>2, <2>1, <2>2, <2>3 DEF TypeOK, StoringHandlers, StoringSenders
<1>6. CASE HandlerStore(h)
  <2>1. /\ UNCHANGED <<live, built, removing, manage, caches, sending, inbox, ask,
                       clock, faults>>
        /\ Store(h.at, FALSE, h.own) /\ handling' \subseteq handling
        /\ h \in StoringHandlers
    BY <1>6 DEF HandlerStore, Turn, StoringHandlers
  <2>2. resource' \in [Peer -> Entry \cup {NoEntry}] /\ ~resource'[h.at].keys
        /\ \A q \in Peer : q # h.at => resource'[q] = resource[q]
    BY <1>1, <2>1, Stores DEF TInv, Owned
  <2>3. TypeOK'
    BY <1>1, <2>1, <2>2 DEF TypeOK, caches
  <2>4. OwnersOnly' /\ Numbered' /\ Owned' /\ Removing'
    BY <1>1, <2>1, <2>2
       DEF TInv, OwnersOnly, Numbered, Owned, Removing, HasKeys, caches,
           StoringHandlers, StoringSenders
  <2>5. QED
    BY <2>3, <2>4 DEF TInv
<1>7. CASE HandlerFails(h)
  <2>1. /\ UNCHANGED <<entries, caches, sending, inbox, ask, clock>>
        /\ handling' \subseteq handling /\ faults' \in 0..MaxFaults
    BY <1>1, <1>7, BoundsAssumption DEF HandlerFails, Turn, Fault, TypeOK
  <2>2. QED
    BY <1>1, <1>2, <2>1 DEF TypeOK, entries, StoringHandlers, StoringSenders
<1>8. QED
  BY <1>3, <1>4, <1>5, <1>6, <1>7 DEF HandlerStep

\* A step of a sender.
LEMMA SenderTInv ==
  ASSUME TInv, NEW g \in sending, SendStep(g) \/ SendFails(g)
  PROVE  TInv'
<1>1. TypeOK /\ g \in Sender /\ g.at \in Peer /\ g.answer \in Answer
  BY SenderFacts DEF TInv
<1>2. ASSUME UNCHANGED <<removing, manage, value, cached, arrived, handling, ask, clock>>,
             resource' \in [Peer -> Entry \cup {NoEntry}],
             \A q \in Peer : resource'[q] = resource[q] \/ ~resource'[q].keys,
             live' \in [Peer -> SUBSET Sub], built' \in [Peer -> 0..MaxSubs],
             pending' \subseteq Peer, inbox' \in [Peer -> SUBSET Delivery],
             sending' \subseteq Sender, faults' \in 0..MaxFaults,
             \A k \in StoringSenders' : k \in sending \/ k.own \in Sub
      PROVE  TInv'
  <2>1. TypeOK'
    BY <1>1, <1>2 DEF TypeOK
  <2>2. OwnersOnly' /\ Numbered' /\ Owned' /\ Removing'
    BY <1>2 DEF TInv, OwnersOnly, Numbered, Owned, Removing, HasKeys, StoringHandlers,
                StoringSenders
  <2>3. QED
    BY <2>1, <2>2 DEF TInv
<1>3. CASE Wake(g) \/ DeletePending(g) \/ SendMissed(g)
  <2>1. /\ UNCHANGED <<entries, value, cached, arrived, handling, inbox, ask, clock,
                       faults>>
        /\ pending' \subseteq pending
        /\ \E k \in Sender : k.pc # "store" /\ sending' \subseteq sending \cup {k}
    <3>1. /\ [g EXCEPT !.pc = "found"] \in Sender /\ [g EXCEPT !.pc = "find"] \in Sender
          /\ [g EXCEPT !.pc = "build"] \in Sender
          /\ [g EXCEPT !.pc = "found"].pc # "store"
          /\ [g EXCEPT !.pc = "find"].pc # "store"
          /\ [g EXCEPT !.pc = "build"].pc # "store"
      BY <1>1, SenderTurns
    <3>2. CASE Wake(g)
      BY <3>1, <3>2 DEF Wake, Proceed, caches
    <3>3. CASE DeletePending(g)
      BY <3>1, <3>3 DEF DeletePending, Proceed
    <3>4. CASE SendMissed(g)
      BY <3>1, <3>4 DEF SendMissed, Proceed, caches
    <3>5. QED
      BY <1>3, <3>2, <3>3, <3>4
  <2>2. QED
    BY <1>1, <1>2, <2>1 DEF TypeOK, entries, StoringSenders
<1>4. CASE SendAnswer(g)
  <2>1. /\ UNCHANGED <<entries, caches, handling, ask, clock, faults>>
        /\ sending' \subseteq sending /\ Publish(g.at, g.answer)
    BY <1>4 DEF SendAnswer, Proceed
  <2>2. inbox' \in [Peer -> SUBSET Delivery]
    BY <1>1, <2>1, PublishDelivers
  <2>3. QED
    BY <1>1, <1>2, <2>1, <2>2 DEF TypeOK, entries, caches, StoringSenders
<1>5. CASE SendBuild(g)
  <2> DEFINE i == built'[g.at]
             k == [g EXCEPT !.pc = "store", !.own = i]
  <2>1. /\ UNCHANGED <<resource, removing, manage, caches, handling, inbox, ask, clock,
                       faults>>
        /\ Register(g.at) /\ sending' = (sending \ {g}) \cup {k}
    BY <1>5 DEF SendBuild, Proceed
  <2>2. /\ i \in Sub /\ i \in 0..MaxSubs
        /\ built' \in [Peer -> 0..MaxSubs] /\ live' \in [Peer -> SUBSET Sub]
    BY <1>1, <2>1, Registers
  <2>3. k \in Sender /\ k.own = i
    BY <1>1, <2>2, SenderGoesOn
  <2> HIDE DEF k, i
  <2>4. QED
    BY <1>1, <1>2, <2>1, <2>2, <2>3 DEF TypeOK, caches, StoringSenders
<1>6. CASE SendStore(g)
  <2>1. /\ UNCHANGED <<live, built, removing, manage, caches, handling, ask, clock,
                       faults>>
        /\ Store(g.at, FALSE, g.own) /\ Publish(g.at, g.answer)
        /\ sending' \subseteq sending /\ g.own \in Sub
    BY <1>6 DEF SendStore, Proceed, StoringSenders, TInv, Owned
  <2>2. resource' \in [Peer -> Entry \cup {NoEntry}] /\ ~resource'[g.at].keys
        /\ \A q \in Peer : q # g.at => resource'[q] = resource[q]
    BY <1>1, <2>1, Stores
  <2>3. inbox' \in [Peer -> SUBSET Delivery]
    BY <1>1, <2>1, PublishDelivers
  <2>4. QED
    BY <1>1, <1>2, <2>1, <2>2, <2>3 DEF TypeOK, caches, StoringSenders
<1>7. CASE SendFails(g)
  <2>1. /\ UNCHANGED <<entries, caches, handling, inbox, ask, clock>>
        /\ sending' \subseteq sending /\ faults' \in 0..MaxFaults
    BY <1>1, <1>7, BoundsAssumption DEF SendFails, Proceed, Fault, TypeOK
  <2>2. QED
    BY <1>1, <1>2, <2>1 DEF TypeOK, entries, caches, StoringSenders
<1>8. QED
  BY <1>3, <1>4, <1>5, <1>6, <1>7 DEF SendStep

LEMMA TimeTInv ==
  ASSUME TInv, Tick \/ (\E p \in Peer : Expire(p)) \/ UNCHANGED vars
  PROVE  TInv'
<1>1. TypeOK
  BY DEF TInv
<1>2. UNCHANGED <<entries, value, pending, messages, ask, faults>>
  BY DEF Tick, Expire, vars, caches
<1>3. clock' \in 0..MaxClock
  BY <1>1, BoundsAssumption DEF Tick, Expire, vars, TypeOK
<1>4. cached' \in [Peer -> Answer \cup {NoAnswer}] /\ arrived' \in [Peer -> 0..MaxClock]
  <2>1. 0 \in 0..MaxClock
    BY BoundsAssumption
  <2>2. QED
    BY <1>1, <2>1 DEF Tick, Expire, vars, caches, TypeOK
<1>5. TypeOK'
  BY <1>1, <1>2, <1>3, <1>4 DEF TypeOK, entries, messages
<1>6. Numbered' /\ Owned'
  BY <1>2 DEF TInv, Numbered, Owned, entries, messages, StoringHandlers, StoringSenders
<1>7. QED
  BY <1>2, <1>5, <1>6, TInvKept DEF entries

\* Next, by who takes the step.
LEMMA NextSteps ==
  ASSUME [Next]_vars
  PROVE  \/ \E p \in Peer :
              Manage(p) \/ ManageFails(p) \/ Remove(p) \/ RemoveEntry(p) \/ Add(p)
         \/ \E p \in Peer :
              \/ ResolveManaged(p) \/ ResolveCached(p) \/ StartQuery(p) \/ Subscribe(p)
              \/ EmitFails(p) \/ Poll(p) \/ GiveUp(p)
         \/ \E p \in Peer : SubscribeBuild(p) \/ SubscribeStore(p) \/ Emit(p)
         \/ \E p \in Peer : \E d \in inbox[p] :
              HandleQuery(p, d) \/ HandleResolution(p, d) \/ Lose(p, d)
         \/ \E h \in handling : HandlerStep(h) \/ HandlerFails(h)
         \/ \E g \in sending : SendStep(g) \/ SendFails(g)
         \/ Tick \/ (\E p \in Peer : Expire(p)) \/ UNCHANGED vars
  BY DEF Next, QueryStep, LoopStep

LEMMA StepTInv ==
  ASSUME TInv, [Next]_vars
  PROVE  TInv'
<1>1. ASSUME NEW p \in Peer,
             \/ ResolveManaged(p) \/ ResolveCached(p) \/ StartQuery(p) \/ Subscribe(p)
             \/ EmitFails(p) \/ Poll(p) \/ GiveUp(p)
      PROVE  TInv'
  <2>1. /\ UNCHANGED <<entries, caches, messages, clock>> /\ faults' \in 0..MaxFaults
        /\ ask'[p] \in Ask /\ ask' = [ask EXCEPT ![p] = ask'[p]]
        /\ ask'[p].pc # "idle" => p \in Reader /\ ask'[p].n \in 1..MaxQueries
        /\ ask'[p].pc # "store"
    BY <1>1, AskSteps
  <2>2. QED
    BY <2>1, AskTInv
<1>2. QED
  BY <1>1, NextSteps, ManageTInv, SubscribeTInv, LoopTInv, HandlerTInv, SenderTInv,
     TimeTInv

\* Every variable of the resolver keeps its kind, for any peers, owners, readers
\* and bounds: no event manager is stored that was not built, and only what a
\* backend has is answered with.
THEOREM ResolverTypes == Spec => []TypeOK
<1>1. TInv /\ [Next]_vars => TInv'
  BY StepTInv
<1>2. QED
  BY InitTInv, <1>1, PTL DEF Spec, TInv

-----------------------------------------------------------------------------
(* Entries and event managers.                                             *)

\* Managers are numbered as they are built.
Built == \A p \in Peer : live[p] \subseteq 1..built[p] /\ resource[p].sub <= built[p]

Listens ==
  \A p \in Peer :
    resource[p] # NoEntry /\ p \notin removing => resource[p].sub \in live[p]

\* A manager that has its callbacks and no entry yet.
Free(p, i) == i \in live[p] /\ resource[p].sub # i

\* Who is about to store an entry has a manager nobody else knows.
Holders ==
  /\ \A p \in Peer : manage[p].pc = "store" => Free(p, manage[p].own)
  /\ \A p \in Peer : ask[p].pc = "store" => Free(p, ask[p].own)
  /\ \A h \in StoringHandlers : Free(h.at, h.own)
  /\ \A g \in StoringSenders : Free(g.at, g.own)

Alone ==
  /\ \A p \in Peer : manage[p].pc = "store" =>
       /\ ask[p].pc = "store" => ask[p].own # manage[p].own
       /\ \A h \in StoringHandlers : h.at = p => h.own # manage[p].own
       /\ \A g \in StoringSenders : g.at = p => g.own # manage[p].own
  /\ \A p \in Peer : ask[p].pc = "store" =>
       /\ \A h \in StoringHandlers : h.at = p => h.own # ask[p].own
       /\ \A g \in StoringSenders : g.at = p => g.own # ask[p].own
  /\ \A h \in StoringHandlers, g \in StoringSenders : h.at = g.at => h.own # g.own
  /\ \A h, k \in StoringHandlers : h.at = k.at /\ h.own = k.own => h = k
  /\ \A g, k \in StoringSenders : g.at = k.at /\ g.own = k.own => g = k

CInv == Built /\ Listens /\ Holders /\ Alone

\* Nobody new is about to store, and nothing is stored.
LEMMA EntriesKept ==
  ASSUME CInv, UNCHANGED <<resource, live, built>>, removing \subseteq removing',
         \A p \in Peer : manage'[p].pc = "store" => manage'[p] = manage[p],
         \A p \in Peer : ask'[p].pc = "store" => ask'[p] = ask[p],
         StoringHandlers' \subseteq StoringHandlers,
         StoringSenders' \subseteq StoringSenders
  PROVE  CInv'
<1> USE DEF CInv
<1>1. Built' /\ Listens'
  BY DEF Built, Listens
<1>2. Holders'
  BY DEF Holders, Free
<1>3. Alone'
  BY DEF Alone
<1>4. QED
  BY <1>1, <1>2, <1>3

\* One call builds a manager, whose number is new.
LEMMA EntriesBuilt ==
  ASSUME CInv, TInv, NEW p \in Peer, Register(p), UNCHANGED <<resource, removing>>,
         NEW who \in {"manage", "ask", "handler", "sender"}, NEW new,
         \A q \in Peer : manage'[q].pc = "store" =>
           \/ manage'[q] = manage[q]
           \/ who = "manage" /\ q = p /\ manage'[q].own = built[p] + 1,
         \A q \in Peer : ask'[q].pc = "store" =>
           \/ ask'[q] = ask[q]
           \/ who = "ask" /\ q = p /\ ask'[q].own = built[p] + 1,
         \A h \in StoringHandlers' :
           \/ h \in StoringHandlers
           \/ who = "handler" /\ h = new /\ h.at = p /\ h.own = built[p] + 1,
         \A g \in StoringSenders' :
           \/ g \in StoringSenders
           \/ who = "sender" /\ g = new /\ g.at = p /\ g.own = built[p] + 1
  PROVE  CInv'
<1> DEFINE n == built[p] + 1
<1>0. TypeOK
  BY DEF TInv
<1>1. /\ built \in [Peer -> Nat] /\ built'[p] = n /\ live'[p] = live[p] \cup {n}
      /\ \A q \in Peer : q # p => built'[q] = built[q] /\ live'[q] = live[q]
  BY <1>0, Registers
<1>2. n \notin live[p] /\ resource[p].sub # n /\ n \in Nat
  <2>1. resource[p].sub \in Nat
    BY <1>0, BoundsAssumption DEF TypeOK, Entry, NoEntry, Sub
  <2>2. QED
    BY <1>1, <2>1 DEF CInv, Built
<1>3. \A q \in Peer : \A i : Free(q, i) =>
        i \in live'[q] /\ resource'[q].sub # i /\ (q = p => i # n)
  BY <1>1, <1>2 DEF Free
<1>4. n \in live'[p] /\ resource'[p].sub # n
  BY <1>1, <1>2
<1>5. Built'
  <2>1. \A q \in Peer : resource[q].sub \in Nat
    BY <1>0, BoundsAssumption DEF TypeOK, Entry, NoEntry, Sub
  <2>2. QED
    BY <1>1, <2>1 DEF CInv, Built
<1>6. Listens'
  BY <1>1 DEF CInv, Listens
<1>7. \A h \in StoringHandlers : h.at \in Peer
  BY <1>0, HandlerFacts DEF StoringHandlers
<1>8. \A g \in StoringSenders : g.at \in Peer
  BY <1>0, SenderFacts DEF StoringSenders
<1> HIDE DEF n
<1>9. Holders'
  <2>1. \A q \in Peer : manage'[q].pc = "store" =>
          manage'[q].own \in live'[q] /\ resource'[q].sub # manage'[q].own
    BY <1>3, <1>4 DEF CInv, Holders, n
  <2>2. \A q \in Peer : ask'[q].pc = "store" =>
          ask'[q].own \in live'[q] /\ resource'[q].sub # ask'[q].own
    BY <1>3, <1>4 DEF CInv, Holders, n
  <2>3. \A h \in StoringHandlers' :
          h.own \in live'[h.at] /\ resource'[h.at].sub # h.own
    BY <1>3, <1>4, <1>7 DEF CInv, Holders, n
  <2>4. \A g \in StoringSenders' :
          g.own \in live'[g.at] /\ resource'[g.at].sub # g.own
    BY <1>3, <1>4, <1>8 DEF CInv, Holders, n
  <2>5. QED
    BY <2>1, <2>2, <2>3, <2>4 DEF Holders, Free
<1>10. /\ manage[p].pc = "store" => manage[p].own # n
       /\ ask[p].pc = "store" => ask[p].own # n
       /\ \A h \in StoringHandlers : h.at = p => h.own # n
       /\ \A g \in StoringSenders : g.at = p => g.own # n
  BY <1>3 DEF CInv, Holders
<1>11. Alone'
  <2>1. CASE who = "manage"
    BY <1>10, <2>1 DEF CInv, Alone, n
  <2>2. CASE who = "ask"
    BY <1>10, <2>2 DEF CInv, Alone, n
  <2>3. CASE who = "handler"
    BY <1>10, <2>3 DEF CInv, Alone, n
  <2>4. CASE who = "sender"
    BY <1>10, <2>4 DEF CInv, Alone, n
  <2>5. QED
    BY <2>1, <2>2, <2>3, <2>4
<1>12. QED
  BY <1>5, <1>6, <1>9, <1>11 DEF CInv

\* One call stores its entry.
LEMMA EntriesStored ==
  ASSUME CInv, TInv, NEW p \in Peer, NEW keys \in BOOLEAN, NEW i \in Sub,
         Store(p, keys, i), UNCHANGED <<live, built, removing>>, i \in live[p],
         \A q \in Peer : manage'[q].pc = "store" =>
           manage'[q] = manage[q] /\ (q = p => manage[q].own # i),
         \A q \in Peer : ask'[q].pc = "store" =>
           ask'[q] = ask[q] /\ (q = p => ask[q].own # i),
         \A h \in StoringHandlers' :
           h \in StoringHandlers /\ (h.at = p => h.own # i),
         \A g \in StoringSenders' :
           g \in StoringSenders /\ (g.at = p => g.own # i)
  PROVE  CInv'
<1>0. TypeOK
  BY DEF TInv
<1>1. resource'[p].sub = i /\ \A q \in Peer : q # p => resource'[q] = resource[q]
  BY <1>0 DEF Store, TypeOK
<1>2. Built' /\ Listens'
  <2>1. i <= built[p]
    BY <1>0, BoundsAssumption DEF CInv, Built, TypeOK
  <2>2. QED
    BY <1>1, <2>1 DEF CInv, Built, Listens
<1>3. \A q \in Peer : \A j : Free(q, j) /\ (q = p => j # i) =>
        j \in live'[q] /\ resource'[q].sub # j
  BY <1>1 DEF Free
<1>4. \A h \in StoringHandlers : h.at \in Peer
  BY <1>0, HandlerFacts DEF StoringHandlers
<1>5. \A g \in StoringSenders : g.at \in Peer
  BY <1>0, SenderFacts DEF StoringSenders
<1>6. Holders'
  <2>1. \A q \in Peer : manage'[q].pc = "store" =>
          manage'[q].own \in live'[q] /\ resource'[q].sub # manage'[q].own
    BY <1>3 DEF CInv, Holders
  <2>2. \A q \in Peer : ask'[q].pc = "store" =>
          ask'[q].own \in live'[q] /\ resource'[q].sub # ask'[q].own
    BY <1>3 DEF CInv, Holders
  <2>3. \A h \in StoringHandlers' :
          h.own \in live'[h.at] /\ resource'[h.at].sub # h.own
    BY <1>3, <1>4 DEF CInv, Holders
  <2>4. \A g \in StoringSenders' :
          g.own \in live'[g.at] /\ resource'[g.at].sub # g.own
    BY <1>3, <1>5 DEF CInv, Holders
  <2>5. QED
    BY <2>1, <2>2, <2>3, <2>4 DEF Holders, Free
<1>7. Alone'
  BY DEF CInv, Alone
<1>8. QED
  BY <1>2, <1>6, <1>7 DEF CInv

\* Messages of a manager whose callbacks are gone.
Drained ==
  \A p \in Peer : \A d \in inbox[p] : d.to \notin live[p] =>
    /\ \A e \in inbox[p] : d.to = e.to => d = e
    /\ \A h \in handling : <<h.at, h.to>> # <<p, d.to>>

\* A loop handles one query at a time.
OneInHand == \A h, k \in handling : h.at = k.at /\ h.to = k.to => h = k

DInv == Drained /\ OneInHand

\* Messages come to managers with callbacks, and no query is taken.
LEMMA DrainedKept ==
  ASSUME DInv, \A p \in Peer : live[p] \subseteq live'[p],
         \A p \in Peer : \A d \in inbox'[p] : d \in inbox[p] \/ d.to \in live[p],
         \A h \in handling' : \E k \in handling : h.at = k.at /\ h.to = k.to
  PROVE  Drained'
  BY DEF DInv, Drained

LEMMA DrainedUnchanged ==
  ASSUME DInv, UNCHANGED <<handling, inbox>>, \A p \in Peer : live[p] \subseteq live'[p]
  PROVE  DInv'
  BY DrainedKept DEF DInv, OneInHand

EInv == TInv /\ CInv /\ DInv

LEMMA InitEInv == Init => EInv
<1> SUFFICES ASSUME Init PROVE EInv
  OBVIOUS
<1>1. TInv
  BY InitTInv
<1>2. CInv
  BY DEF Init, CInv, Built, Listens, Holders, Alone, Free, StoringHandlers,
         StoringSenders, NoEntry
<1>3. DInv
  BY DEF Init, DInv, Drained, OneInHand
<1>4. QED
  BY <1>1, <1>2, <1>3 DEF EInv

LEMMA ManageEInv ==
  ASSUME EInv, NEW p \in Peer,
         Manage(p) \/ ManageFails(p) \/ RemoveEntry(p) \/ Add(p)
  PROVE  CInv' /\ DInv'
<1> USE DEF EInv
<1>0. TypeOK /\ manage \in [Peer -> Managing] /\ CInv /\ DInv /\ TInv
  BY DEF TInv, TypeOK
<1>1. CASE ManageFound(p) \/ ManageMissed(p) \/ ManageFails(p)
  <2>1. /\ \E pc \in {"no", "build", "done"} : manage' = [manage EXCEPT ![p].pc = pc]
        /\ UNCHANGED <<resource, live, built, removing, ask, handling, sending, inbox>>
    BY <1>1 DEF ManageFound, ManageMissed, ManageFails, messages
  <2>2. \A q \in Peer : manage'[q].pc = "store" => manage'[q] = manage[q]
    BY <1>0, <2>1, ManageTurns
  <2>3. CInv'
    BY <2>1, <2>2, EntriesKept DEF StoringHandlers, StoringSenders
  <2>4. DInv'
    BY <2>1, DrainedUnchanged
  <2>5. QED
    BY <2>3, <2>4
<1>2. CASE ManageBuild(p)
  <2>1. /\ UNCHANGED <<resource, removing, ask, handling, sending, inbox>>
        /\ Register(p)
        /\ manage' = [manage EXCEPT ![p] = [pc |-> "store", own |-> built'[p]]]
    BY <1>2 DEF ManageBuild, messages
  <2>2. built'[p] = built[p] + 1 /\ \A q \in Peer : live[q] \subseteq live'[q]
    BY <1>0, <2>1, Registers
  <2>3. \A q \in Peer : manage'[q].pc = "store" =>
          \/ manage'[q] = manage[q]
          \/ q = p /\ manage'[q].own = built[p] + 1
    BY <1>0, <2>1, <2>2
  <2>4. CInv'
    <3> DEFINE who == "manage"
    <3>1. who \in {"manage", "ask", "handler", "sender"}
      OBVIOUS
    <3>2. QED
      BY <1>0, <2>1, <2>3, <3>1, EntriesBuilt DEF StoringHandlers, StoringSenders
  <2>5. DInv'
    BY <2>1, <2>2, DrainedUnchanged
  <2>6. QED
    BY <2>4, <2>5
<1>3. CASE ManageStore(p)
  <2> DEFINE i == manage[p].own
  <2>1. /\ UNCHANGED <<live, built, removing, ask, handling, sending, inbox>>
        /\ Store(p, TRUE, i) /\ manage[p].pc = "store"
        /\ manage' = [manage EXCEPT ![p] = [pc |-> "done", own |-> 0]]
    BY <1>3 DEF ManageStore, messages
  <2>2. i \in Sub /\ i \in live[p]
    BY <1>0, <2>1 DEF TInv, Owned, CInv, Holders, Free
  <2>3. \A q \in Peer : manage'[q].pc = "store" => manage'[q] = manage[q] /\ q # p
    BY <1>0, <2>1
  <2>4. /\ ask[p].pc = "store" => ask[p].own # i
        /\ \A h \in StoringHandlers : h.at = p => h.own # i
        /\ \A g \in StoringSenders : g.at = p => g.own # i
    BY <2>1 DEF CInv, Alone
  <2>5. StoringHandlers' = StoringHandlers /\ StoringSenders' = StoringSenders
    BY <2>1 DEF StoringHandlers, StoringSenders
  <2> HIDE DEF i
  <2>6. CInv'
    <3>1. /\ \A q \in Peer : manage'[q].pc = "store" =>
               manage'[q] = manage[q] /\ (q = p => manage[q].own # i)
          /\ \A q \in Peer : ask'[q].pc = "store" =>
               ask'[q] = ask[q] /\ (q = p => ask[q].own # i)
          /\ \A h \in StoringHandlers' : h \in StoringHandlers /\ (h.at = p => h.own # i)
          /\ \A g \in StoringSenders' : g \in StoringSenders /\ (g.at = p => g.own # i)
      BY <2>1, <2>3, <2>4, <2>5
    <3>2. TRUE \in BOOLEAN
      OBVIOUS
    <3>3. QED
      BY <1>0, <2>1, <2>2, <3>1, <3>2, EntriesStored
  <2>7. DInv'
    BY <2>1, DrainedUnchanged
  <2>8. QED
    BY <2>6, <2>7
<1>4. CASE RemoveEntry(p)
  <2>1. /\ UNCHANGED <<live, built, manage, handling, sending, inbox>>
        /\ resource' = [resource EXCEPT ![p] = NoEntry]
        /\ removing' = removing \ {p}
        /\ \A q \in Peer : ask'[q].pc = ask[q].pc /\ ask'[q].own = ask[q].own
    BY <1>0, <1>4, AskForsaken DEF RemoveEntry, messages
  <2>2. \A q \in Peer : \/ q # p /\ resource'[q] = resource[q]
                        \/ resource'[q] = NoEntry
    BY <1>0, <2>1 DEF TypeOK
  <2>3. NoEntry.sub = 0 /\ \A q \in Peer : built[q] \in Nat
    BY <1>0, BoundsAssumption DEF NoEntry, TypeOK
  <2>4. Built' /\ Listens'
    BY <2>1, <2>2, <2>3 DEF CInv, Built, Listens
  <2>5. \A q \in Peer : \A j \in Sub : Free(q, j) => j \in live'[q] /\ resource'[q].sub # j
    BY <2>1, <2>2, <2>3, BoundsAssumption DEF Free, Sub
  <2>6. /\ \A h \in StoringHandlers : h.at \in Peer
        /\ \A g \in StoringSenders : g.at \in Peer
    BY <1>0, HandlerFacts, SenderFacts DEF StoringHandlers, StoringSenders
  <2>7. StoringHandlers' = StoringHandlers /\ StoringSenders' = StoringSenders
    BY <2>1 DEF StoringHandlers, StoringSenders
  <2>8. Holders'
    <3>1. \A q \in Peer : manage[q].pc = "store" =>
            manage[q].own \in live'[q] /\ resource'[q].sub # manage[q].own
      BY <1>0, <2>5 DEF CInv, Holders, TInv, Owned
    <3>2. \A q \in Peer : ask[q].pc = "store" =>
            ask[q].own \in live'[q] /\ resource'[q].sub # ask[q].own
      BY <1>0, <2>5 DEF CInv, Holders, TInv, Owned
    <3>3. \A h \in StoringHandlers :
            h.own \in live'[h.at] /\ resource'[h.at].sub # h.own
      BY <1>0, <2>5, <2>6 DEF CInv, Holders, TInv, Owned
    <3>4. \A g \in StoringSenders :
            g.own \in live'[g.at] /\ resource'[g.at].sub # g.own
      BY <1>0, <2>5, <2>6 DEF CInv, Holders, TInv, Owned
    <3>5. QED
      BY <2>1, <2>7, <3>1, <3>2, <3>3, <3>4 DEF Holders, Free
  <2>9. Alone'
    BY <2>1, <2>7 DEF CInv, Alone
  <2>10. DInv'
    BY <2>1, DrainedUnchanged
  <2>11. QED
    BY <2>4, <2>8, <2>9, <2>10 DEF CInv
<1>5. CASE Add(p)
  <2>1. UNCHANGED <<entries, handling, sending, inbox, ask>>
    BY <1>5 DEF Add, messages
  <2>2. CInv'
    BY <2>1, EntriesKept DEF entries, StoringHandlers, StoringSenders
  <2>3. QED
    BY <2>1, <2>2, DrainedUnchanged DEF entries
<1>6. QED
  BY <1>1, <1>2, <1>3, <1>4, <1>5 DEF Manage

\* The callbacks go, and the loop keeps one message at most.
LEMMA RemoveEInv ==
  ASSUME EInv, NEW p \in Peer, Remove(p)
  PROVE  CInv' /\ DInv'
<1> DEFINE i == resource[p].sub
<1>0. TypeOK /\ TInv /\ CInv /\ DInv
  BY DEF EInv, TInv
<1>1. PICK kept \in InHand(p, i) :
        inbox' = [inbox EXCEPT ![p] = {d \in @ : d.to # i} \cup kept]
  BY DEF Remove
<1>2. /\ UNCHANGED <<resource, built, manage, handling, sending>>
      /\ live' = [live EXCEPT ![p] = @ \ {i}] /\ removing' = removing \cup {p}
      /\ \A q \in Peer : ask'[q].pc = ask[q].pc /\ ask'[q].own = ask[q].own
  BY <1>0, AskForsaken DEF Remove
<1>3. /\ live'[p] = live[p] \ {i} /\ \A q \in Peer : q # p => live'[q] = live[q]
      /\ inbox'[p] = {d \in inbox[p] : d.to # i} \cup kept
      /\ \A q \in Peer : q # p => inbox'[q] = inbox[q]
  BY <1>0, <1>1, <1>2 DEF TypeOK
<1>4. /\ \A d \in kept : d \in inbox[p] /\ d.to = i
      /\ \A d, e \in kept : d = e
      /\ kept # {} => \A h \in handling : <<h.at, h.to>> # <<p, i>>
  BY DEF InHand
<1> HIDE DEF i
<1>5. Built' /\ Listens'
  BY <1>0, <1>2, <1>3 DEF CInv, Built, Listens
<1>6. \A q \in Peer : \A j : Free(q, j) => j \in live'[q] /\ resource'[q].sub # j
  BY <1>2, <1>3 DEF Free, i
<1>7. /\ \A h \in StoringHandlers : h.at \in Peer
      /\ \A g \in StoringSenders : g.at \in Peer
      /\ StoringHandlers' = StoringHandlers /\ StoringSenders' = StoringSenders
  BY <1>0, <1>2, HandlerFacts, SenderFacts DEF StoringHandlers, StoringSenders
<1>8. Holders'
  <2>1. \A q \in Peer : manage[q].pc = "store" =>
          manage[q].own \in live'[q] /\ resource'[q].sub # manage[q].own
    BY <1>0, <1>6 DEF CInv, Holders
  <2>2. \A q \in Peer : ask[q].pc = "store" =>
          ask[q].own \in live'[q] /\ resource'[q].sub # ask[q].own
    BY <1>0, <1>6 DEF CInv, Holders
  <2>3. \A h \in StoringHandlers : h.own \in live'[h.at] /\ resource'[h.at].sub # h.own
    BY <1>0, <1>6, <1>7 DEF CInv, Holders
  <2>4. \A g \in StoringSenders : g.own \in live'[g.at] /\ resource'[g.at].sub # g.own
    BY <1>0, <1>6, <1>7 DEF CInv, Holders
  <2>5. QED
    BY <1>2, <1>7, <2>1, <2>2, <2>3, <2>4 DEF Holders, Free
<1>9. Alone'
  BY <1>0, <1>2, <1>7 DEF CInv, Alone
<1>10. Drained'
  <2>1. ASSUME NEW q \in Peer, q # p, NEW d \in inbox'[q], d.to \notin live'[q]
        PROVE  /\ \A e \in inbox'[q] : d.to = e.to => d = e
               /\ \A h \in handling : <<h.at, h.to>> # <<q, d.to>>
    BY <1>0, <1>3, <2>1 DEF DInv, Drained
  <2>2. ASSUME NEW d \in inbox'[p], d.to \notin live'[p]
        PROVE  /\ \A e \in inbox'[p] : d.to = e.to => d = e
               /\ \A h \in handling : <<h.at, h.to>> # <<p, d.to>>
    <3>1. CASE d.to = i
      BY <1>3, <1>4, <2>2, <3>1
    <3>2. CASE d.to # i
      <4>1. d \in inbox[p] /\ d.to \notin live[p]
        BY <1>3, <1>4, <2>2, <3>2
      <4>2. QED
        BY <1>0, <1>3, <1>4, <3>2, <4>1 DEF DInv, Drained
    <3>3. QED
      BY <3>1, <3>2
  <2>3. QED
    BY <1>2, <2>1, <2>2 DEF Drained
<1>11. QED
  BY <1>0, <1>2, <1>5, <1>8, <1>9, <1>10 DEF CInv, DInv, OneInHand

LEMMA QueryEInv ==
  ASSUME EInv, NEW p \in Peer, SubscribeBuild(p) \/ SubscribeStore(p) \/ Emit(p)
  PROVE  CInv' /\ DInv'
<1>0. TypeOK /\ ask \in [Peer -> Ask] /\ ask[p] \in Ask /\ CInv /\ DInv /\ TInv
  BY DEF EInv, TInv, TypeOK
<1>1. CASE SubscribeBuild(p)
  <2> DEFINE k == [ask[p] EXCEPT !.pc = "store", !.own = built'[p]]
  <2>1. /\ UNCHANGED <<resource, removing, manage, handling, sending, inbox>>
        /\ Register(p) /\ ask' = [ask EXCEPT ![p] = k]
    BY <1>0, <1>1 DEF SubscribeBuild, messages
  <2>2. /\ built'[p] = built[p] + 1 /\ built'[p] \in 0..MaxSubs
        /\ \A q \in Peer : live[q] \subseteq live'[q]
    BY <1>0, <2>1, Registers
  <2>3. k.own = built[p] + 1
    BY <1>0, <2>2, AskGoesOn
  <2> HIDE DEF k
  <2>4. \A q \in Peer : \/ ask'[q] = ask[q]
                        \/ q = p /\ ask'[q].own = built[p] + 1
    BY <1>0, <2>1, <2>3
  <2>5. CInv'
    <3> DEFINE who == "ask"
    <3>1. who \in {"manage", "ask", "handler", "sender"}
      OBVIOUS
    <3>2. QED
      BY <1>0, <2>1, <2>4, <3>1, EntriesBuilt DEF StoringHandlers, StoringSenders
  <2>6. QED
    BY <1>0, <2>1, <2>2, <2>5, DrainedUnchanged
<1>2. CASE SubscribeStore(p)
  <2> DEFINE i == ask[p].own
             k == [ask[p] EXCEPT !.pc = "emit", !.own = 0]
  <2>1. /\ UNCHANGED <<live, built, removing, manage, handling, sending, inbox>>
        /\ Store(p, FALSE, i) /\ ask[p].pc = "store" /\ ask' = [ask EXCEPT ![p] = k]
    BY <1>0, <1>2 DEF SubscribeStore, messages
  <2>2. i \in Sub /\ i \in live[p]
    BY <1>0, <2>1 DEF TInv, Owned, CInv, Holders, Free
  <2>3. k.pc = "emit"
    BY <1>0, AskStored
  <2> HIDE DEF k
  <2>4. \A q \in Peer : ask'[q].pc = "store" => ask'[q] = ask[q] /\ q # p
    BY <1>0, <2>1, <2>3
  <2>5. /\ manage[p].pc = "store" => manage[p].own # i
        /\ \A h \in StoringHandlers : h.at = p => h.own # i
        /\ \A g \in StoringSenders : g.at = p => g.own # i
    BY <1>0, <2>1 DEF CInv, Alone
  <2>6. StoringHandlers' = StoringHandlers /\ StoringSenders' = StoringSenders
    BY <2>1 DEF StoringHandlers, StoringSenders
  <2> HIDE DEF i
  <2>7. CInv'
    <3>1. /\ \A q \in Peer : manage'[q].pc = "store" =>
               manage'[q] = manage[q] /\ (q = p => manage[q].own # i)
          /\ \A q \in Peer : ask'[q].pc = "store" =>
               ask'[q] = ask[q] /\ (q = p => ask[q].own # i)
          /\ \A h \in StoringHandlers' : h \in StoringHandlers /\ (h.at = p => h.own # i)
          /\ \A g \in StoringSenders' : g \in StoringSenders /\ (g.at = p => g.own # i)
      BY <2>1, <2>4, <2>5, <2>6
    <3>2. FALSE \in BOOLEAN
      OBVIOUS
    <3>3. QED
      BY <1>0, <2>1, <2>2, <3>1, <3>2, EntriesStored
  <2>8. QED
    BY <1>0, <2>1, <2>7, DrainedUnchanged
<1>3. CASE Emit(p)
  <2> DEFINE b == live[p] # {} /\ \E o \in Owner \ {p} : Listening(o) /\ value[o] # 0
             k == [ask[p] EXCEPT !.pc = "poll", !.answerable = b]
             m == [from |-> p, n |-> ask[p].n]
  <2>1. /\ UNCHANGED <<entries, handling, sending>>
        /\ Publish(p, m) /\ ask[p].pc = "emit" /\ ask' = [ask EXCEPT ![p] = k]
    BY <1>0, <1>3 DEF Emit
  <2>2. b \in BOOLEAN
    OBVIOUS
  <2>3. m \in QueryMsg
    BY <1>0, <2>1 DEF QueryMsg, TInv, Numbered
  <2> HIDE DEF b, m
  <2>4. k.pc = "poll"
    BY <1>0, <2>2, AskPolls
  <2> HIDE DEF k
  <2>5. \A q \in Peer : ask'[q].pc = "store" => ask'[q] = ask[q]
    BY <1>0, <2>1, <2>4
  <2>6. CInv'
    BY <1>0, <2>1, <2>5, EntriesKept DEF entries, StoringHandlers, StoringSenders
  <2>7. \A q \in Peer : \A d \in inbox'[q] : d \in inbox[q] \/ d.to \in live[q]
    BY <1>0, <2>1, <2>3, PublishDelivers
  <2>8. Drained'
    BY <1>0, <2>1, <2>7, DrainedKept DEF entries
  <2>9. QED
    BY <1>0, <2>1, <2>6, <2>8 DEF DInv, OneInHand
<1>4. QED
  BY <1>1, <1>2, <1>3

\* A loop that takes a message handles no other, and the one of a manager
\* without callbacks is its last.
LEMMA LoopEInv ==
  ASSUME EInv, NEW p \in Peer, NEW d \in inbox[p],
         HandleQuery(p, d) \/ HandleResolution(p, d) \/ Lose(p, d)
  PROVE  CInv' /\ DInv'
<1>0. TypeOK /\ CInv /\ DInv
  BY DEF EInv, TInv
<1>1. /\ UNCHANGED <<entries, sending, ask>> /\ inbox' = [inbox EXCEPT ![p] = @ \ {d}]
      /\ \/ handling' = handling
         \/ /\ handling' = handling \cup {Handled(p, d)}
            /\ \A h \in handling : <<h.at, h.to>> # <<p, d.to>>
  BY DEF HandleQuery, HandleResolution, Lose, Take
<1>2. Handled(p, d).at = p /\ Handled(p, d).to = d.to /\ Handled(p, d).pc = "find"
  BY DEF Handled
<1>3. CInv'
  BY <1>0, <1>1, <1>2, EntriesKept DEF entries, StoringHandlers, StoringSenders
<1>4. inbox'[p] = inbox[p] \ {d} /\ \A q \in Peer : q # p => inbox'[q] = inbox[q]
  BY <1>0, <1>1 DEF TypeOK
<1>5. Drained'
  <2>1. ASSUME NEW q \in Peer, NEW e \in inbox'[q], e.to \notin live[q]
        PROVE  /\ \A f \in inbox'[q] : e.to = f.to => e = f
               /\ \A h \in handling' : <<h.at, h.to>> # <<q, e.to>>
    <3>1. /\ e \in inbox[q] /\ (q = p => e # d)
          /\ \A f \in inbox[q] : e.to = f.to => e = f
          /\ \A h \in handling : <<h.at, h.to>> # <<q, e.to>>
      BY <1>0, <1>4, <2>1 DEF DInv, Drained
    <3>2. q = p => e.to # d.to
      BY <3>1
    <3>3. QED
      BY <1>1, <1>2, <1>4, <3>1, <3>2
  <2>2. QED
    BY <1>1, <2>1 DEF Drained, entries
<1>6. OneInHand'
  BY <1>0, <1>1, <1>2 DEF DInv, OneInHand
<1>7. QED
  BY <1>3, <1>5, <1>6 DEF DInv

\* A handler that goes on is still the one of its loop.
LEMMA TurnsInHand ==
  ASSUME DInv, NEW h \in handling, NEW k, k.at = h.at, k.to = h.to,
         handling' \subseteq (handling \ {h}) \cup {k}, UNCHANGED inbox,
         \A p \in Peer : live[p] \subseteq live'[p]
  PROVE  DInv'
<1>1. Drained'
  BY DrainedKept
<1>2. OneInHand'
  BY DEF DInv, OneInHand
<1>3. QED
  BY <1>1, <1>2 DEF DInv

LEMMA HandlerEInv ==
  ASSUME EInv, NEW h \in handling, HandlerStep(h) \/ HandlerFails(h)
  PROVE  CInv' /\ DInv'
<1>0. TypeOK /\ TInv /\ CInv /\ DInv /\ h \in Handler /\ h.at \in Peer
  BY HandlerFacts DEF EInv, TInv
<1>1. CASE HandlerFound(h) \/ HandlerFails(h)
  <2> DEFINE g == [at |-> h.at, own |-> 0, pc |-> "asleep",
                   answer |-> [re |-> h.msg, by |-> h.to, value |-> h.value,
                               stamp |-> clock]]
  <2>1. /\ UNCHANGED <<entries, inbox, ask>> /\ handling' = handling \ {h}
        /\ sending' = sending \/ sending' = sending \cup {g}
    BY <1>1 DEF HandlerFound, HandlerFails, Turn
  <2>2. g.pc = "asleep"
    OBVIOUS
  <2> HIDE DEF g
  <2>3. CInv'
    BY <1>0, <2>1, <2>2, EntriesKept DEF entries, StoringHandlers, StoringSenders
  <2>4. DInv'
    BY <1>0, <2>1, TurnsInHand DEF entries
  <2>5. QED
    BY <2>3, <2>4
<1>2. CASE HandlerMissed(h)
  <2> DEFINE k == [h EXCEPT !.pc = "build"]
  <2>1. UNCHANGED <<entries, inbox, ask, sending>> /\ handling' = (handling \ {h}) \cup {k}
    BY <1>2 DEF HandlerMissed, Turn
  <2>2. k.pc = "build" /\ k.at = h.at /\ k.to = h.to
    BY <1>0, HandlerBuilds
  <2> HIDE DEF k
  <2>3. CInv'
    BY <1>0, <2>1, <2>2, EntriesKept DEF entries, StoringHandlers, StoringSenders
  <2>4. DInv'
    BY <1>0, <2>1, <2>2, TurnsInHand DEF entries
  <2>5. QED
    BY <2>3, <2>4
<1>3. CASE HandlerBuild(h)
  <2> DEFINE k == [h EXCEPT !.pc = "store", !.own = built'[h.at]]
  <2>1. /\ UNCHANGED <<resource, removing, manage, sending, inbox, ask>>
        /\ Register(h.at) /\ handling' = (handling \ {h}) \cup {k}
    BY <1>3 DEF HandlerBuild, Turn
  <2>2. /\ built'[h.at] = built[h.at] + 1 /\ built'[h.at] \in 0..MaxSubs
        /\ \A q \in Peer : live[q] \subseteq live'[q]
    BY <1>0, <2>1, Registers
  <2>3. k.own = built[h.at] + 1 /\ k.at = h.at /\ k.to = h.to
    BY <1>0, <2>2, HandlerGoesOn
  <2> HIDE DEF k
  <2>4. \A j \in StoringHandlers' :
          \/ j \in StoringHandlers
          \/ j = k /\ j.at = h.at /\ j.own = built[h.at] + 1
    BY <2>1, <2>3 DEF StoringHandlers
  <2>5. CInv'
    <3> DEFINE who == "handler"
    <3>1. who \in {"manage", "ask", "handler", "sender"}
      OBVIOUS
    <3>2. QED
      BY <1>0, <2>1, <2>4, <3>1, EntriesBuilt DEF StoringSenders
  <2>6. DInv'
    BY <1>0, <2>1, <2>2, <2>3, TurnsInHand
  <2>7. QED
    BY <2>5, <2>6
<1>4. CASE HandlerStore(h)
  <2> DEFINE i == h.own
             p == h.at
  <2>1. /\ UNCHANGED <<live, built, removing, manage, sending, inbox, ask>>
        /\ Store(p, FALSE, i) /\ handling' = handling \ {h} /\ h \in StoringHandlers
    BY <1>4 DEF HandlerStore, Turn, StoringHandlers
  <2>2. p \in Peer /\ i \in Sub /\ i \in live[p]
    BY <1>0, <2>1 DEF TInv, Owned, CInv, Holders, Free
  <2>3. /\ \A q \in Peer : manage'[q].pc = "store" =>
             manage'[q] = manage[q] /\ (q = p => manage[q].own # i)
        /\ \A q \in Peer : ask'[q].pc = "store" =>
             ask'[q] = ask[q] /\ (q = p => ask[q].own # i)
    BY <1>0, <2>1 DEF CInv, Alone
  <2>4. \A k \in StoringHandlers' : k \in StoringHandlers /\ k # h
    BY <2>1 DEF StoringHandlers
  <2>5. /\ \A k \in StoringHandlers' : k \in StoringHandlers /\ (k.at = p => k.own # i)
        /\ \A g \in StoringSenders' : g \in StoringSenders /\ (g.at = p => g.own # i)
    <3>1. StoringSenders' = StoringSenders
      BY <2>1 DEF StoringSenders
    <3>2. QED
      BY <1>0, <2>1, <2>4, <3>1 DEF CInv, Alone
  <2>6. FALSE \in BOOLEAN
    OBVIOUS
  <2> HIDE DEF i, p
  <2>7. CInv'
    BY <1>0, <2>1, <2>2, <2>3, <2>5, <2>6, EntriesStored
  <2>8. DInv'
    BY <1>0, <2>1, TurnsInHand
  <2>9. QED
    BY <2>7, <2>8
<1>5. QED
  BY <1>1, <1>2, <1>3, <1>4 DEF HandlerStep

LEMMA SenderEInv ==
  ASSUME EInv, NEW g \in sending, SendStep(g) \/ SendFails(g)
  PROVE  CInv' /\ DInv'
<1>0. TypeOK /\ TInv /\ CInv /\ DInv /\ g \in Sender /\ g.at \in Peer /\ g.answer \in Answer
  BY SenderFacts DEF EInv, TInv
<1>1. CASE Wake(g) \/ DeletePending(g) \/ SendMissed(g) \/ SendFails(g)
  <2>1. /\ UNCHANGED <<entries, handling, inbox, ask>>
        /\ \E k : k.pc # "store" /\ sending' \subseteq sending \cup {k}
    <3>1. /\ [g EXCEPT !.pc = "found"].pc # "store"
          /\ [g EXCEPT !.pc = "find"].pc # "store"
          /\ [g EXCEPT !.pc = "build"].pc # "store"
      BY <1>0, SenderTurns
    <3>2. CASE Wake(g)
      BY <3>1, <3>2 DEF Wake, Proceed
    <3>3. CASE DeletePending(g)
      BY <3>1, <3>3 DEF DeletePending, Proceed
    <3>4. CASE SendMissed(g)
      BY <3>1, <3>4 DEF SendMissed, Proceed
    <3>5. CASE SendFails(g)
      BY <3>1, <3>5 DEF SendFails, Proceed
    <3>6. QED
      BY <1>1, <3>2, <3>3, <3>4, <3>5
  <2>2. CInv'
    BY <1>0, <2>1, EntriesKept DEF entries, StoringHandlers, StoringSenders
  <2>3. QED
    BY <1>0, <2>1, <2>2, DrainedUnchanged DEF entries
<1>2. CASE SendAnswer(g)
  <2>1. /\ UNCHANGED <<entries, handling, ask>>
        /\ sending' \subseteq sending /\ Publish(g.at, g.answer)
    BY <1>2 DEF SendAnswer, Proceed
  <2>2. \A q \in Peer : \A d \in inbox'[q] : d \in inbox[q] \/ d.to \in live[q]
    BY <1>0, <2>1, PublishDelivers
  <2>3. CInv'
    BY <1>0, <2>1, EntriesKept DEF entries, StoringHandlers, StoringSenders
  <2>4. Drained'
    BY <1>0, <2>1, <2>2, DrainedKept DEF entries
  <2>5. QED
    BY <1>0, <2>1, <2>3, <2>4 DEF DInv, OneInHand
<1>3. CASE SendBuild(g)
  <2> DEFINE k == [g EXCEPT !.pc = "store", !.own = built'[g.at]]
  <2>1. /\ UNCHANGED <<resource, removing, manage, handling, inbox, ask>>
        /\ Register(g.at) /\ sending' = (sending \ {g}) \cup {k}
    BY <1>3 DEF SendBuild, Proceed
  <2>2. /\ built'[g.at] = built[g.at] + 1 /\ built'[g.at] \in 0..MaxSubs
        /\ \A q \in Peer : live[q] \subseteq live'[q]
    BY <1>0, <2>1, Registers
  <2>3. k.own = built[g.at] + 1 /\ k.at = g.at
    BY <1>0, <2>2, SenderGoesOn
  <2> HIDE DEF k
  <2>4. \A j \in StoringSenders' :
          \/ j \in StoringSenders
          \/ j = k /\ j.at = g.at /\ j.own = built[g.at] + 1
    BY <2>1, <2>3 DEF StoringSenders
  <2>5. CInv'
    <3> DEFINE who == "sender"
    <3>1. who \in {"manage", "ask", "handler", "sender"}
      OBVIOUS
    <3>2. QED
      BY <1>0, <2>1, <2>4, <3>1, EntriesBuilt DEF StoringHandlers
  <2>6. QED
    BY <1>0, <2>1, <2>2, <2>5, DrainedUnchanged
<1>4. CASE SendStore(g)
  <2> DEFINE i == g.own
             p == g.at
  <2>1. /\ UNCHANGED <<live, built, removing, manage, handling, ask>>
        /\ Store(p, FALSE, i) /\ sending' = sending \ {g} /\ g \in StoringSenders
        /\ Publish(g.at, g.answer)
    BY <1>4 DEF SendStore, Proceed, StoringSenders
  <2>2. p \in Peer /\ i \in Sub /\ i \in live[p]
    BY <1>0, <2>1 DEF TInv, Owned, CInv, Holders, Free
  <2>3. /\ \A q \in Peer : manage'[q].pc = "store" =>
             manage'[q] = manage[q] /\ (q = p => manage[q].own # i)
        /\ \A q \in Peer : ask'[q].pc = "store" =>
             ask'[q] = ask[q] /\ (q = p => ask[q].own # i)
    BY <1>0, <2>1 DEF CInv, Alone
  <2>4. \A k \in StoringSenders' : k \in StoringSenders /\ k # g
    BY <2>1 DEF StoringSenders
  <2>5. /\ \A h \in StoringHandlers' : h \in StoringHandlers /\ (h.at = p => h.own # i)
        /\ \A k \in StoringSenders' : k \in StoringSenders /\ (k.at = p => k.own # i)
    <3>1. StoringHandlers' = StoringHandlers
      BY <2>1 DEF StoringHandlers
    <3>2. QED
      BY <1>0, <2>1, <2>4, <3>1 DEF CInv, Alone
  <2>6. FALSE \in BOOLEAN
    OBVIOUS
  <2>7. \A q \in Peer : \A d \in inbox'[q] : d \in inbox[q] \/ d.to \in live[q]
    BY <1>0, <2>1, PublishDelivers
  <2> HIDE DEF i, p
  <2>8. CInv'
    BY <1>0, <2>1, <2>2, <2>3, <2>5, <2>6, EntriesStored
  <2>9. Drained'
    BY <1>0, <2>1, <2>7, DrainedKept
  <2>10. QED
    BY <1>0, <2>1, <2>8, <2>9 DEF DInv, OneInHand
<1>5. QED
  BY <1>1, <1>2, <1>3, <1>4 DEF SendStep

LEMMA StepEInv ==
  ASSUME EInv, [Next]_vars
  PROVE  EInv'
<1>0. TInv /\ TypeOK /\ CInv /\ DInv /\ TInv'
  BY StepTInv DEF EInv, TInv
<1>1. ASSUME NEW p \in Peer,
             \/ ResolveManaged(p) \/ ResolveCached(p) \/ StartQuery(p) \/ Subscribe(p)
             \/ EmitFails(p) \/ Poll(p) \/ GiveUp(p)
      PROVE  CInv' /\ DInv'
  <2>1. /\ UNCHANGED <<entries, messages>>
        /\ ask' = [ask EXCEPT ![p] = ask'[p]] /\ ask'[p].pc # "store"
    BY <1>0, <1>1, AskSteps
  <2>2. \A q \in Peer : ask'[q].pc = "store" => ask'[q] = ask[q]
    BY <1>0, <2>1 DEF TypeOK
  <2>3. CInv'
    BY <1>0, <2>1, <2>2, EntriesKept
       DEF entries, messages, StoringHandlers, StoringSenders
  <2>4. QED
    BY <1>0, <2>1, <2>3, DrainedUnchanged DEF entries, messages
<1>2. ASSUME Tick \/ (\E p \in Peer : Expire(p)) \/ UNCHANGED vars
      PROVE  CInv' /\ DInv'
  <2>1. UNCHANGED <<entries, messages, ask>>
    BY <1>2 DEF Tick, Expire, vars
  <2>2. CInv'
    BY <1>0, <2>1, EntriesKept DEF entries, messages, StoringHandlers, StoringSenders
  <2>3. UNCHANGED <<handling, inbox, live>>
    BY <2>1 DEF entries, messages
  <2>4. DInv'
    BY <1>0, <2>3, DrainedUnchanged
  <2>5. QED
    BY <2>2, <2>4
<1>3. CInv' /\ DInv'
  <2>1. CASE \E p \in Peer : \/ Manage(p) \/ ManageFails(p) \/ Remove(p)
                            \/ RemoveEntry(p) \/ Add(p)
    BY <2>1, ManageEInv, RemoveEInv
  <2>2. CASE \E p \in Peer : SubscribeBuild(p) \/ SubscribeStore(p) \/ Emit(p)
    BY <2>2, QueryEInv
  <2>3. CASE \E p \in Peer : \E d \in inbox[p] :
               HandleQuery(p, d) \/ HandleResolution(p, d) \/ Lose(p, d)
    BY <2>3, LoopEInv
  <2>4. CASE \E h \in handling : HandlerStep(h) \/ HandlerFails(h)
    BY <2>4, HandlerEInv
  <2>5. CASE \E g \in sending : SendStep(g) \/ SendFails(g)
    BY <2>5, SenderEInv
  <2>6. QED
    BY <1>1, <1>2, <2>1, <2>2, <2>3, <2>4, <2>5, NextSteps
<1>4. QED
  BY <1>0, <1>3 DEF EInv

\* For any peers, any number of event managers and calls: who finds an entry of
\* an address that is not being removed is listening, though Manage, Resolve,
\* handlers of queries and senders of answers all may build and store one of
\* their own at the same time; and a removed one has one message left at most.
THEOREM EntriesAlwaysListen == Spec => []EntriesListen
<1>1. EInv /\ [Next]_vars => EInv'
  BY StepEInv
<1>2. EInv => EntriesListen
  BY DEF EInv, CInv, DInv, Listens, Drained, EntriesListen
<1>3. QED
  BY InitEInv, <1>1, <1>2, PTL DEF Spec

-----------------------------------------------------------------------------
(* Manage.                                                                 *)

\* An owner neither resolves the name before it has the keys nor removes the
\* address, and its backend does not have the name before its first Add.  Without
\* the first, ManageTakes is false in resolver_manage; without the second, a
\* query's handler that finds no entry during Manage may store one without keys
\* after Manage's own.
OwnersOnlyManage == Owner \cap (Reader \cup Remover) = {}
FreshBackends == Restarted = {}

\* An owner's entry is its own, with the keys, and stays.
OwnersTake ==
  \A o \in Owner :
    /\ resource[o] = NoEntry \/ HasKeys(o)
    /\ manage[o].pc = "done" <=> HasKeys(o)
    /\ value[o] # 0 => HasKeys(o)

\* So who answers finds it, before signing and before sending.
AnswerersTake ==
  /\ \A h \in handling : h.pc = "find" /\ HasKeys(h.at)
  /\ \A g \in sending : g.pc \in {"asleep", "found", "find"} /\ HasKeys(g.at)

\* And an owner has one event manager, with one loop.
OneLoop ==
  /\ \A o \in Owner :
       /\ built[o] = IF manage[o].pc \in {"store", "done"} THEN 1 ELSE 0
       /\ live[o] \subseteq {1}
       /\ \A d \in inbox[o] : d.to = 1
  /\ \A h \in handling : h.to = 1

MInv == EInv /\ OwnersTake /\ AnswerersTake /\ OneLoop

LEMMA MFacts ==
  ASSUME MInv
  PROVE  /\ TypeOK /\ TInv /\ EInv /\ Owner \subseteq Peer
         /\ \A h \in handling : h.at \in Owner /\ resource[h.at] # NoEntry
         /\ \A g \in sending : g.at \in Owner /\ resource[g.at] # NoEntry
         /\ \A p \in Peer : HasKeys(p) => p \in Owner /\ resource[p] # NoEntry
<1>1. TypeOK /\ TInv /\ EInv /\ Owner \subseteq Peer
  BY PeersAssumption DEF MInv, EInv, TInv
<1>2. \A p \in Peer : HasKeys(p) => p \in Owner /\ resource[p] # NoEntry
  BY <1>1 DEF TInv, OwnersOnly, HasKeys, NoEntry
<1>3. (\A h \in handling : h.at \in Peer) /\ (\A g \in sending : g.at \in Peer)
  BY <1>1, HandlerFacts, SenderFacts
<1>4. QED
  BY <1>1, <1>2, <1>3 DEF MInv, AnswerersTake

\* Owners' entries, managers and calls stay as they are.
LEMMA MInvKept ==
  ASSUME MInv, EInv', UNCHANGED manage,
         \A o \in Owner :
           /\ resource'[o] = resource[o] /\ built'[o] = built[o] /\ live'[o] = live[o]
           /\ value'[o] # 0 => HasKeys(o)
           /\ \A d \in inbox'[o] : d.to = 1,
         \A h \in handling' :
           h.pc = "find" /\ h.to = 1 /\ h.at \in Owner /\ HasKeys(h.at),
         \A g \in sending' :
           g.pc \in {"asleep", "found", "find"} /\ g.at \in Owner /\ HasKeys(g.at)
  PROVE  MInv'
<1>1. OwnersTake'
  BY DEF MInv, OwnersTake, HasKeys
<1>2. AnswerersTake'
  BY DEF AnswerersTake, HasKeys
<1>3. OneLoop'
  BY DEF MInv, OneLoop
<1>4. QED
  BY <1>1, <1>2, <1>3 DEF MInv

LEMMA InitMInv == ASSUME FreshBackends PROVE Init => MInv
<1> SUFFICES ASSUME Init PROVE MInv
  OBVIOUS
<1>1. EInv /\ Owner \subseteq Peer
  BY InitEInv, PeersAssumption
<1>2. OwnersTake /\ AnswerersTake /\ OneLoop
  BY <1>1 DEF FreshBackends, Init, OwnersTake, AnswerersTake, OneLoop, HasKeys, NoEntry
<1>3. QED
  BY <1>1, <1>2 DEF MInv

\* Owners' own steps.
LEMMA ManageMInv ==
  ASSUME MInv, EInv', NEW p \in Peer, Manage(p) \/ ManageFails(p)
  PROVE  MInv'
<1>0. /\ TypeOK /\ TInv /\ EInv /\ Owner \subseteq Peer /\ p \in Owner
      /\ manage \in [Peer -> Managing]
      /\ \A h \in handling : h.at \in Owner
      /\ \A g \in sending : g.at \in Owner
  <2>1. TypeOK /\ TInv /\ EInv /\ Owner \subseteq Peer
    BY MFacts
  <2>2. p \in Owner
    BY <2>1 DEF Manage, ManageFound, ManageMissed, ManageBuild, ManageStore,
                ManageFails, ManageIdle, TInv, OwnersOnly
  <2>3. QED
    BY <2>1, <2>2, MFacts DEF TypeOK
<1>1. ASSUME UNCHANGED <<handling, sending>>, \A o \in Owner : HasKeys(o) => HasKeys(o)'
      PROVE  AnswerersTake'
  BY <1>0, <1>1 DEF MInv, AnswerersTake
<1>2. CASE ManageFound(p) \/ ManageMissed(p) \/ ManageFails(p)
  <2>1. /\ \E pc \in {"no", "build", "done"} :
             /\ manage' = [manage EXCEPT ![p].pc = pc]
             /\ pc = "done" => resource[p] # NoEntry
             /\ pc # "done" => resource[p] = NoEntry \/ manage[p].pc = "build"
             /\ manage[p].pc # "store"
        /\ UNCHANGED <<resource, live, built, value, handling, sending, inbox>>
    BY <1>2 DEF ManageFound, ManageMissed, ManageFails, ManageIdle, caches, messages
  <2>2. PICK pc \in {"no", "build", "done"} :
             /\ manage' = [manage EXCEPT ![p].pc = pc]
             /\ pc = "done" => resource[p] # NoEntry
             /\ pc # "done" => resource[p] = NoEntry \/ manage[p].pc = "build"
             /\ manage[p].pc # "store"
    BY <2>1
  <2>3. manage'[p].pc = pc /\ \A q \in Peer : q # p => manage'[q] = manage[q]
    <3> DEFINE k == [manage[p] EXCEPT !.pc = pc]
    <3>1. k.pc = pc
      BY <1>0, ManageTurns
    <3>2. manage' = [manage EXCEPT ![p] = k]
      BY <1>0, <2>2
    <3> HIDE DEF k
    <3>3. QED
      BY <1>0, <3>1, <3>2
  <2>4. NoEntry.keys = FALSE
    BY DEF NoEntry
  <2>5. OwnersTake'
    BY <1>0, <2>1, <2>2, <2>3, <2>4 DEF MInv, OwnersTake, HasKeys
  <2>6. OneLoop'
    <3>1. HasKeys(p) <=> manage'[p].pc = "done"
      BY <1>0, <2>5, <2>1 DEF OwnersTake, HasKeys
    <3>2. built[p] = IF manage'[p].pc \in {"store", "done"} THEN 1 ELSE 0
      BY <1>0, <2>2, <2>3, <3>1 DEF MInv, OneLoop, OwnersTake
    <3>3. QED
      BY <1>0, <2>1, <2>3, <3>2 DEF MInv, OneLoop
  <2>7. AnswerersTake'
    BY <1>1, <2>1 DEF HasKeys
  <2>8. QED
    BY <2>5, <2>6, <2>7 DEF MInv
<1>3. CASE ManageBuild(p)
  <2>1. /\ UNCHANGED <<resource, value, handling, sending, inbox>> /\ Register(p)
        /\ manage[p].pc = "build"
        /\ manage' = [manage EXCEPT ![p] = [pc |-> "store", own |-> built'[p]]]
    BY <1>3 DEF ManageBuild, caches, messages
  <2>2. manage'[p].pc = "store" /\ \A q \in Peer : q # p => manage'[q] = manage[q]
    BY <1>0, <2>1
  <2>3. OwnersTake'
    BY <1>0, <2>1, <2>2 DEF MInv, OwnersTake, HasKeys
  <2>4. /\ built[p] = 0 /\ built'[p] = 1 /\ live'[p] = live[p] \cup {1}
        /\ \A q \in Peer : q # p => built'[q] = built[q] /\ live'[q] = live[q]
    <3>1. built[p] = 0
      BY <1>0, <2>1 DEF MInv, OneLoop
    <3>2. QED
      BY <1>0, <2>1, <3>1, Registers
  <2>5. OneLoop'
    BY <1>0, <2>1, <2>2, <2>4 DEF MInv, OneLoop
  <2>6. AnswerersTake'
    BY <1>1, <2>1 DEF HasKeys
  <2>7. QED
    BY <2>3, <2>5, <2>6 DEF MInv
<1>4. CASE ManageStore(p)
  <2>1. /\ UNCHANGED <<live, built, value, handling, sending, inbox>>
        /\ Store(p, TRUE, manage[p].own) /\ manage[p].pc = "store"
        /\ manage' = [manage EXCEPT ![p] = [pc |-> "done", own |-> 0]]
    BY <1>4 DEF ManageStore, caches, messages
  <2>2. manage'[p].pc = "done" /\ \A q \in Peer : q # p => manage'[q] = manage[q]
    BY <1>0, <2>1
  <2>3. manage[p].own \in Sub /\ TRUE \in BOOLEAN
    BY <2>1 DEF MInv, EInv, TInv, Owned
  <2>4. resource'[p].keys /\ \A q \in Peer : q # p => resource'[q] = resource[q]
    <3>1. resource'[p].keys = TRUE
      BY <1>0, <2>1, <2>3, Stores
    <3>2. QED
      BY <1>0, <2>1, <2>3, <3>1, Stores
  <2>5. OwnersTake'
    BY <1>0, <2>1, <2>2, <2>4 DEF MInv, OwnersTake, HasKeys
  <2>6. OneLoop'
    BY <1>0, <2>1, <2>2 DEF MInv, OneLoop
  <2>7. AnswerersTake'
    BY <1>0, <1>1, <2>1, <2>4 DEF HasKeys
  <2>8. QED
    BY <2>5, <2>6, <2>7 DEF MInv
<1>5. QED
  BY <1>2, <1>3, <1>4 DEF Manage

\* Steps of those who resolve and remove, who are no owners, and of an Add.
LEMMA OthersMInv ==
  ASSUME MInv, EInv', OwnersOnlyManage, NEW p \in Peer,
         \/ Remove(p) \/ RemoveEntry(p) \/ Add(p)
         \/ SubscribeBuild(p) \/ SubscribeStore(p) \/ Emit(p)
  PROVE  MInv'
<1>0. /\ TypeOK /\ TInv /\ Owner \subseteq Peer
      /\ \A h \in handling : h.pc = "find" /\ h.to = 1 /\ h.at \in Owner /\ HasKeys(h.at)
      /\ \A g \in sending : /\ g.pc \in {"asleep", "found", "find"} /\ g.at \in Owner
                            /\ HasKeys(g.at)
      /\ \A o \in Owner : /\ value[o] # 0 => HasKeys(o)
                          /\ live[o] \subseteq {1}
                          /\ \A d \in inbox[o] : d.to = 1
  BY MFacts DEF MInv, AnswerersTake, OneLoop, OwnersTake
<1>1. UNCHANGED <<manage, handling, sending>>
  BY DEF Remove, RemoveEntry, Add, SubscribeBuild, SubscribeStore, Emit, entries, messages
<1>2. CASE Remove(p) \/ RemoveEntry(p) \/ SubscribeBuild(p) \/ SubscribeStore(p)
  <2>1. p \notin Owner
    BY <1>0, <1>2 DEF OwnersOnlyManage, Remove, RemoveEntry, SubscribeBuild,
                      SubscribeStore, TInv, Removing, Numbered
  <2>2. \A q \in Peer : q # p =>
          /\ resource'[q] = resource[q] /\ built'[q] = built[q] /\ live'[q] = live[q]
          /\ inbox'[q] = inbox[q]
    BY <1>0, <1>2 DEF Remove, RemoveEntry, SubscribeBuild, SubscribeStore, Register,
                      Store, messages, TypeOK
  <2>3. UNCHANGED value
    BY <1>2 DEF Remove, RemoveEntry, SubscribeBuild, SubscribeStore, caches
  <2>4. QED
    BY <1>0, <1>1, <2>1, <2>2, <2>3, MInvKept
<1>3. CASE Add(p)
  <2>1. /\ UNCHANGED <<resource, built, live, inbox>> /\ HasKeys(p)
        /\ \A q \in Peer : q # p => value'[q] = value[q]
    BY <1>0, <1>3 DEF Add, entries, messages, TypeOK
  <2>2. QED
    BY <1>0, <1>1, <2>1, MInvKept
<1>4. CASE Emit(p)
  <2> DEFINE m == [from |-> p, n |-> ask[p].n]
  <2>1. UNCHANGED <<resource, built, live, value>> /\ Publish(p, m)
    BY <1>4 DEF Emit, entries, caches
  <2>2. m \in QueryMsg
    BY <1>0, <1>4 DEF Emit, QueryMsg, TInv, Numbered
  <2> HIDE DEF m
  <2>3. \A q \in Peer : \A d \in inbox'[q] : d \in inbox[q] \/ d.to \in live[q]
    BY <1>0, <2>1, <2>2, PublishDelivers
  <2>4. QED
    BY <1>0, <1>1, <2>1, <2>3, MInvKept
<1>5. QED
  BY <1>2, <1>3, <1>4

\* Steps of the event loops and of the senders.
LEMMA AnswersMInv ==
  ASSUME MInv, EInv',
         \/ \E p \in Peer : \E d \in inbox[p] :
              HandleQuery(p, d) \/ HandleResolution(p, d) \/ Lose(p, d)
         \/ \E h \in handling : HandlerStep(h) \/ HandlerFails(h)
         \/ \E g \in sending : SendStep(g) \/ SendFails(g)
  PROVE  MInv'
<1>0. /\ TypeOK /\ TInv /\ Owner \subseteq Peer
      /\ \A h \in handling : /\ h.pc = "find" /\ h.to = 1 /\ h.at \in Owner
                             /\ HasKeys(h.at) /\ resource[h.at] # NoEntry
      /\ \A g \in sending : /\ g.pc \in {"asleep", "found", "find"} /\ g.at \in Owner
                            /\ HasKeys(g.at) /\ resource[g.at] # NoEntry
      /\ \A o \in Owner : /\ value[o] # 0 => HasKeys(o)
                          /\ live[o] \subseteq {1}
                          /\ \A d \in inbox[o] : d.to = 1
  BY MFacts DEF MInv, AnswerersTake, OneLoop, OwnersTake
<1>1. ASSUME NEW p \in Peer, NEW d \in inbox[p],
             HandleQuery(p, d) \/ HandleResolution(p, d) \/ Lose(p, d)
      PROVE  MInv'
  <2>1. /\ UNCHANGED <<entries, value, sending>> /\ inbox' = [inbox EXCEPT ![p] = @ \ {d}]
        /\ \/ handling' = handling
           \/ value[p] # 0 /\ handling' = handling \cup {Handled(p, d)}
    BY <1>1 DEF HandleQuery, HandleResolution, Lose, Take, caches
  <2>2. \A q \in Peer : inbox'[q] \subseteq inbox[q]
    BY <1>0, <2>1 DEF TypeOK
  <2>3. value[p] # 0 => p \in Owner /\ HasKeys(p) /\ d.to = 1
    BY <1>0 DEF TInv, OwnersOnly
  <2>4. Handled(p, d).at = p /\ Handled(p, d).to = d.to /\ Handled(p, d).pc = "find"
    BY DEF Handled
  <2>5. \A h \in handling' : h.pc = "find" /\ h.to = 1 /\ h.at \in Owner /\ HasKeys(h.at)
    BY <1>0, <2>1, <2>3, <2>4
  <2>6. QED
    BY <1>0, <2>1, <2>2, <2>5, MInvKept DEF entries
<1>2. ASSUME NEW h \in handling, HandlerStep(h) \/ HandlerFails(h)
      PROVE  MInv'
  <2> DEFINE g == [at |-> h.at, own |-> 0, pc |-> "asleep",
                   answer |-> [re |-> h.msg, by |-> h.to, value |-> h.value,
                               stamp |-> clock]]
  <2>1. HandlerFound(h) \/ HandlerFails(h)
    BY <1>0, <1>2 DEF HandlerStep, HandlerMissed, HandlerBuild, HandlerStore
  <2>2. /\ UNCHANGED <<entries, caches, inbox>> /\ handling' \subseteq handling
        /\ sending' = sending \/ sending' = sending \cup {g}
    BY <2>1 DEF HandlerFound, HandlerFails, Turn
  <2>3. g.at = h.at /\ g.pc = "asleep"
    OBVIOUS
  <2> HIDE DEF g
  <2>4. \A k \in sending' : /\ k.pc \in {"asleep", "found", "find"} /\ k.at \in Owner
                            /\ HasKeys(k.at)
    BY <1>0, <2>2, <2>3
  <2>5. QED
    BY <1>0, <2>2, <2>4, MInvKept DEF entries, caches
<1>3. ASSUME NEW g \in sending, SendStep(g) \/ SendFails(g)
      PROVE  MInv'
  <2>1. Wake(g) \/ DeletePending(g) \/ SendAnswer(g) \/ SendFails(g)
    BY <1>0, <1>3 DEF SendStep, SendMissed, SendBuild, SendStore
  <2>2. /\ UNCHANGED <<entries, value, handling>>
        /\ \A k \in sending' : k \in sending \/ (k.at = g.at /\ k.pc \in {"found", "find"})
    <3>1. /\ [g EXCEPT !.pc = "found"].at = g.at /\ [g EXCEPT !.pc = "find"].at = g.at
          /\ [g EXCEPT !.pc = "found"].pc = "found" /\ [g EXCEPT !.pc = "find"].pc = "find"
      BY <1>0, SenderFacts, SenderTurns
    <3>2. CASE Wake(g)
      BY <3>1, <3>2 DEF Wake, Proceed, caches
    <3>3. CASE DeletePending(g)
      BY <3>1, <3>3 DEF DeletePending, Proceed
    <3>4. CASE SendAnswer(g) \/ SendFails(g)
      BY <3>4 DEF SendAnswer, SendFails, Proceed, caches
    <3>5. QED
      BY <2>1, <3>2, <3>3, <3>4
  <2>3. \A q \in Peer : \A d \in inbox'[q] : d \in inbox[q] \/ d.to \in live[q]
    <3>1. inbox' = inbox \/ Publish(g.at, g.answer)
      BY <2>1 DEF Wake, DeletePending, SendAnswer, SendFails
    <3>2. QED
      BY <1>0, <3>1, SenderFacts, PublishDelivers
  <2>4. \A k \in sending' : /\ k.pc \in {"asleep", "found", "find"} /\ k.at \in Owner
                            /\ HasKeys(k.at)
    BY <1>0, <2>2
  <2>5. \A o \in Owner : \A d \in inbox'[o] : d.to = 1
    BY <1>0, <2>3
  <2>6. QED
    BY <1>0, <2>2, <2>4, <2>5, MInvKept DEF entries
<1>4. QED
  BY <1>1, <1>2, <1>3

LEMMA StepMInv ==
  ASSUME OwnersOnlyManage, MInv, [Next]_vars
  PROVE  MInv'
<1>0. EInv' /\ EInv /\ TInv /\ TypeOK
  BY StepEInv, MFacts
<1>1. ASSUME UNCHANGED <<entries, value, messages>>
      PROVE  MInv'
  <2>1. /\ \A h \in handling : h.pc = "find" /\ h.to = 1 /\ h.at \in Owner /\ HasKeys(h.at)
        /\ \A g \in sending : /\ g.pc \in {"asleep", "found", "find"} /\ g.at \in Owner
                              /\ HasKeys(g.at)
        /\ \A o \in Owner : /\ value[o] # 0 => HasKeys(o)
                            /\ \A d \in inbox[o] : d.to = 1
    BY MFacts DEF MInv, AnswerersTake, OneLoop, OwnersTake
  <2>2. QED
    BY <1>0, <1>1, <2>1, MInvKept DEF entries, messages
<1>2. CASE \E p \in Peer : Manage(p) \/ ManageFails(p)
  BY <1>0, <1>2, ManageMInv
<1>3. CASE \E p \in Peer : \/ Remove(p) \/ RemoveEntry(p) \/ Add(p)
                          \/ SubscribeBuild(p) \/ SubscribeStore(p) \/ Emit(p)
  BY <1>0, <1>3, OthersMInv
<1>4. CASE \E p \in Peer :
             \/ ResolveManaged(p) \/ ResolveCached(p) \/ StartQuery(p) \/ Subscribe(p)
             \/ EmitFails(p) \/ Poll(p) \/ GiveUp(p)
  BY <1>0, <1>1, <1>4, AskSteps DEF caches
<1>5. CASE Tick \/ (\E p \in Peer : Expire(p)) \/ UNCHANGED vars
  BY <1>1, <1>5 DEF Tick, Expire, vars, caches
<1>6. QED
  BY <1>0, <1>2, <1>3, <1>4, <1>5, AnswersMInv, NextSteps

\* For owners that neither resolve the name before they manage the address nor
\* remove it, and whose backend does not have the name yet, Manage does what its
\* comment says: once it has returned, Add is let through for good, whatever
\* queries are asked, answered and lost meanwhile.  Without either condition it does not.
THEOREM ManageTakesKeys ==
  ASSUME OwnersOnlyManage, FreshBackends PROVE Spec => []ManageTakes
<1>1. MInv /\ [Next]_vars => MInv'
  BY StepMInv
<1>2. MInv => ManageTakes
  BY DEF MInv, OwnersTake, ManageTakes
<1>3. QED
  BY InitMInv, <1>1, <1>2, PTL DEF Spec

-----------------------------------------------------------------------------
(* Stamps and values, with one owner.                                      *)

OneOwner == \A o, p \in Owner : o = p

Answers == (UNION {AnswersFor(p) : p \in Peer}) \cup {cached[p] : p \in Peer}

\* No answer is ahead of the clock or of what an owner has.
Behind(a) == a.stamp <= clock /\ \A o \in Owner : a.value <= value[o]

Ordered(a, b) == a.value < b.value => a.stamp <= b.stamp

\* The value a handler has read, and has not stamped yet, is the latest of all
\* that are under way: the loop handles one query at a time.
HandlersLead ==
  \A h \in handling :
    (\A a \in Answers : a.value <= h.value) /\ \A o \in Owner : h.value <= value[o]

SInv ==
  /\ MInv
  /\ \A a \in Answers : Behind(a)
  /\ \A a, b \in Answers : Ordered(a, b)
  /\ HandlersLead

LEMMA AnswersAre ==
  /\ \A p \in Peer : AnswersFor(p) \subseteq Answers
  /\ \A p \in Peer : cached[p] \in Answers
  /\ \A p \in Peer : \A g \in sending : g.answer \in AnswersFor(p)
  /\ \A p \in Peer : \A d \in inbox[p] : d.msg \in Answer => d.msg \in AnswersFor(p)
  BY DEF Answers, AnswersFor

LEMMA AnswerNumbers ==
  ASSUME TypeOK, NEW a \in Answers
  PROVE  a \in Answer \cup {NoAnswer} /\ a.value \in Nat /\ a.stamp \in Nat
<1>1. a \in Answer \cup {NoAnswer}
  <2>1. \A p \in Peer : AnswersFor(p) \subseteq Answer
    BY SenderFacts DEF AnswersFor
  <2>2. \A p \in Peer : cached[p] \in Answer \cup {NoAnswer}
    BY DEF TypeOK
  <2>3. QED
    BY <2>1, <2>2 DEF Answers
<1>2. QED
  BY <1>1, BoundsAssumption DEF Answer, NoAnswer

LEMMA NoAnswerIsNone == NoAnswer \notin Answer /\ NoAnswer.value = 0 /\ NoAnswer.stamp = 0
  BY DEF NoAnswer, Answer

\* The answer of the handler h, which is done.
Made(a, h) == /\ a.value = h.value /\ a.stamp = clock /\ clock' = clock /\ value' = value
              /\ handling' = handling \ {h}

\* Time and values go forward.
LEMMA ClockMoves ==
  ASSUME MInv, [Next]_vars
  PROVE  /\ clock' = clock \/ Tick
         /\ clock \in Nat /\ clock' \in Nat /\ clock <= clock'
         /\ \A o \in Owner : value[o] \in Nat /\ value'[o] \in Nat /\ value[o] <= value'[o]
<1>1. TInv /\ TypeOK /\ clock \in Nat /\ Owner \subseteq Peer
      /\ \A p \in Peer : value[p] \in Nat
  BY MFacts, BoundsAssumption DEF TypeOK
<1>2. /\ clock' = clock \/ Tick
      /\ value' = value \/ \E p \in Peer : value' = [value EXCEPT ![p] = @ + 1]
  <2>1. CASE \E p \in Peer :
               Manage(p) \/ ManageFails(p) \/ Remove(p) \/ RemoveEntry(p) \/ Add(p)
    BY <2>1 DEF Manage, ManageFound, ManageMissed, ManageBuild, ManageStore,
                ManageFails, Remove, RemoveEntry, Add, caches
  <2>2. CASE \E p \in Peer :
               \/ ResolveManaged(p) \/ ResolveCached(p) \/ StartQuery(p) \/ Subscribe(p)
               \/ EmitFails(p) \/ Poll(p) \/ GiveUp(p)
    BY <1>1, <2>2, AskSteps DEF caches
  <2>3. CASE \E p \in Peer : SubscribeBuild(p) \/ SubscribeStore(p) \/ Emit(p)
    BY <2>3 DEF SubscribeBuild, SubscribeStore, Emit, caches
  <2>4. CASE \E p \in Peer : \E d \in inbox[p] :
               HandleQuery(p, d) \/ HandleResolution(p, d) \/ Lose(p, d)
    BY <2>4 DEF HandleQuery, HandleResolution, Lose, caches
  <2>5. CASE \E h \in handling : HandlerStep(h) \/ HandlerFails(h)
    BY <2>5 DEF HandlerStep, HandlerFound, HandlerMissed, HandlerBuild, HandlerStore,
                HandlerFails, caches
  <2>6. CASE \E g \in sending : SendStep(g) \/ SendFails(g)
    BY <2>6 DEF SendStep, Wake, DeletePending, SendAnswer, SendMissed, SendBuild,
                SendStore, SendFails, caches
  <2>7. CASE Tick \/ (\E p \in Peer : Expire(p)) \/ UNCHANGED vars
    BY <2>7 DEF Tick, Expire, vars, caches
  <2>8. QED
    BY <2>1, <2>2, <2>3, <2>4, <2>5, <2>6, <2>7, NextSteps
<1>3. clock <= clock' /\ clock' \in Nat
  BY <1>1, <1>2 DEF Tick
<1>4. \A p \in Peer : value'[p] \in Nat /\ value[p] <= value'[p]
  BY <1>1, <1>2 DEF TypeOK
<1>5. QED
  BY <1>1, <1>2, <1>3, <1>4

\* What a step does to answers on their way, to handlers and to caches.
AnswersStay ==
  \A p \in Peer : \A a \in AnswersFor(p)' :
    a \in AnswersFor(p) \/ \E h \in handling : Made(a, h)

HandlersStay ==
  \A h \in handling' : h \in handling \/ \E p \in Owner : h.value = value[p]

CacheMoves(p) ==
  \/ cached'[p] = cached[p] /\ arrived'[p] = arrived[p]
  \/ /\ cached'[p] \in AnswersFor(p)
     /\ cached[p] = NoAnswer \/ Older(cached[p], cached'[p])
     /\ arrived'[p] = clock /\ UNCHANGED <<ask, clock, handling, sending, value>>
  \/ /\ cached'[p] = NoAnswer /\ cached[p] # NoAnswer /\ clock >= arrived[p] + TTL
     /\ UNCHANGED <<ask, clock, messages, value>>

ReadMoves(p) ==
  \/ ask'[p].got = ask[p].got /\ ask'[p].seen = ask[p].seen
  \/ ask'[p].got = 0 /\ ask'[p].seen = ask[p].seen /\ faults' > faults
  \/ /\ cached[p] # NoAnswer /\ p \notin Owner
     /\ ask'[p].got = cached[p].value /\ ask'[p].seen = cached[p].value
     /\ UNCHANGED <<caches, messages, clock>>
  \/ p \in Owner /\ ask'[p].got = value[p] /\ ask'[p].seen = value[p]

Moves == AnswersStay /\ HandlersStay /\ \A p \in Peer : CacheMoves(p) /\ ReadMoves(p)

\* Nothing an answer, a handler or a read may be in is touched.
LEMMA MovesNothing ==
  ASSUME UNCHANGED <<cached, arrived, handling, sending>>,
         \A p \in Peer : ReadMoves(p),
         \A p \in Peer : \A d \in inbox'[p] : d.msg \in Answer =>
           d \in inbox[p] \/ \E g \in sending : d.msg = g.answer
  PROVE  Moves
<1>1. AnswersStay
  BY DEF AnswersStay, AnswersFor
<1>2. HandlersStay
  BY DEF HandlersStay
<1>3. \A p \in Peer : CacheMoves(p)
  BY DEF CacheMoves
<1>4. QED
  BY <1>1, <1>2, <1>3 DEF Moves

LEMMA StepMoves ==
  ASSUME MInv, OwnersOnlyManage, [Next]_vars
  PROVE  Moves
<1>0. /\ TypeOK /\ TInv /\ Owner \subseteq Peer
      /\ \A h \in handling : h.pc = "find" /\ resource[h.at] # NoEntry
      /\ \A g \in sending : /\ g.pc \in {"asleep", "found", "find"}
                            /\ resource[g.at] # NoEntry
  BY MFacts DEF MInv, AnswerersTake
<1>1. ASSUME \A p \in Peer : ask'[p].got = ask[p].got /\ ask'[p].seen = ask[p].seen
      PROVE  \A p \in Peer : ReadMoves(p)
  BY <1>1 DEF ReadMoves
<1>2. CASE \E p \in Peer :
             Manage(p) \/ ManageFails(p) \/ Remove(p) \/ RemoveEntry(p) \/ Add(p)
  <2>1. PICK p \in Peer :
             Manage(p) \/ ManageFails(p) \/ Remove(p) \/ RemoveEntry(p) \/ Add(p)
    BY <1>2
  <2>2. /\ UNCHANGED <<cached, arrived, handling, sending>>
        /\ \A q \in Peer : ask'[q].got = ask[q].got /\ ask'[q].seen = ask[q].seen
    <3>1. UNCHANGED <<cached, arrived, handling, sending>> /\ (ask' = ask \/ Forsake(p))
      BY <2>1 DEF Manage, ManageFound, ManageMissed, ManageBuild, ManageStore,
                  ManageFails, Remove, RemoveEntry, Add, caches, messages
    <3>2. QED
      BY <1>0, <3>1, AskForsaken
  <2>3. \A q \in Peer : inbox'[q] \subseteq inbox[q]
    <3>1. inbox' = inbox \/ \E k \in SUBSET inbox[p] : inbox' = [inbox EXCEPT ![p] = k]
      <4>1. CASE Remove(p)
        <5>1. PICK kept \in InHand(p, resource[p].sub) :
                inbox' = [inbox EXCEPT ![p] =
                            {d \in @ : d.to # resource[p].sub} \cup kept]
          BY <4>1 DEF Remove
        <5>2. kept \subseteq inbox[p]
          BY DEF InHand
        <5>3. QED
          BY <1>0, <5>1, <5>2 DEF TypeOK
      <4>2. CASE ~Remove(p)
        BY <2>1, <4>2 DEF Manage, ManageFound, ManageMissed, ManageBuild, ManageStore,
                          ManageFails, RemoveEntry, Add, messages
      <4>3. QED
        BY <4>1, <4>2
    <3>2. QED
      BY <1>0, <3>1 DEF TypeOK
  <2>4. QED
    BY <1>1, <2>2, <2>3, MovesNothing
<1>3. CASE \E p \in Peer :
             \/ ResolveManaged(p) \/ ResolveCached(p) \/ StartQuery(p) \/ Subscribe(p)
             \/ EmitFails(p) \/ Poll(p) \/ GiveUp(p)
  <2>1. PICK p \in Peer :
             \/ ResolveManaged(p) \/ ResolveCached(p) \/ StartQuery(p) \/ Subscribe(p)
             \/ EmitFails(p) \/ Poll(p) \/ GiveUp(p)
    BY <1>3
  <2>2. /\ HasKeys(p) => p \in Owner
        /\ p \in Reader => p \notin Owner
    BY <1>0 DEF OwnersOnlyManage, TInv, OwnersOnly
  <2>3. UNCHANGED <<caches, messages, clock>> /\ ask' = [ask EXCEPT ![p] = ask'[p]]
        /\ \/ ask'[p].got = ask[p].got /\ ask'[p].seen = ask[p].seen
           \/ ask'[p].got = 0 /\ ask'[p].seen = ask[p].seen /\ faults' > faults
           \/ /\ cached[p] # NoAnswer /\ p \notin Owner
              /\ ask'[p].got = cached[p].value /\ ask'[p].seen = cached[p].value
           \/ p \in Owner /\ ask'[p].got = value[p] /\ ask'[p].seen = value[p]
    BY <1>0, <2>1, <2>2, AskSteps
  <2>4. \A q \in Peer : q # p => ask'[q] = ask[q]
    BY <1>0, <2>3 DEF TypeOK
  <2>5. \A q \in Peer : ReadMoves(q)
    BY <2>3, <2>4 DEF ReadMoves
  <2>6. QED
    BY <2>3, <2>5, MovesNothing DEF caches, messages
<1>4. CASE \E p \in Peer : SubscribeBuild(p) \/ SubscribeStore(p) \/ Emit(p)
  <2>1. PICK p \in Peer : SubscribeBuild(p) \/ SubscribeStore(p) \/ Emit(p)
    BY <1>4
  <2>2. UNCHANGED <<cached, arrived, handling, sending>>
    BY <2>1 DEF SubscribeBuild, SubscribeStore, Emit, caches, messages
  <2>3. \A q \in Peer : ReadMoves(q)
    BY <1>0, <2>1, SubscribeTInv DEF ReadMoves
  <2>4. \A q \in Peer : \A d \in inbox'[q] : d \in inbox[q] \/ d.msg \notin Answer
    <3>1. CASE Emit(p)
      <4> DEFINE m == [from |-> p, n |-> ask[p].n]
      <4>1. Publish(p, m)
        BY <3>1 DEF Emit
      <4>2. m \in QueryMsg /\ m \notin Answer
        BY <1>0, <3>1 DEF Emit, QueryMsg, Answer, TInv, Numbered
      <4> HIDE DEF m
      <4>3. QED
        BY <1>0, <4>1, <4>2, PublishDelivers
    <3>2. CASE ~Emit(p)
      BY <2>1, <3>2 DEF SubscribeBuild, SubscribeStore, messages
    <3>3. QED
      BY <3>1, <3>2
  <2>5. QED
    BY <2>2, <2>3, <2>4, MovesNothing
<1>5. CASE \E p \in Peer : \E d \in inbox[p] :
             HandleQuery(p, d) \/ HandleResolution(p, d) \/ Lose(p, d)
  <2>1. PICK p \in Peer : \E d \in inbox[p] :
             HandleQuery(p, d) \/ HandleResolution(p, d) \/ Lose(p, d)
    BY <1>5
  <2>2. PICK d \in inbox[p] : HandleQuery(p, d) \/ HandleResolution(p, d) \/ Lose(p, d)
    BY <2>1
  <2>3. /\ UNCHANGED <<sending, ask, clock, value>>
        /\ inbox' = [inbox EXCEPT ![p] = @ \ {d}]
    BY <2>2 DEF HandleQuery, HandleResolution, Lose, Take, caches
  <2>4. \A q \in Peer : inbox'[q] \subseteq inbox[q]
    BY <1>0, <2>3 DEF TypeOK
  <2>5. AnswersStay
    BY <2>3, <2>4 DEF AnswersStay, AnswersFor
  <2>6. HandlersStay
    <3>1. \/ handling' = handling
          \/ value[p] # 0 /\ handling' = handling \cup {Handled(p, d)}
      BY <2>2 DEF HandleQuery, HandleResolution, Lose
    <3>2. Handled(p, d).value = value[p] /\ (value[p] # 0 => p \in Owner)
      BY <1>0 DEF Handled, TInv, OwnersOnly
    <3>3. QED
      BY <3>1, <3>2 DEF HandlersStay
  <2>7. \A q \in Peer : CacheMoves(q)
    <3>1. CASE HandleResolution(p, d)
      <4>1. d.msg \in AnswersFor(p) /\ UNCHANGED handling
        BY <3>1, AnswersAre DEF HandleResolution
      <4>2. \/ UNCHANGED <<cached, arrived>>
            \/ /\ cached[p] = NoAnswer \/ Older(cached[p], d.msg)
               /\ cached' = [cached EXCEPT ![p] = d.msg]
               /\ arrived' = [arrived EXCEPT ![p] = clock]
        BY <3>1 DEF HandleResolution
      <4>3. QED
        BY <1>0, <2>3, <4>1, <4>2 DEF CacheMoves, TypeOK
    <3>2. CASE ~HandleResolution(p, d)
      BY <2>2, <3>2 DEF HandleQuery, Lose, caches, CacheMoves
    <3>3. QED
      BY <3>1, <3>2
  <2>8. QED
    BY <1>1, <2>3, <2>5, <2>6, <2>7 DEF Moves
<1>6. CASE \E h \in handling : HandlerStep(h) \/ HandlerFails(h)
  <2>1. PICK h \in handling : HandlerStep(h) \/ HandlerFails(h)
    BY <1>6
  <2> DEFINE a == [re |-> h.msg, by |-> h.to, value |-> h.value, stamp |-> clock]
             g == [at |-> h.at, own |-> 0, pc |-> "asleep", answer |-> a]
  <2>2. HandlerFound(h) \/ HandlerFails(h)
    BY <1>0, <2>1 DEF HandlerStep, HandlerMissed, HandlerBuild, HandlerStore
  <2>3. /\ UNCHANGED <<cached, arrived, value, inbox, ask, clock>>
        /\ handling' = handling \ {h}
        /\ sending' = sending \/ sending' = sending \cup {g}
    BY <2>2 DEF HandlerFound, HandlerFails, Turn, caches
  <2>4. Made(g.answer, h)
    BY <2>3 DEF Made
  <2> HIDE DEF g
  <2>5. AnswersStay
    BY <2>3, <2>4 DEF AnswersStay, AnswersFor
  <2>6. QED
    BY <1>1, <2>3, <2>5 DEF Moves, HandlersStay, CacheMoves
<1>7. CASE \E g \in sending : SendStep(g) \/ SendFails(g)
  <2>1. PICK g \in sending : SendStep(g) \/ SendFails(g)
    BY <1>7
  <2>2. Wake(g) \/ DeletePending(g) \/ SendAnswer(g) \/ SendFails(g)
    BY <1>0, <2>1 DEF SendStep, SendMissed, SendBuild, SendStore
  <2>3. /\ UNCHANGED <<cached, arrived, handling, ask>>
        /\ \A k \in sending' : k \in sending \/ k.answer = g.answer
    <3>1. /\ [g EXCEPT !.pc = "found"].answer = g.answer
          /\ [g EXCEPT !.pc = "find"].answer = g.answer
      BY <1>0, SenderFacts, SenderTurns
    <3>2. CASE Wake(g)
      BY <3>1, <3>2 DEF Wake, Proceed, caches
    <3>3. CASE DeletePending(g)
      BY <3>1, <3>3 DEF DeletePending, Proceed
    <3>4. CASE SendAnswer(g) \/ SendFails(g)
      BY <3>4 DEF SendAnswer, SendFails, Proceed, caches
    <3>5. QED
      BY <2>2, <3>2, <3>3, <3>4
  <2>4. \A q \in Peer : \A d \in inbox'[q] : d \in inbox[q] \/ d.msg = g.answer
    <3>1. inbox' = inbox \/ Publish(g.at, g.answer)
      BY <2>2 DEF Wake, DeletePending, SendAnswer, SendFails
    <3>2. QED
      BY <1>0, <3>1, SenderFacts, PublishDelivers
  <2>5. AnswersStay
    BY <2>3, <2>4 DEF AnswersStay, AnswersFor
  <2>6. QED
    BY <1>1, <2>3, <2>5 DEF Moves, HandlersStay, CacheMoves
<1>8. CASE Tick \/ UNCHANGED vars
  <2>1. UNCHANGED <<caches, messages, ask>>
    BY <1>8 DEF Tick, vars
  <2>2. QED
    BY <1>1, <2>1, MovesNothing DEF caches, messages
<1>9. CASE \E p \in Peer : Expire(p)
  <2>1. PICK p \in Peer : Expire(p)
    BY <1>9
  <2>2. UNCHANGED <<messages, ask, clock, value>>
    BY <2>1 DEF Expire
  <2>3. \A q \in Peer : CacheMoves(q)
    BY <1>0, <2>1, <2>2 DEF Expire, CacheMoves, TypeOK
  <2>4. AnswersStay /\ HandlersStay
    BY <2>2 DEF messages, AnswersStay, AnswersFor, HandlersStay
  <2>5. QED
    BY <1>1, <2>2, <2>3, <2>4 DEF Moves
<1>10. QED
  BY <1>2, <1>3, <1>4, <1>5, <1>6, <1>7, <1>8, <1>9, NextSteps

\* One owner has one handler at most.
LEMMA OneHandler ==
  ASSUME MInv, OneOwner, NEW h \in handling, NEW k \in handling
  PROVE  h = k
BY MFacts DEF MInv, EInv, DInv, OneInHand, OneLoop, OneOwner

LEMMA InitSInv == ASSUME FreshBackends PROVE Init => SInv
<1> SUFFICES ASSUME Init PROVE SInv
  OBVIOUS
<1>1. \A p \in Peer : AnswersFor(p) = {}
  BY DEF Init, AnswersFor
<1>2. \A a \in Answers : a = NoAnswer
  BY <1>1 DEF Init, Answers
<1>3. \A o \in Owner : value[o] = 0
  BY PeersAssumption DEF Init, FreshBackends
<1>4. MInv /\ handling = {} /\ clock = 0
  BY InitMInv DEF Init
<1>5. QED
  BY <1>2, <1>3, <1>4, NoAnswerIsNone DEF SInv, Behind, Ordered, HandlersLead

\* An owner's new answer is as new as the clock and has the greatest value
\* there is, so it comes last in both orders.
LEMMA StepSInv ==
  ASSUME SInv, OneOwner, OwnersOnlyManage, [Next]_vars
  PROVE  SInv'
<1>1. MInv /\ MInv' /\ TypeOK /\ TypeOK' /\ Moves
  BY StepMInv, StepMoves DEF SInv, MInv, EInv, TInv
<1>2. /\ clock \in Nat /\ clock' \in Nat /\ clock <= clock'
      /\ \A o \in Owner : value[o] \in Nat /\ value'[o] \in Nat /\ value[o] <= value'[o]
  BY <1>1, ClockMoves
<1>3. \A h \in handling : h.value \in Nat
  BY <1>1, HandlerFacts
<1>4. \A a \in Answers' :
        a \in Answers \/ a = NoAnswer \/ \E h \in handling : Made(a, h)
  <2>1. ASSUME NEW p \in Peer
        PROVE  /\ \A a \in AnswersFor(p)' : a \in Answers \/ \E h \in handling : Made(a, h)
               /\ cached'[p] \in Answers \/ cached'[p] = NoAnswer
    BY <1>1, AnswersAre DEF Moves, AnswersStay, CacheMoves
  <2>2. QED
    BY <2>1 DEF Answers
<1>5. \A a \in Answers :
        /\ a.value \in Nat /\ a.stamp \in Nat /\ a.stamp <= clock
        /\ \A o \in Owner : a.value <= value[o]
        /\ \A h \in handling : a.value <= h.value
  BY <1>1, AnswerNumbers DEF SInv, Behind, HandlersLead
<1>6. \A h \in handling : \A o \in Owner : h.value <= value[o]
  BY DEF SInv, HandlersLead
<1>7. ASSUME NEW a \in Answers'
      PROVE  Behind(a)'
  <2>1. CASE a \in Answers
    BY <1>2, <1>5, <2>1 DEF Behind
  <2>2. CASE a = NoAnswer
    BY <1>2, <2>2, NoAnswerIsNone DEF Behind
  <2>3. CASE \E h \in handling : Made(a, h)
    BY <1>2, <1>3, <1>6, <2>3 DEF Behind, Made
  <2>4. QED
    BY <1>4, <2>1, <2>2, <2>3
<1>8. ASSUME NEW a \in Answers', NEW b \in Answers'
      PROVE  Ordered(a, b)
  <2>1. CASE a \in Answers /\ b \in Answers
    BY <2>1 DEF SInv
  <2>2. CASE a = NoAnswer \/ b = NoAnswer
    <3>1. \A c \in Answers' : c.value \in Nat /\ c.stamp \in Nat
      BY <1>2, <1>3, <1>4, <1>5, NoAnswerIsNone DEF Made
    <3>2. QED
      BY <2>2, <3>1, NoAnswerIsNone DEF Ordered
  <2>3. CASE a \in Answers /\ \E h \in handling : Made(b, h)
    BY <1>2, <1>5, <2>3 DEF Ordered, Made
  <2>4. CASE (\E h \in handling : Made(a, h)) /\ b \in Answers
    BY <1>3, <1>5, <2>4 DEF Ordered, Made
  <2>5. CASE (\E h \in handling : Made(a, h)) /\ \E h \in handling : Made(b, h)
    BY <1>2, <2>5 DEF Ordered, Made
  <2>6. QED
    BY <1>4, <2>1, <2>2, <2>3, <2>4, <2>5
<1>9. ASSUME NEW h \in handling'
      PROVE  (\A a \in Answers' : a.value <= h.value) /\ \A o \in Owner : h.value <= value'[o]
  <2>1. \A a \in Answers' : a \in Answers \/ a = NoAnswer
    <3>1. ASSUME NEW a \in Answers', NEW k \in handling, Made(a, k)
          PROVE  FALSE
      BY <1>1, <1>9, <3>1, OneHandler DEF Made
    <3>2. QED
      BY <1>4, <3>1
  <2>2. CASE h \in handling
    BY <1>2, <1>3, <1>5, <1>6, <2>1, <2>2, NoAnswerIsNone
  <2>3. CASE \E p \in Owner : h.value = value[p]
    BY <1>2, <1>5, <2>1, <2>3, NoAnswerIsNone DEF OneOwner
  <2>4. QED
    BY <1>1, <2>2, <2>3 DEF Moves, HandlersStay
<1>10. QED
  BY <1>1, <1>7, <1>8, <1>9 DEF SInv, Ordered, HandlersLead

\* With one owner, that only manages and starts with an empty backend, a later
\* stamp never goes with an older value, among all the answers on their way to
\* any number of peers and those they have cached.
THEOREM StampsSound ==
  ASSUME OneOwner, OwnersOnlyManage, FreshBackends PROVE Spec => []StampsFollowValues
<1>1. SInv => StampsFollowValues
  BY DEF SInv, Ordered, StampsFollowValues, Answers
<1>2. SInv /\ [Next]_vars => SInv'
  BY StepSInv
<1>3. QED
  BY InitSInv, <1>1, <1>2, PTL DEF Spec

-----------------------------------------------------------------------------
(* What a peer resolves.                                                   *)

\* An answer that was under way when another one was cached is not any more
\* when that one expires.
AnswersInTime == MaxDelay < TTL

\* Nothing that a peer may still cache is older than what it has seen.
NotNewer(p) ==
  /\ \A o \in Owner : ask[p].seen <= value[o]
  /\ \A h \in handling : ask[p].seen <= h.value
  /\ ask[p].got <= ask[p].seen
  /\ cached[p] # NoAnswer =>
       ask[p].seen <= cached[p].value /\ cached[p].stamp <= arrived[p]
  /\ cached[p] = NoAnswer => \A a \in AnswersFor(p) : ask[p].seen <= a.value
  /\ \A a \in AnswersFor(p) : clock <= a.stamp + MaxDelay

\* An owner with the keys reads its own backend.
OwnReads ==
  \A o \in Owner : ask[o].got <= ask[o].seen /\ ask[o].seen <= value[o]

FInv == SInv /\ OwnReads /\ \A p \in Peer \ Owner : NotNewer(p)

LEMMA InitFInv == ASSUME FreshBackends PROVE Init => FInv
<1> SUFFICES ASSUME Init PROVE FInv
  OBVIOUS
<1>1. \A p \in Peer : AnswersFor(p) = {}
  BY DEF Init, AnswersFor
<1>2. QED
  BY <1>1, InitSInv, PeersAssumption DEF FInv, NotNewer, OwnReads, Init, FreshBackends

\* No answer is left over when a cached one expires.
LEMMA ExpiresLast ==
  ASSUME FInv, AnswersInTime, NEW p \in Peer \ Owner, cached[p] # NoAnswer,
         clock >= arrived[p] + TTL, NEW a \in AnswersFor(p)
  PROVE  cached[p].value <= a.value
<1>1. TypeOK /\ a \in Answers /\ cached[p] \in Answers
  BY MFacts, AnswersAre DEF FInv, SInv
<1>2. /\ a.value \in Nat /\ a.stamp \in Nat
      /\ cached[p].value \in Nat /\ cached[p].stamp \in Nat
      /\ arrived[p] \in Nat /\ clock \in Nat /\ TTL \in Nat /\ MaxDelay \in Nat
  BY <1>1, AnswerNumbers, TimesAssumption, BoundsAssumption DEF TypeOK
<1>3. clock <= a.stamp + MaxDelay /\ cached[p].stamp <= arrived[p]
  BY DEF FInv, NotNewer
<1>4. a.stamp > cached[p].stamp
  BY <1>2, <1>3 DEF AnswersInTime
<1>5. a.value < cached[p].value => a.stamp <= cached[p].stamp
  BY <1>1 DEF FInv, SInv, Ordered
<1>6. QED
  BY <1>2, <1>4, <1>5

LEMMA StepFInv ==
  ASSUME FInv, OneOwner, OwnersOnlyManage, AnswersInTime, [Next]_vars
  PROVE  FInv' /\ \A p \in Peer :
                    /\ ask'[p].seen >= ask[p].seen
                    /\ ask'[p].got < ask[p].got => ask'[p].got = 0 /\ faults' > faults
<1>1. SInv /\ SInv' /\ MInv /\ TypeOK /\ TypeOK' /\ Owner \subseteq Peer /\ Moves
  BY StepSInv, StepMoves, MFacts, PeersAssumption DEF FInv, SInv, MInv, EInv, TInv
<1>2. /\ clock \in Nat /\ clock' \in Nat /\ MaxDelay \in Nat /\ TTL \in Nat
      /\ clock' = clock \/ Tick
      /\ \A o \in Owner : value[o] \in Nat /\ value'[o] \in Nat /\ value[o] <= value'[o]
  BY <1>1, ClockMoves, TimesAssumption
<1>3. ASSUME NEW p \in Peer \ Owner
      PROVE  /\ NotNewer(p)'
             /\ ask'[p].seen >= ask[p].seen
             /\ ask'[p].got < ask[p].got => ask'[p].got = 0 /\ faults' > faults
  <2>0. AnswersFor(p) \subseteq Answers /\ cached[p] \in Answers
    BY AnswersAre
  <2>1. /\ ask[p].got \in Nat /\ ask'[p].got \in Nat
        /\ ask[p].seen \in Nat /\ ask'[p].seen \in Nat
        /\ cached[p].value \in Nat /\ cached[p].stamp \in Nat
        /\ \A a \in AnswersFor(p) : a.value \in Nat /\ a.stamp \in Nat
        /\ \A h \in handling : h.value \in Nat
    <3>1. ask[p] \in Ask /\ ask'[p] \in Ask
      BY <1>1 DEF TypeOK
    <3>2. /\ ask[p].got \in Nat /\ ask'[p].got \in Nat
          /\ ask[p].seen \in Nat /\ ask'[p].seen \in Nat
      BY <3>1, BoundsAssumption DEF Ask
    <3>3. QED
      BY <1>1, <2>0, <3>2, AnswerNumbers, HandlerFacts
  <2>2. NotNewer(p) /\ CacheMoves(p) /\ ReadMoves(p)
    BY <1>1 DEF FInv, Moves
  <2>3. /\ \A o \in Owner : cached[p].value <= value[o]
        /\ \A h \in handling : cached[p].value <= h.value
        /\ \A a \in AnswersFor(p) : a.stamp <= clock
    BY <1>1, <2>0 DEF SInv, Behind, HandlersLead
  <2>4. /\ ask'[p].seen >= ask[p].seen
        /\ ask'[p].got <= ask'[p].seen
        /\ ask'[p].got < ask[p].got => ask'[p].got = 0 /\ faults' > faults
        /\ ask'[p].seen = ask[p].seen \/ /\ ask'[p].seen = cached[p].value
                                         /\ UNCHANGED <<caches, messages, clock>>
    BY <2>1, <2>2 DEF NotNewer, ReadMoves
  <2>5. \A o \in Owner : ask[p].seen <= value[o] /\ ask'[p].seen <= value'[o]
    BY <1>2, <2>1, <2>2, <2>3, <2>4 DEF NotNewer
  <2>6. ASSUME NEW h \in handling'
        PROVE  ask'[p].seen <= h.value
    <3>1. CASE h \in handling
      BY <2>1, <2>2, <2>3, <2>4, <3>1 DEF NotNewer
    <3>2. CASE h \notin handling
      <4>1. \E o \in Owner : h.value = value[o]
        BY <1>1, <3>2 DEF Moves, HandlersStay
      <4>2. ask'[p].seen = ask[p].seen
        BY <2>4, <3>2 DEF messages
      <4>3. QED
        BY <2>5, <4>1, <4>2
    <3>3. QED
      BY <3>1, <3>2
  <2>7. ASSUME NEW a \in AnswersFor(p)'
        PROVE  clock' <= a.stamp + MaxDelay
    <3>1. CASE clock' = clock /\ a \in AnswersFor(p)
      BY <2>2, <3>1 DEF NotNewer
    <3>2. CASE \E h \in handling : Made(a, h)
      BY <1>2, <3>2 DEF Made
    <3>3. CASE Tick
      <4>1. a \in AnswersFor(p) /\ clock' = clock + 1 /\ clock < a.stamp + MaxDelay
        BY <3>3 DEF Tick, messages, AnswersFor
      <4>2. QED
        BY <1>2, <2>1, <4>1
    <3>4. QED
      BY <1>1, <1>2, <3>1, <3>2, <3>3 DEF Moves, AnswersStay
  <2>8. ASSUME cached'[p] = cached[p], cached[p] = NoAnswer, NEW a \in AnswersFor(p)'
        PROVE  ask'[p].seen <= a.value
    <3>1. ask'[p].seen = ask[p].seen
      BY <2>1, <2>2, <2>8, NoAnswerIsNone DEF ReadMoves
    <3>2. CASE a \in AnswersFor(p)
      BY <2>2, <2>8, <3>1, <3>2 DEF NotNewer
    <3>3. CASE \E h \in handling : Made(a, h)
      BY <2>2, <3>1, <3>3 DEF NotNewer, Made
    <3>4. QED
      BY <1>1, <3>2, <3>3 DEF Moves, AnswersStay
  <2>9. /\ cached'[p] # NoAnswer =>
             ask'[p].seen <= cached'[p].value /\ cached'[p].stamp <= arrived'[p]
        /\ cached'[p] = NoAnswer => \A a \in AnswersFor(p)' : ask'[p].seen <= a.value
    <3>1. CASE cached'[p] = cached[p] /\ arrived'[p] = arrived[p]
      BY <2>1, <2>2, <2>4, <2>8, <3>1 DEF NotNewer
    <3>2. CASE /\ cached'[p] \in AnswersFor(p)
               /\ cached[p] = NoAnswer \/ Older(cached[p], cached'[p])
               /\ arrived'[p] = clock /\ UNCHANGED <<ask, clock, handling, sending, value>>
      <4> DEFINE m == cached'[p]
      <4>1. /\ m \in AnswersFor(p) /\ m \in Answers /\ m.value \in Nat /\ m.stamp \in Nat
            /\ m.stamp <= clock
        BY <2>0, <2>1, <2>3, <3>2
      <4>2. m # NoAnswer
        BY <4>1, <1>1, SenderFacts, NoAnswerIsNone DEF AnswersFor
      <4>3. ask[p].seen <= m.value
        <5>1. CASE cached[p] = NoAnswer
          BY <2>2, <4>1, <5>1 DEF NotNewer
        <5>2. CASE cached[p] # NoAnswer
          <6>1. cached[p].stamp < m.stamp /\ ask[p].seen <= cached[p].value
            BY <2>2, <3>2, <5>2 DEF Older, NotNewer
          <6>2. m.value < cached[p].value => m.stamp <= cached[p].stamp
            BY <1>1, <2>0, <4>1 DEF SInv, Ordered
          <6> HIDE DEF m
          <6>3. QED
            BY <2>1, <4>1, <6>1, <6>2
        <5>3. QED
          BY <5>1, <5>2
      <4>4. QED
        BY <3>2, <4>1, <4>2, <4>3
    <3>3. CASE /\ cached'[p] = NoAnswer /\ cached[p] # NoAnswer
               /\ clock >= arrived[p] + TTL /\ UNCHANGED <<ask, clock, messages, value>>
      <4>1. AnswersFor(p)' = AnswersFor(p)
        BY <3>3 DEF AnswersFor, messages
      <4>2. \A a \in AnswersFor(p) : cached[p].value <= a.value
        BY <3>3, ExpiresLast
      <4>3. ask[p].seen <= cached[p].value
        BY <2>2, <3>3 DEF NotNewer
      <4>4. QED
        BY <2>1, <3>3, <4>1, <4>2, <4>3
    <3>4. QED
      BY <2>2, <3>1, <3>2, <3>3 DEF CacheMoves
  <2>10. QED
    BY <2>4, <2>5, <2>6, <2>7, <2>9 DEF NotNewer
<1>4. ASSUME NEW o \in Owner
      PROVE  /\ ask'[o].got <= ask'[o].seen /\ ask'[o].seen <= value'[o]
             /\ ask'[o].seen >= ask[o].seen
             /\ ask'[o].got < ask[o].got => ask'[o].got = 0 /\ faults' > faults
  <2>1. /\ ask[o].got \in Nat /\ ask'[o].got \in Nat
        /\ ask[o].seen \in Nat /\ ask'[o].seen \in Nat
    <3>1. ask[o] \in Ask /\ ask'[o] \in Ask
      BY <1>1 DEF TypeOK
    <3>2. QED
      BY <3>1, BoundsAssumption DEF Ask
  <2>2. ReadMoves(o) /\ ask[o].got <= ask[o].seen /\ ask[o].seen <= value[o]
    BY <1>1 DEF FInv, OwnReads, Moves
  <2>3. QED
    BY <1>2, <2>1, <2>2 DEF ReadMoves
<1>5. QED
  BY <1>1, <1>3, <1>4 DEF FInv, OwnReads

\* With one owner, that only manages and starts with an empty backend, and
\* answers that take less than the time one is cached, the values a peer, the
\* owner included, resolves never go back, for any number of readers and of
\* answers that overtake each other, are lost or expire: only the empty value of
\* a query that could not be published comes in between.
THEOREM ReadsSound ==
  ASSUME OneOwner, OwnersOnlyManage, FreshBackends, AnswersInTime
  PROVE  Spec => ReadsGoForward
<1>1. FInv /\ [Next]_vars => FInv'
  BY StepFInv
<1>2. FInv /\ [Next]_vars =>
        [\A p \in Peer :
           /\ ask'[p].seen >= ask[p].seen
           /\ ask'[p].got < ask[p].got => ask'[p].got = 0 /\ faults' > faults]_vars
  BY StepFInv
<1>3. QED
  BY InitFInv, <1>1, <1>2, PTL DEF Spec, ReadsGoForward
=============================================================================
