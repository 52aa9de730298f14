---------------------------- MODULE EventManager ----------------------------
(***************************************************************************)
(* package event: one manager, its event loop, the callbacks registered by *)
(* On and the callers of Next.                                             *)
(*                                                                         *)
(* The loop takes one pubsub message at a time, copies the callbacks of    *)
(* its event name and calls them one after another on its own goroutine.   *)
(* A callback of On returns at once.  The callback of Next sends on a      *)
(* channel nobody else reads: it returns only if that call of Next is      *)
(* still in its select.                                                    *)
(***************************************************************************)
EXTENDS Integers, Sequences, FiniteSets

CONSTANTS
  Listener,     \* callers of On
  Waiter,       \* goroutines that call Next
  Name,         \* event names
  ListensTo,    \* [Listener -> Name]
  WaitsFor,     \* [Waiter -> Name]
  Messages,     \* kinds of message the topic carries
  MaxMessages,  \* bound: messages published
  MaxCalls,     \* bound: calls of Next by one waiter
  GiveUp        \* bound: receive errors in a row that exhaust the backoff

\* own: published by this very peer.  sound: it parses and its signature holds.
Message == [name : Name, own : BOOLEAN, sound : BOOLEAN]

ASSUME NamesAssumption ==
  /\ ListensTo \in [Listener -> Name]
  /\ WaitsFor \in [Waiter -> Name]
  /\ Messages \subseteq Message
ASSUME CallbacksAssumption ==
  \A l \in Listener, w \in Waiter, n \in 0..MaxCalls : l # <<w, n>>
ASSUME BoundsAssumption ==
  MaxMessages \in Nat /\ MaxCalls \in Nat /\ GiveUp \in Nat \ {0}

VARIABLES
  published,  \* all messages of the topic, in the order the peer receives them
  taken,      \* how many of them the loop has received
  loop,       \* the event loop: "receive", "copy", "call" or "gone"
  todo,       \* callbacks copied for the message in hand and not yet called
  subs,       \* registered callbacks
  inserting,  \* callbacks whose unlocked map write is under way
  waiter,     \* each caller of Next: its phase, its call number, its event
  errors,     \* receive errors since the last success
  crashed,    \* the runtime has stopped the process on a racing map access
  heard,      \* history: messages each listener's callback was called with
  since       \* history: messages the loop was past when a callback registered

vars == <<published, taken, loop, todo, subs, inserting, waiter, errors,
          crashed, heard, since>>

\* A callback is a listener's, or the one made by a waiter's n-th Next.
Callback == Listener \cup (Waiter \X (1..MaxCalls))

EventName(cb) == IF cb \in Listener THEN ListensTo[cb] ELSE WaitsFor[cb[1]]

WaiterState ==
  [pc : {"idle", "subscribe", "select", "leave"}, call : 0..MaxCalls,
   event : 0..MaxMessages]

CallOf(w) == <<w, waiter[w].call>>

\* Messages whose callbacks have been copied, or that had none.
Copied == IF loop = "copy" THEN taken - 1 ELSE taken

Init ==
  /\ published = <<>>
  /\ taken = 0
  /\ loop = "receive"
  /\ todo = {}
  /\ subs = {}
  /\ inserting = {}
  /\ waiter = [w \in Waiter |-> [pc |-> "idle", call |-> 0, event |-> 0]]
  /\ errors = 0
  /\ crashed = FALSE
  /\ heard = [l \in Listener |-> <<>>]
  /\ since = [cb \in Callback |-> 0]

-----------------------------------------------------------------------------
(* The topic.                                                              *)

Publish(m) ==
  /\ Len(published) < MaxMessages
  /\ published' = Append(published, m)
  /\ UNCHANGED <<taken, loop, todo, subs, inserting, waiter, errors, crashed,
                 heard, since>>

-----------------------------------------------------------------------------
(* Subscriptions.  Only finding the map of the event name is locked; the    *)
(* write into it is not.                                                   *)

On(l) ==
  /\ l \notin subs \cup inserting
  /\ inserting' = inserting \cup {l}
  /\ UNCHANGED <<published, taken, loop, todo, subs, waiter, errors, crashed,
                 heard, since>>

Insert(cb) ==
  /\ cb \in inserting
  /\ inserting' = inserting \ {cb}
  /\ subs' = subs \cup {cb}
  /\ since' = [since EXCEPT ![cb] = Copied]
  /\ waiter' = IF cb \in Listener THEN waiter
               ELSE [waiter EXCEPT ![cb[1]].pc = "select"]
  /\ UNCHANGED <<published, taken, loop, todo, errors, crashed, heard>>

\* Takes the lock, as Leave does.
Unsubscribe(l) ==
  /\ l \in subs
  /\ subs' = subs \ {l}
  /\ UNCHANGED <<published, taken, loop, todo, inserting, waiter, errors,
                 crashed, heard, since>>

\* The write of cb meets another insertion or a deletion in the same map.
RacingWrite(cb) ==
  \E other \in (inserting \ {cb}) \cup subs :
    /\ EventName(other) = EventName(cb)
    /\ other \notin inserting \cup Listener => waiter[other[1]].pc = "leave"

\* A racing write may be lost: the caller has its Subscription all the same.
InsertLost(cb) ==
  /\ cb \in inserting
  /\ RacingWrite(cb)
  /\ inserting' = inserting \ {cb}
  /\ waiter' = IF cb \in Listener THEN waiter
               ELSE [waiter EXCEPT ![cb[1]].pc = "select"]
  /\ UNCHANGED <<published, taken, loop, todo, subs, errors, crashed, heard,
                 since>>

\* The Go runtime may notice an insertion that races with another write or
\* with the loop's iteration, and stop the process.
FatalError ==
  /\ \E cb \in inserting :
       \/ RacingWrite(cb)
       \/ loop = "copy" /\ EventName(cb) = published[taken].name
  /\ crashed' = TRUE
  /\ UNCHANGED <<published, taken, loop, todo, subs, inserting, waiter, errors,
                 heard, since>>

-----------------------------------------------------------------------------
(* Next.                                                                   *)

CallNext(w) ==
  /\ waiter[w].pc = "idle"
  /\ waiter[w].call < MaxCalls
  /\ waiter' = [waiter EXCEPT ![w] =
       [pc |-> "subscribe", call |-> waiter[w].call + 1, event |-> 0]]
  /\ inserting' = inserting \cup {<<w, waiter[w].call + 1>>}
  /\ UNCHANGED <<published, taken, loop, todo, subs, errors, crashed, heard,
                 since>>

Cancelled(w) ==
  /\ waiter[w].pc = "select"
  /\ waiter' = [waiter EXCEPT ![w].pc = "leave"]
  /\ UNCHANGED <<published, taken, loop, todo, subs, inserting, errors, crashed,
                 heard, since>>

\* Mutated: callbacks are called with the lock held.
LeaveWaitsForLoop(w) ==
  /\ waiter[w].pc = "leave"
  /\ loop # "call"
  /\ waiter' = [waiter EXCEPT ![w].pc = "idle"]
  /\ subs' = subs \ {CallOf(w)}
  /\ UNCHANGED <<published, taken, loop, todo, inserting, errors, crashed,
                 heard, since>>

\* The deferred Unsubscribe, then the return.
Leave(w) ==
  /\ waiter[w].pc = "leave"
  /\ waiter' = [waiter EXCEPT ![w].pc = "idle"]
  /\ subs' = subs \ {CallOf(w)}
  /\ UNCHANGED <<published, taken, loop, todo, inserting, errors, crashed,
                 heard, since>>

-----------------------------------------------------------------------------
(* The event loop.                                                         *)

\* Messages of this peer and messages that do not verify are passed over.
Receive ==
  /\ loop = "receive"
  /\ taken < Len(published)
  /\ taken' = taken + 1
  /\ errors' = 0
  /\ LET m == published[taken + 1]
     IN loop' = IF m.own \/ ~m.sound THEN "receive" ELSE "copy"
  /\ UNCHANGED <<published, todo, subs, inserting, waiter, crashed, heard, since>>

\* Mutated: one retry more than the backoff allows.
ReceiveErrorRetried ==
  /\ loop = "receive"
  /\ errors' = errors + 1
  /\ loop' = IF errors = GiveUp THEN "gone" ELSE "receive"
  /\ UNCHANGED <<published, taken, todo, subs, inserting, waiter, crashed,
                 heard, since>>

\* rootSub.Next fails; the backoff allows so many failures in a row.
ReceiveError ==
  /\ loop = "receive"
  /\ errors' = errors + 1
  /\ loop' = IF errors + 1 = GiveUp THEN "gone" ELSE "receive"
  /\ UNCHANGED <<published, taken, todo, subs, inserting, waiter, crashed,
                 heard, since>>

\* Mutated: only one callback is copied.
CopyOne ==
  LET found == {cb \in subs : EventName(cb) = published[taken].name}
  IN /\ loop = "copy"
     /\ todo' \in {{cb} : cb \in found} \cup {x \in {{}} : found = {}}
     /\ loop' = IF found = {} THEN "receive" ELSE "call"
     /\ UNCHANGED <<published, taken, subs, inserting, waiter, errors, crashed,
                    heard, since>>

\* Mutated: the loop waits for somebody to subscribe.
CopyWaits ==
  LET found == {cb \in subs : EventName(cb) = published[taken].name}
  IN /\ loop = "copy"
     /\ found # {}
     /\ todo' = found
     /\ loop' = "call"
     /\ UNCHANGED <<published, taken, subs, inserting, waiter, errors, crashed,
                    heard, since>>

Copy ==
  LET found == {cb \in subs : EventName(cb) = published[taken].name}
  IN /\ loop = "copy"
     /\ todo' = found
     /\ loop' = IF found = {} THEN "receive" ELSE "call"
     /\ UNCHANGED <<published, taken, subs, inserting, waiter, errors, crashed,
                    heard, since>>

\* Done with cb: the loop goes back to receiving after the last callback.
Called(cb) ==
  /\ todo' = todo \ {cb}
  /\ loop' = IF todo = {cb} THEN "receive" ELSE "call"

CallListener(l) ==
  /\ loop = "call" /\ l \in todo
  /\ heard' = [heard EXCEPT ![l] = Append(heard[l], taken)]
  /\ Called(l)
  /\ UNCHANGED <<published, taken, subs, inserting, waiter, errors, crashed,
                 since>>

\* Mutated: the channel is buffered and drained by the waiter's next call.
SendToAnyCall(w) ==
  /\ loop = "call"
  /\ waiter[w].pc = "select"
  /\ \E n \in 1..waiter[w].call :
       /\ <<w, n>> \in todo
       /\ Called(<<w, n>>)
  /\ waiter' = [waiter EXCEPT ![w].pc = "leave", ![w].event = taken]
  /\ UNCHANGED <<published, taken, subs, inserting, errors, crashed, heard, since>>

\* doneChan <- ev meets the select of the same call of Next, or blocks.
Send(w) ==
  /\ loop = "call"
  /\ waiter[w].pc = "select"
  /\ CallOf(w) \in todo
  /\ Called(CallOf(w))
  /\ waiter' = [waiter EXCEPT ![w].pc = "leave", ![w].event = taken]
  /\ UNCHANGED <<published, taken, subs, inserting, errors, crashed, heard, since>>

-----------------------------------------------------------------------------
LoopStep ==
  \/ Receive
  \/ Copy
  \/ \E l \in Listener : CallListener(l)
  \/ \E w \in Waiter : Send(w)

WaiterStep(w) ==
  \/ Insert(CallOf(w))
  \/ InsertLost(CallOf(w))
  \/ Cancelled(w)
  \/ Leave(w)

Next ==
  /\ ~crashed
  /\ \/ \E m \in Messages : Publish(m)
     \/ \E l \in Listener : On(l) \/ Insert(l) \/ InsertLost(l) \/ Unsubscribe(l)
     \/ \E w \in Waiter : CallNext(w) \/ WaiterStep(w)
     \/ LoopStep
     \/ ReceiveError
     \/ FatalError

Spec == Init /\ [][Next]_vars

\* The loop runs, contexts expire and deferred calls are made.
FairSpec ==
  /\ Spec
  /\ WF_vars(~crashed /\ LoopStep)
  /\ \A w \in Waiter : WF_vars(~crashed /\ WaiterStep(w))
  /\ \A l \in Listener : WF_vars(~crashed /\ (Insert(l) \/ InsertLost(l)))

-----------------------------------------------------------------------------
(* Correctness.                                                            *)

TypeOK ==
  /\ published \in Seq(Message)
  /\ taken \in 0..Len(published)
  /\ loop \in {"receive", "copy", "call", "gone"}
  /\ todo \subseteq Callback /\ subs \subseteq Callback
  /\ inserting \subseteq Callback
  /\ waiter \in [Waiter -> WaiterState]
  /\ errors \in 0..GiveUp
  /\ crashed \in BOOLEAN
  /\ heard \in [Listener -> Seq(1..MaxMessages)]

\* The loop has no callback of message i left to call.
Handled(i) == i < taken \/ (i = taken /\ loop \in {"receive", "gone"})

\* Of the name asked for, from another peer, and verified.
Deliverable(i, name) ==
  LET m == published[i] IN m.name = name /\ ~m.own /\ m.sound

\* A listener that stays registered from before the loop copies an event's
\* callbacks has had its callback called with that event once the loop is done
\* with it; a callback sees each event at most once, in the topic's order.
ListenersMissNothing ==
  \A l \in Listener :
    /\ l \in subs =>
         \A i \in since[l] + 1 .. taken :
           Handled(i) /\ Deliverable(i, ListensTo[l]) =>
             \E j \in DOMAIN heard[l] : heard[l][j] = i
    /\ \A j, k \in DOMAIN heard[l] : j < k => heard[l][j] < heard[l][k]

\* The event Next returns is of the name asked for and one whose callbacks were
\* copied after this call registered: never the leftover of an earlier call.
NextReturnsItsEvent ==
  \A w \in Waiter :
    LET i == waiter[w].event
    IN i # 0 => Deliverable(i, WaitsFor[w]) /\ i > since[CallOf(w)]

\* Next returns once its context ends, whatever the loop is doing.
NextReturns ==
  \A w \in Waiter : waiter[w].pc # "idle" ~> waiter[w].pc = "idle" \/ crashed

\* The loop is in a callback of a Next that has left its select.
SendsToNobody ==
  \E w \in Waiter, n \in 1..MaxCalls :
    <<w, n>> \in todo /\ (n < waiter[w].call \/ waiter[w].pc \in {"leave", "idle"})

\* Nothing but a departed Next, an exhausted backoff or a crash keeps the loop
\* from being done with every message of the topic.
LoopAdvances ==
  \A i \in 1..MaxMessages :
    Len(published) >= i ~>
      Handled(i) \/ SendsToNobody \/ loop = "gone" \/ crashed

\* "On sets up callback to be called every time eventName happens on the
\* namespace": unless it unsubscribes, or receiving itself has failed, a
\* listener's callback is called with every event of its name.
CallbackAlwaysCalled ==
  \A l \in Listener, i \in 1..MaxMessages :
    (l \in subs /\ since[l] < i /\ i <= Len(published)
       /\ Deliverable(i, ListensTo[l])) ~>
      \/ \E j \in DOMAIN heard[l] : heard[l][j] = i
      \/ l \notin subs \/ loop = "gone" \/ crashed
=============================================================================
