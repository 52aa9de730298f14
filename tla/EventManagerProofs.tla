------------------------- MODULE EventManagerProofs -------------------------
(***************************************************************************)
(* Theorems about EventManager, for any listeners, waiters, messages and   *)
(* bounds: its types, that no registered listener is passed over or called *)
(* out of turn, and that Next returns an event of its own call.            *)
(***************************************************************************)
EXTENDS EventManager, TLAPS

-----------------------------------------------------------------------------
(* Types, and where the loop and the callers of Next are.                  *)

\* The loop has a message in hand that is another peer's and verified, and
\* callbacks to call exactly when it calls.
LoopInv ==
  /\ Len(published) <= MaxMessages
  /\ loop \in {"copy", "call"} =>
       taken > 0 /\ ~published[taken].own /\ published[taken].sound
  /\ loop # "call" => todo = {}
  /\ loop # "gone" => errors < GiveUp

\* A callback is registered for messages the loop has not copied it for.
SinceInv == since \in [Callback -> Nat] /\ \A cb \in Callback : since[cb] <= Copied

TInv == TypeOK /\ LoopInv /\ SinceInv

\* A callback is called back by name.
LEMMA WaiterOf ==
  ASSUME NEW cb \in Callback, cb \notin Listener
  PROVE  cb[1] \in Waiter
  BY DEF Callback

\* What a step of w's makes of it, and that the other waiters stay.
LEMMA WaiterSteps ==
  ASSUME TInv, NEW w \in Waiter
  PROVE  /\ CallNext(w) =>
              /\ waiter' \in [Waiter -> WaiterState]
              /\ waiter'[w].pc = "subscribe" /\ waiter'[w].event = 0
              /\ waiter[w].pc = "idle" /\ waiter'[w].call = waiter[w].call + 1
              /\ \A x \in Waiter \ {w} : waiter'[x] = waiter[x]
         /\ (\E pc \in {"idle", "select", "leave"} :
               waiter' = [waiter EXCEPT ![w].pc = pc]) =>
              /\ waiter' \in [Waiter -> WaiterState]
              /\ waiter'[w].pc \in {"idle", "select", "leave"}
              /\ waiter'[w].call = waiter[w].call
              /\ waiter'[w].event = waiter[w].event
              /\ \A x \in Waiter \ {w} : waiter'[x] = waiter[x]
         /\ Send(w) =>
              /\ waiter' \in [Waiter -> WaiterState]
              /\ waiter'[w].pc = "leave" /\ waiter'[w].event = taken
              /\ waiter'[w].call = waiter[w].call
              /\ \A x \in Waiter \ {w} : waiter'[x] = waiter[x]
<1> DEFINE a == waiter[w]
<1>1. waiter \in [Waiter -> WaiterState] /\ a \in WaiterState
  BY DEF TInv, TypeOK
<1>2. ASSUME CallNext(w)
      PROVE  /\ waiter' = [waiter EXCEPT ![w] =
                  [pc |-> "subscribe", call |-> a.call + 1, event |-> 0]]
             /\ [pc |-> "subscribe", call |-> a.call + 1, event |-> 0]
                  \in WaiterState
             /\ a.pc = "idle"
  BY <1>1, <1>2, BoundsAssumption DEF CallNext, WaiterState
<1>3. ASSUME NEW pc \in {"idle", "select", "leave"},
             waiter' = [waiter EXCEPT ![w].pc = pc]
      PROVE  waiter' = [waiter EXCEPT ![w] = [a EXCEPT !.pc = pc]]
  BY <1>3
<1>4. ASSUME Send(w)
      PROVE  /\ waiter' = [waiter EXCEPT ![w] =
                  [a EXCEPT !.pc = "leave", !.event = taken]]
             /\ taken \in 0..MaxMessages
  <2>1. waiter' = [waiter EXCEPT ![w] = [a EXCEPT !.pc = "leave", !.event = taken]]
    BY <1>4 DEF Send
  <2>2. taken \in 0..MaxMessages
    BY BoundsAssumption DEF TInv, TypeOK, LoopInv
  <2>3. QED
    BY <2>1, <2>2
<1>5. ASSUME NEW s \in WaiterState, waiter' = [waiter EXCEPT ![w] = s]
      PROVE  /\ waiter' \in [Waiter -> WaiterState] /\ waiter'[w] = s
             /\ \A x \in Waiter \ {w} : waiter'[x] = waiter[x]
  BY <1>1, <1>5
<1>6. 0 \in 0..MaxMessages
  BY BoundsAssumption
<1>7. ASSUME CallNext(w)
      PROVE  /\ waiter' \in [Waiter -> WaiterState]
             /\ waiter'[w].pc = "subscribe" /\ waiter'[w].event = 0
             /\ waiter[w].pc = "idle" /\ waiter'[w].call = waiter[w].call + 1
             /\ \A x \in Waiter \ {w} : waiter'[x] = waiter[x]
  BY <1>2, <1>5, <1>7
<1>8. ASSUME NEW pc \in {"idle", "select", "leave"},
             waiter' = [waiter EXCEPT ![w].pc = pc]
      PROVE  /\ waiter' \in [Waiter -> WaiterState]
             /\ waiter'[w].pc \in {"idle", "select", "leave"}
             /\ waiter'[w].call = waiter[w].call
             /\ waiter'[w].event = waiter[w].event
             /\ \A x \in Waiter \ {w} : waiter'[x] = waiter[x]
  <2>1. /\ [a EXCEPT !.pc = pc] \in WaiterState
        /\ [a EXCEPT !.pc = pc].pc = pc
        /\ [a EXCEPT !.pc = pc].call = a.call
        /\ [a EXCEPT !.pc = pc].event = a.event
    <3>1. pc \in {"idle", "subscribe", "select", "leave"}
      OBVIOUS
    <3>2. a \in WaiterState
      BY <1>1
    <3> HIDE DEF a
    <3>3. QED
      BY <3>1, <3>2 DEF WaiterState
  <2>2. QED
    BY <1>3, <1>5, <1>8, <2>1
<1>9. ASSUME Send(w)
      PROVE  /\ waiter' \in [Waiter -> WaiterState]
             /\ waiter'[w].pc = "leave" /\ waiter'[w].event = taken
             /\ waiter'[w].call = waiter[w].call
             /\ \A x \in Waiter \ {w} : waiter'[x] = waiter[x]
  <2>1. /\ [a EXCEPT !.pc = "leave", !.event = taken] \in WaiterState
        /\ [a EXCEPT !.pc = "leave", !.event = taken].pc = "leave"
        /\ [a EXCEPT !.pc = "leave", !.event = taken].call = a.call
        /\ [a EXCEPT !.pc = "leave", !.event = taken].event = taken
    <3>1. a \in WaiterState /\ taken \in 0..MaxMessages
      BY <1>1, <1>4, <1>9
    <3> HIDE DEF a
    <3>2. QED
      BY <3>1 DEF WaiterState
  <2>2. QED
    BY <1>4, <1>5, <1>9, <2>1
<1>10. QED
  BY <1>7, <1>8, <1>9

LEMMA InitTInv == Init => TInv
<1> SUFFICES ASSUME Init PROVE TInv
  OBVIOUS
<1>1. waiter \in [Waiter -> WaiterState]
  BY BoundsAssumption DEF Init, WaiterState
<1>2. Len(published) = 0 /\ published \in Seq(Message)
  BY DEF Init
<1>3. heard \in [Listener -> Seq(1..MaxMessages)]
  BY DEF Init
<1>4. TypeOK
  <2>1. /\ taken = 0 /\ loop = "receive" /\ todo = {} /\ subs = {} /\ inserting = {}
        /\ errors = 0 /\ crashed = FALSE
    BY DEF Init
  <2>2. taken \in 0..Len(published) /\ errors \in 0..GiveUp
    BY <1>2, <2>1, BoundsAssumption
  <2>3. QED
    BY <1>1, <1>2, <1>3, <2>1, <2>2 DEF TypeOK
<1>5. LoopInv /\ SinceInv
  BY <1>2, BoundsAssumption DEF Init, LoopInv, SinceInv, Copied
<1>6. QED
  BY <1>4, <1>5 DEF TInv

LEMMA StepTInv ==
  ASSUME TInv, [Next]_vars
  PROVE  TInv'
<1> USE DEF TInv
<1>1. ASSUME NEW m \in Messages, Publish(m)
      PROVE  TInv'
  <2>1. m \in Message
    BY NamesAssumption
  <2>2. /\ published' \in Seq(Message) /\ Len(published') = Len(published) + 1
        /\ \A i \in 1..Len(published) : published'[i] = published[i]
        /\ Len(published') <= MaxMessages
    BY <1>1, <2>1, BoundsAssumption DEF Publish, TypeOK
  <2>3. UNCHANGED <<taken, loop, todo, subs, inserting, waiter, errors, crashed,
                    heard, since>>
    BY <1>1 DEF Publish
  <2>4. taken \in 1..Len(published) => published'[taken] = published[taken]
    BY <2>2
  <2>5. TypeOK'
    BY <2>2, <2>3 DEF TypeOK
  <2>6. LoopInv'
    BY <2>2, <2>3, <2>4 DEF TypeOK, LoopInv
  <2>7. SinceInv'
    BY <2>3 DEF SinceInv, Copied
  <2>8. QED
    BY <2>5, <2>6, <2>7
<1>2. ASSUME NEW l \in Listener, On(l) \/ Unsubscribe(l)
      PROVE  TInv'
  BY <1>2 DEF On, Unsubscribe, TypeOK, LoopInv, SinceInv, Copied, Callback
<1>3. ASSUME NEW cb, Insert(cb) \/ InsertLost(cb)
      PROVE  TInv'
  <2>1. cb \in Callback
    BY <1>3 DEF Insert, InsertLost, TypeOK
  <2>2. /\ UNCHANGED <<published, taken, loop, todo, errors, crashed, heard>>
        /\ inserting' \subseteq Callback /\ subs' \subseteq Callback
        /\ since' \in {since, [since EXCEPT ![cb] = Copied]}
        /\ \/ waiter' = waiter
           \/ cb[1] \in Waiter /\ waiter' = [waiter EXCEPT ![cb[1]].pc = "select"]
    BY <1>3, <2>1, WaiterOf DEF Insert, InsertLost, TypeOK
  <2>3. waiter' \in [Waiter -> WaiterState]
    BY <2>2, WaiterSteps DEF TypeOK
  <2>4. Copied \in Nat
    BY DEF Copied, TypeOK, LoopInv
  <2>5. SinceInv'
    BY <2>2, <2>4 DEF SinceInv, Copied
  <2>6. QED
    BY <2>2, <2>3, <2>5 DEF TypeOK, LoopInv
<1>4. ASSUME NEW w \in Waiter, CallNext(w) \/ Cancelled(w) \/ Leave(w)
      PROVE  TInv'
  <2>1. waiter' \in [Waiter -> WaiterState]
    BY <1>4, WaiterSteps DEF Cancelled, Leave
  <2>2. inserting' \subseteq Callback /\ subs' \subseteq Callback
    BY <1>4, BoundsAssumption
       DEF CallNext, Cancelled, Leave, TypeOK, WaiterState, Callback
  <2>3. UNCHANGED <<published, taken, loop, todo, errors, crashed, heard, since>>
    BY <1>4 DEF CallNext, Cancelled, Leave
  <2>4. QED
    BY <2>1, <2>2, <2>3 DEF TypeOK, LoopInv, SinceInv, Copied
<1>5. CASE Receive \/ ReceiveError
  BY <1>5, BoundsAssumption
     DEF Receive, ReceiveError, TypeOK, LoopInv, SinceInv, Copied
<1>6. CASE Copy
  BY <1>6 DEF Copy, TypeOK, LoopInv, SinceInv, Copied
<1>7. ASSUME NEW l \in Listener, CallListener(l)
      PROVE  TInv'
  <2>1. taken \in 1..MaxMessages
    BY <1>7, BoundsAssumption DEF CallListener, TypeOK, LoopInv
  <2>2. heard' \in [Listener -> Seq(1..MaxMessages)]
    BY <1>7, <2>1 DEF CallListener, TypeOK
  <2>3. QED
    BY <1>7, <2>2 DEF CallListener, Called, TypeOK, LoopInv, SinceInv, Copied
<1>8. ASSUME NEW w \in Waiter, Send(w)
      PROVE  TInv'
  <2>1. taken \in 1..MaxMessages
    BY <1>8, BoundsAssumption DEF Send, TypeOK, LoopInv
  <2>2. waiter' \in [Waiter -> WaiterState]
    BY <1>8, WaiterSteps
  <2>3. QED
    BY <1>8, <2>2 DEF Send, Called, TypeOK, LoopInv, SinceInv, Copied
<1>9. CASE FatalError \/ UNCHANGED vars
  BY <1>9 DEF FatalError, vars, TypeOK, LoopInv, SinceInv, Copied
<1>10. QED
  BY <1>1, <1>2, <1>3, <1>4, <1>5, <1>6, <1>7, <1>8, <1>9
     DEF Next, WaiterStep, LoopStep

\* Every variable of the event manager keeps its kind: in particular a
\* listener hears only messages there are, and the backoff's count is kept.
THEOREM EventTypes == Spec => []TypeOK
<1>1. TInv /\ [Next]_vars => TInv'
  BY StepTInv
<1>2. QED
  BY InitTInv, <1>1, PTL DEF Spec, TInv

-----------------------------------------------------------------------------
(* Listeners.                                                              *)

\* The loop has called l back for every message it was registered for and
\* that is not still to be copied or called for.
HeardInv ==
  \A l \in Listener :
    /\ \A j, k \in DOMAIN heard[l] : j < k => heard[l][j] < heard[l][k]
    /\ \A j \in DOMAIN heard[l] :
         /\ heard[l][j] <= taken
         /\ (loop = "copy" \/ l \in todo) => heard[l][j] < taken
    /\ l \in subs =>
         \A i \in since[l] + 1 .. taken :
           /\ Deliverable(i, ListensTo[l])
           /\ i < taken \/ (loop # "copy" /\ l \notin todo)
           => \E j \in DOMAIN heard[l] : heard[l][j] = i

HInv == TInv /\ HeardInv

\* What TInv says in numbers.
LEMMA TNumbers ==
  ASSUME TInv
  PROVE  /\ taken \in Nat /\ Len(published) \in Nat /\ taken <= Len(published)
         /\ Copied = (IF loop = "copy" THEN taken - 1 ELSE taken)
         /\ \A cb \in Callback : since[cb] \in Nat
         /\ \A l \in Listener :
              /\ heard[l] \in Seq(1..MaxMessages)
              /\ \A j \in DOMAIN heard[l] : heard[l][j] \in Nat
  BY BoundsAssumption DEF TInv, TypeOK, SinceInv, Copied

\* Registering anew starts with the next message.
LEMMA RegisteringKeeps ==
  ASSUME HInv, UNCHANGED <<published, taken, todo, heard>>,
         loop' = "copy" <=> loop = "copy",
         \A l \in Listener : l \in subs' =>
           (l \in subs /\ since'[l] = since[l]) \/ since'[l] = Copied
  PROVE  HeardInv'
<1> SUFFICES ASSUME NEW l \in Listener, l \in subs',
                    NEW i \in since'[l] + 1 .. taken,
                    Deliverable(i, ListensTo[l]),
                    i < taken \/ (loop # "copy" /\ l \notin todo)
             PROVE  \E j \in DOMAIN heard[l] : heard[l][j] = i
  BY DEF HInv, HeardInv, Deliverable
<1>1. CASE l \in subs /\ since'[l] = since[l]
  BY <1>1 DEF HInv, HeardInv
<1>2. CASE since'[l] = Copied
  BY <1>2, TNumbers DEF HInv
<1>3. QED
  BY <1>1, <1>2

LEMMA StepHInv ==
  ASSUME HInv, [Next]_vars
  PROVE  HInv'
<1>1. TInv /\ TInv' /\ HeardInv
  BY StepTInv DEF HInv
<1>2. ASSUME NEW m \in Messages, Publish(m)
      PROVE  HeardInv'
  <2>1. /\ \A i \in 1..taken : published'[i] = published[i]
        /\ UNCHANGED <<taken, loop, todo, subs, heard, since>>
    <3>1. m \in Message /\ published \in Seq(Message)
      BY <1>1, NamesAssumption DEF TInv, TypeOK
    <3>2. QED
      BY <1>1, <1>2, <3>1, TNumbers DEF Publish
  <2>2. \A l \in Listener : \A i \in since[l] + 1 .. taken : i \in 1..taken
    BY <1>1, TNumbers DEF Callback
  <2>3. QED
    BY <1>1, <2>1, <2>2 DEF HeardInv, Deliverable
<1>3. ASSUME NEW cb, Insert(cb) \/ InsertLost(cb)
      PROVE  HeardInv'
  <2>1. cb \in Callback
    BY <1>1, <1>3 DEF Insert, InsertLost, TInv, TypeOK
  <2>2. since \in [Callback -> Nat]
    BY <1>1 DEF TInv, SinceInv
  <2>3. /\ UNCHANGED <<published, taken, todo, heard, loop>>
        /\ \/ subs' = subs /\ since' = since
           \/ subs' = subs \cup {cb} /\ since' = [since EXCEPT ![cb] = Copied]
    BY <1>3 DEF Insert, InsertLost
  <2>4. \A l \in Listener : l \in subs' =>
           (l \in subs /\ since'[l] = since[l]) \/ since'[l] = Copied
    BY <2>1, <2>2, <2>3 DEF Callback
  <2>5. QED
    BY <2>3, <2>4, RegisteringKeeps
<1>4. ASSUME \/ \E l \in Listener : On(l) \/ Unsubscribe(l)
             \/ \E w \in Waiter : CallNext(w) \/ Cancelled(w) \/ Leave(w)
             \/ ReceiveError \/ FatalError \/ UNCHANGED vars
      PROVE  HeardInv'
  <2>1. /\ UNCHANGED <<published, taken, todo, heard, since>>
        /\ subs' \subseteq subs
        /\ loop' = "copy" <=> loop = "copy"
    BY <1>4 DEF On, Unsubscribe, CallNext, Cancelled, Leave, ReceiveError,
                FatalError, vars
  <2>2. QED
    BY <2>1, RegisteringKeeps
<1>5. ASSUME Receive
      PROVE  HeardInv'
  <2>1. /\ UNCHANGED <<published, todo, subs, heard, since>>
        /\ taken' = taken + 1 /\ loop = "receive" /\ todo = {}
        /\ loop' # "copy" => published[taken'].own \/ ~published[taken'].sound
    BY <1>1, <1>5 DEF Receive, TInv, LoopInv
  <2>2. ASSUME NEW l \in Listener
        PROVE  /\ \A j \in DOMAIN heard[l] : heard[l][j] < taken'
               /\ l \in Callback
    BY <1>1, <2>1, TNumbers DEF HeardInv, Callback
  <2>3. ASSUME NEW l \in Listener, l \in subs, NEW i \in since[l] + 1 .. taken',
               Deliverable(i, ListensTo[l]), i < taken' \/ loop' # "copy"
        PROVE  \E j \in DOMAIN heard[l] : heard[l][j] = i
    <3>1. i # taken'
      BY <2>1, <2>3 DEF Deliverable
    <3>2. i \in since[l] + 1 .. taken
      BY <1>1, <2>1, <2>2, <3>1, TNumbers
    <3>3. QED
      BY <1>1, <2>1, <2>3, <3>2 DEF HeardInv
  <2>4. ASSUME NEW l \in Listener
        PROVE  /\ \A j, k \in DOMAIN heard[l] : j < k => heard[l][j] < heard[l][k]
               /\ \A j \in DOMAIN heard[l] : heard[l][j] <= taken'
    BY <1>1, <2>1, <2>2, TNumbers DEF HeardInv
  <2>5. \A i, n : Deliverable(i, n)' = Deliverable(i, n)
    BY <2>1 DEF Deliverable
  <2>6. QED
    BY <2>1, <2>2, <2>3, <2>4, <2>5 DEF HeardInv
<1>6. ASSUME Copy
      PROVE  HeardInv'
  <2>1. /\ UNCHANGED <<published, taken, subs, heard, since>>
        /\ loop = "copy" /\ loop' # "copy"
        /\ todo' = {cb \in subs : EventName(cb) = published[taken].name}
    BY <1>6 DEF Copy
  <2>2. ASSUME NEW l \in Listener, l \in subs, Deliverable(taken, ListensTo[l])
        PROVE  l \in todo'
    BY <2>1, <2>2 DEF Deliverable, EventName
  <2>3. ASSUME NEW l \in Listener, l \in subs, NEW i \in since[l] + 1 .. taken,
               Deliverable(i, ListensTo[l]), i < taken \/ l \notin todo'
        PROVE  \E j \in DOMAIN heard[l] : heard[l][j] = i
    <3>1. i < taken
      BY <1>1, <2>2, <2>3, TNumbers DEF Callback
    <3>2. QED
      BY <1>1, <2>1, <2>3, <3>1 DEF HeardInv
  <2>4. ASSUME NEW l \in Listener
        PROVE  /\ \A j, k \in DOMAIN heard[l] : j < k => heard[l][j] < heard[l][k]
               /\ \A j \in DOMAIN heard[l] : heard[l][j] <= taken /\ heard[l][j] < taken
    BY <1>1, <2>1 DEF HeardInv
  <2>5. \A i, n : Deliverable(i, n)' = Deliverable(i, n)
    BY <2>1 DEF Deliverable
  <2>6. QED
    BY <2>1, <2>3, <2>4, <2>5 DEF HeardInv
<1>7. ASSUME NEW l \in Listener, CallListener(l)
      PROVE  HeardInv'
  <2>1. /\ UNCHANGED <<published, taken, subs, since>>
        /\ loop = "call" /\ loop' # "copy" /\ l \in todo /\ todo' = todo \ {l}
        /\ heard' = [heard EXCEPT ![l] = Append(heard[l], taken)]
    BY <1>7 DEF CallListener, Called
  <2> DEFINE h == heard[l]
             g == heard'[l]
  <2>2. /\ Len(g) = Len(h) + 1 /\ DOMAIN g = 1..(Len(h) + 1)
        /\ DOMAIN h = 1..Len(h) /\ Len(h) \in Nat
        /\ g[Len(h) + 1] = taken /\ \A j \in DOMAIN h : g[j] = h[j]
        /\ \A k \in Listener \ {l} : heard'[k] = heard[k]
    <3>1. heard \in [Listener -> Seq(1..MaxMessages)] /\ taken \in 1..MaxMessages
      BY <1>1, <2>1, TNumbers DEF TInv, TypeOK, LoopInv
    <3>2. g = Append(h, taken) /\ h \in Seq(1..MaxMessages)
          /\ \A k \in Listener \ {l} : heard'[k] = heard[k]
      BY <2>1, <3>1
    <3> HIDE DEF g, h
    <3>3. QED
      BY <3>1, <3>2
  <2>3. /\ \A j \in DOMAIN h : h[j] \in Nat /\ h[j] < taken
        /\ \A j, k \in DOMAIN h : j < k => h[j] < h[k]
    BY <1>1, <2>1, TNumbers DEF HeardInv
  <2> HIDE DEF h, g
  <2>4. /\ \A j \in DOMAIN g : g[j] <= taken
        /\ \A j, k \in DOMAIN g : j < k => g[j] < g[k]
    BY <1>1, <2>2, <2>3, TNumbers
  <2>5. ASSUME l \in subs, NEW i \in since[l] + 1 .. taken,
               Deliverable(i, ListensTo[l])
        PROVE  \E j \in DOMAIN g : g[j] = i
    <3>1. CASE i = taken
      BY <2>2, <3>1
    <3>2. CASE i < taken
      <4>1. \E j \in DOMAIN h : h[j] = i
        BY <1>1, <2>5, <3>2 DEF HeardInv, h
      <4>2. QED
        BY <2>2, <4>1
    <3>3. QED
      BY <1>1, <3>1, <3>2, TNumbers DEF Callback
  <2>6. ASSUME NEW k \in Listener \ {l}
        PROVE  heard'[k] = heard[k] /\ (k \in todo' <=> k \in todo)
    BY <2>1, <2>2
  <2>7. l \notin todo' /\ UNCHANGED <<taken, subs, since, published>> /\ loop' # "copy"
    BY <2>1
  <2>8. QED
    BY <1>1, <2>1, <2>4, <2>5, <2>6, <2>7 DEF HeardInv, Deliverable, g
<1>8. ASSUME NEW w \in Waiter, Send(w)
      PROVE  HeardInv'
  <2>1. /\ UNCHANGED <<published, taken, subs, heard, since>>
        /\ loop = "call" /\ loop' # "copy" /\ todo' = todo \ {CallOf(w)}
    BY <1>8 DEF Send, Called
  <2>2. \A l \in Listener : l # CallOf(w)
    BY <1>1, CallbacksAssumption DEF CallOf, TInv, TypeOK, WaiterState
  <2>3. \A l \in Listener : l \in todo' <=> l \in todo
    BY <2>1, <2>2
  <2>4. QED
    BY <1>1, <2>1, <2>3 DEF HeardInv, Deliverable
<1>9. HeardInv'
  <2>1. CASE (\E m \in Messages : Publish(m)) \/ LoopStep \/ ReceiveError \/ FatalError
             \/ UNCHANGED vars
    BY <1>2, <1>4, <1>5, <1>6, <1>7, <1>8, <2>1 DEF LoopStep
  <2>2. CASE \E l \in Listener : On(l) \/ Insert(l) \/ InsertLost(l) \/ Unsubscribe(l)
    BY <1>3, <1>4, <2>2
  <2>3. CASE \E w \in Waiter : CallNext(w) \/ WaiterStep(w)
    BY <1>3, <1>4, <2>3 DEF WaiterStep
  <2>4. QED
    BY <2>1, <2>2, <2>3 DEF Next
<1>10. QED
  BY <1>1, <1>9 DEF HInv

\* However callbacks come and go while the loop is at work, it passes over no
\* listener that stays registered and calls none twice or out of order.
THEOREM NoListenerMissed == Spec => []ListenersMissNothing
<1>1. Init => HInv
  BY InitTInv DEF Init, HInv, HeardInv
<1>2. HInv /\ [Next]_vars => HInv'
  BY StepHInv
<1>3. HInv => ListenersMissNothing
  BY DEF HInv, TInv, LoopInv, HeardInv, ListenersMissNothing, Handled
<1>4. QED
  BY <1>1, <1>2, <1>3, PTL DEF Spec

-----------------------------------------------------------------------------
(* Callers of Next.                                                        *)

\* A call of Next is inserted once, before it selects; earlier calls and calls
\* that select may be registered or in the loop's hands.
CallsInv ==
  \A w \in Waiter, n \in 1..MaxCalls :
    /\ <<w, n>> \in inserting =>
         n = waiter[w].call /\ waiter[w].pc = "subscribe"
    /\ <<w, n>> \in subs \cup todo =>
         \/ n < waiter[w].call
         \/ n = waiter[w].call /\ waiter[w].pc # "subscribe"

\* What the loop is about to send was copied for a call registered before.
InHand ==
  \A w \in Waiter, n \in 1..MaxCalls :
    <<w, n>> \in todo =>
      published[taken].name = WaitsFor[w] /\ since[<<w, n>>] < taken

EventsInv ==
  \A w \in Waiter :
    /\ waiter[w].event <= taken
    /\ waiter[w].pc = "subscribe" => waiter[w].event = 0
    /\ waiter[w].event # 0 =>
         /\ waiter[w].call \in 1..MaxCalls
         /\ Deliverable(waiter[w].event, WaitsFor[w])
         /\ since[CallOf(w)] < waiter[w].event

NInv == TInv /\ CallsInv /\ InHand /\ EventsInv

\* A call of Next is no listener, and calls of others are not this one.
LEMMA CallsDiffer ==
  ASSUME TypeOK, NEW w \in Waiter
  PROVE  /\ CallOf(w) = <<w, waiter[w].call>> /\ waiter[w].call \in 0..MaxCalls
         /\ waiter[w].event \in Nat
         /\ CallOf(w) \notin Listener
         /\ \A n \in 1..MaxCalls : <<w, n>> \in Callback /\ <<w, n>> \notin Listener
         /\ \A x \in Waiter \ {w} : CallOf(x) # CallOf(w)
<1>1. waiter[w].call \in 0..MaxCalls /\ waiter[w].event \in 0..MaxMessages
  BY DEF TypeOK, WaiterState
<1>2. 1..MaxCalls \subseteq 0..MaxCalls
  BY BoundsAssumption
<1>3. QED
  BY <1>1, <1>2, BoundsAssumption, CallbacksAssumption DEF CallOf, Callback

\* The waiters stay and what is registered for them only goes.
LEMMA WaitersStay ==
  ASSUME NInv, UNCHANGED <<waiter, since>>, published' = published,
         taken' = taken \/ (taken' = taken + 1 /\ todo = {}),
         inserting' \subseteq inserting \cup Listener, subs' \subseteq subs,
         todo' \subseteq todo
  PROVE  CallsInv' /\ InHand' /\ EventsInv'
<1>1. \A w \in Waiter : /\ CallOf(w)' = CallOf(w) /\ waiter[w].event \in Nat
                        /\ \A n \in 1..MaxCalls : <<w, n>> \notin Listener
  BY CallsDiffer DEF NInv, TInv, CallOf
<1>2. CallsInv'
  BY <1>1 DEF NInv, CallsInv
<1>3. InHand'
  BY DEF NInv, InHand
<1>4. taken \in Nat /\ taken' \in Nat /\ taken <= taken'
  BY TNumbers DEF NInv
<1>5. EventsInv'
  BY <1>1, <1>4 DEF NInv, EventsInv, Deliverable
<1>6. QED
  BY <1>2, <1>3, <1>5

\* One waiter moves on within a call, and its event stays.
LEMMA WaiterGoesOn ==
  ASSUME NInv, NEW w \in Waiter, UNCHANGED <<published, taken, todo, since>>,
         \E pc \in {"idle", "select", "leave"} :
           waiter' = [waiter EXCEPT ![w].pc = pc],
         \A n \in 1..MaxCalls : <<w, n>> \notin inserting',
         inserting' \subseteq inserting,
         subs' \subseteq subs \cup {CallOf(w)}
  PROVE  CallsInv' /\ InHand' /\ EventsInv'
<1>1. /\ waiter'[w].pc \in {"idle", "select", "leave"}
      /\ waiter'[w].call = waiter[w].call
      /\ waiter'[w].event = waiter[w].event
      /\ \A x \in Waiter \ {w} : waiter'[x] = waiter[x]
  BY WaiterSteps DEF NInv
<1>2. \A x \in Waiter :
        CallOf(x)' = CallOf(x) /\ CallOf(x) = <<x, waiter[x].call>>
  BY <1>1 DEF CallOf
<1>3. CallsInv'
  <2>1. ASSUME NEW x \in Waiter, NEW i \in 1..MaxCalls
        PROVE  /\ <<x, i>> \in inserting' =>
                    i = waiter'[x].call /\ waiter'[x].pc = "subscribe"
               /\ <<x, i>> \in subs' \cup todo' =>
                    \/ i < waiter'[x].call
                    \/ i = waiter'[x].call /\ waiter'[x].pc # "subscribe"
    <3>1. CASE x = w
      <4>1. <<x, i>> \in subs' \cup todo' =>
              i = waiter[w].call \/ <<w, i>> \in subs \cup todo
        BY <1>2, <3>1
      <4>2. <<x, i>> \in subs' \cup todo' => i < waiter[w].call \/ i = waiter[w].call
        BY <4>1 DEF NInv, CallsInv
      <4>3. QED
        BY <1>1, <3>1, <4>2
    <3>2. CASE x # w
      <4>1. <<x, i>> # CallOf(w) /\ waiter'[x] = waiter[x]
        BY <1>1, <1>2, <3>2
      <4>2. QED
        BY <4>1 DEF NInv, CallsInv
    <3>3. QED
      BY <3>1, <3>2
  <2>2. QED
    BY <2>1 DEF CallsInv
<1>4. InHand'
  BY DEF NInv, InHand
<1>5. EventsInv'
  BY <1>1, <1>2 DEF NInv, EventsInv, Deliverable
<1>6. QED
  BY <1>3, <1>4, <1>5

LEMMA StepNInv ==
  ASSUME NInv, [Next]_vars
  PROVE  NInv'
<1> DEFINE Kept == CallsInv' /\ InHand' /\ EventsInv'
<1>1. TInv /\ TInv' /\ TypeOK /\ CallsInv /\ InHand /\ EventsInv
  BY StepTInv DEF NInv, TInv
<1>2. ASSUME NEW m \in Messages, Publish(m)
      PROVE  Kept
  <2>1. /\ \A i \in 1..taken : published'[i] = published[i]
        /\ UNCHANGED <<taken, loop, todo, subs, inserting, waiter, since>>
    <3>1. m \in Message /\ published \in Seq(Message)
      BY <1>1, NamesAssumption DEF TypeOK
    <3>2. QED
      BY <1>1, <1>2, <3>1, TNumbers DEF Publish
  <2>2. todo # {} => taken \in 1..taken
    BY <1>1, TNumbers DEF TInv, LoopInv, TypeOK
  <2>3. InHand'
    BY <1>1, <2>1, <2>2 DEF InHand
  <2>4. \A w \in Waiter :
          /\ waiter[w].event # 0 => waiter[w].event \in 1..taken
          /\ CallOf(w)' = CallOf(w)
    <3>1. \A w \in Waiter : waiter[w].event \in Nat /\ waiter[w].event <= taken
      BY <1>1, CallsDiffer DEF EventsInv
    <3>2. \A w \in Waiter : CallOf(w)' = CallOf(w)
      BY <2>1 DEF CallOf
    <3>3. QED
      BY <1>1, <3>1, <3>2, TNumbers
  <2>5. EventsInv'
    BY <1>1, <2>1, <2>4 DEF EventsInv, Deliverable
  <2>6. CallsInv'
    BY <1>1, <2>1 DEF CallsInv
  <2>7. QED
    BY <2>3, <2>5, <2>6
<1>3. ASSUME \/ \E l \in Listener : On(l) \/ Unsubscribe(l)
             \/ Receive \/ ReceiveError \/ FatalError \/ UNCHANGED vars
             \/ \E l \in Listener : CallListener(l)
      PROVE  Kept
  <2>1. /\ UNCHANGED <<waiter, since, published>>
        /\ inserting' \subseteq inserting \cup Listener /\ subs' \subseteq subs
        /\ todo' \subseteq todo
    BY <1>3 DEF On, Unsubscribe, Receive, ReceiveError, FatalError, CallListener,
                Called, vars
  <2>2. taken' = taken \/ (taken' = taken + 1 /\ todo = {})
    BY <1>1, <1>3 DEF On, Unsubscribe, Receive, ReceiveError, FatalError,
                      CallListener, vars, TInv, LoopInv
  <2>3. QED
    BY <2>1, <2>2, WaitersStay
<1>4. ASSUME NEW l \in Listener, Insert(l) \/ InsertLost(l)
      PROVE  Kept
  <2>1. /\ UNCHANGED <<published, taken, todo, waiter>>
        /\ inserting' \subseteq inserting /\ subs' \subseteq subs \cup {l}
        /\ since' = since \/ since' = [since EXCEPT ![l] = Copied]
    BY <1>4 DEF Insert, InsertLost
  <2>2. \A cb \in Callback \ {l} : since'[cb] = since[cb]
    BY <1>1, <2>1 DEF TInv, SinceInv
  <2>3. \A w \in Waiter :
          /\ CallOf(w)' = CallOf(w)
          /\ \A n \in 1..MaxCalls :
               <<w, n>> # l /\ since'[<<w, n>>] = since[<<w, n>>]
          /\ CallOf(w) = <<w, waiter[w].call>>
    <3> SUFFICES ASSUME NEW w \in Waiter
                 PROVE  /\ CallOf(w)' = CallOf(w)
                        /\ \A n \in 1..MaxCalls :
                             <<w, n>> # l /\ since'[<<w, n>>] = since[<<w, n>>]
                        /\ CallOf(w) = <<w, waiter[w].call>>
      OBVIOUS
    <3>1. /\ CallOf(w) = <<w, waiter[w].call>>
          /\ \A n \in 1..MaxCalls :
               <<w, n>> \in Callback /\ <<w, n>> \notin Listener
      BY <1>1, CallsDiffer
    <3>2. CallOf(w)' = CallOf(w)
      BY <2>1 DEF CallOf
    <3>3. \A n \in 1..MaxCalls :
            <<w, n>> # l /\ since'[<<w, n>>] = since[<<w, n>>]
      BY <2>2, <3>1
    <3>4. QED
      BY <3>1, <3>2, <3>3
  <2>4. CallsInv' /\ InHand'
    BY <1>1, <2>1, <2>3 DEF CallsInv, InHand
  <2>5. EventsInv'
    BY <1>1, <2>1, <2>3 DEF EventsInv, Deliverable
  <2>6. QED
    BY <2>4, <2>5
<1>5. ASSUME NEW w \in Waiter, Insert(CallOf(w))
      PROVE  Kept
  <2> DEFINE n == waiter[w].call
             cb == CallOf(w)
  <2>1. /\ cb = <<w, n>> /\ n \in 1..MaxCalls /\ cb \notin Listener
        /\ waiter[w].pc = "subscribe" /\ waiter[w].event = 0 /\ cb \notin todo
    <3>1. cb \in inserting /\ cb \in Callback /\ cb \notin Listener /\ cb = <<w, n>>
      BY <1>1, <1>5, CallsDiffer DEF Insert, TypeOK
    <3>2. n \in 1..MaxCalls
      BY <3>1 DEF Callback
    <3>3. waiter[w].pc = "subscribe" /\ <<w, n>> \notin todo
      BY <1>1, <3>1, <3>2 DEF CallsInv, TypeOK, WaiterState
    <3>4. QED
      BY <1>1, <3>1, <3>2, <3>3 DEF EventsInv
  <2>2. /\ UNCHANGED <<published, taken, todo>>
        /\ inserting' = inserting \ {cb} /\ subs' = subs \cup {cb}
        /\ since' = [since EXCEPT ![cb] = Copied]
        /\ waiter' = [waiter EXCEPT ![w].pc = "select"]
    BY <1>5, <2>1 DEF Insert
  <2>3. /\ waiter'[w].pc \in {"idle", "select", "leave"}
        /\ waiter'[w].call = waiter[w].call
        /\ waiter'[w].event = waiter[w].event
        /\ \A x \in Waiter \ {w} : waiter'[x] = waiter[x]
    BY <1>1, <2>2, WaiterSteps
  <2>4. /\ \A x \in Callback \ {cb} : since'[x] = since[x]
        /\ \A x \in Waiter : CallOf(x)' = <<x, waiter[x].call>>
        /\ \A x \in Waiter, i \in 1..MaxCalls : <<x, i>> \in Callback
    BY <1>1, <2>2, <2>3, CallsDiffer DEF TInv, SinceInv, CallOf
  <2>5. CallsInv'
    <3>1. ASSUME NEW x \in Waiter, NEW i \in 1..MaxCalls
          PROVE  /\ <<x, i>> \in inserting' =>
                      i = waiter'[x].call /\ waiter'[x].pc = "subscribe"
                 /\ <<x, i>> \in subs' \cup todo' =>
                      \/ i < waiter'[x].call
                      \/ i = waiter'[x].call /\ waiter'[x].pc # "subscribe"
      <4>1. CASE x = w
        <5>1. <<x, i>> \notin inserting'
          BY <1>1, <2>1, <2>2, <4>1 DEF CallsInv
        <5>2. <<x, i>> \in subs' \cup todo' => i < n \/ i = n
          BY <1>1, <2>1, <2>2, <4>1 DEF CallsInv
        <5>3. QED
          BY <2>3, <4>1, <5>1, <5>2
      <4>2. CASE x # w
        <5>1. <<x, i>> # cb /\ waiter'[x] = waiter[x]
          BY <2>1, <2>3, <4>2
        <5>2. QED
          BY <1>1, <2>2, <5>1 DEF CallsInv
      <4>3. QED
        BY <4>1, <4>2
    <3>2. QED
      BY <3>1 DEF CallsInv
  <2>6. InHand'
    BY <1>1, <2>1, <2>2, <2>4 DEF InHand
  <2>7. ASSUME NEW x \in Waiter, x # w
        PROVE  /\ waiter'[x] = waiter[x] /\ CallOf(x)' = CallOf(x)
               /\ waiter[x].call \in 1..MaxCalls => since'[CallOf(x)] = since[CallOf(x)]
    BY <2>1, <2>3, <2>4, <2>7 DEF CallOf
  <2>8. EventsInv'
    BY <1>1, <2>1, <2>2, <2>3, <2>7 DEF EventsInv, Deliverable
  <2>9. QED
    BY <2>5, <2>6, <2>8
<1>6. ASSUME NEW w \in Waiter, InsertLost(CallOf(w)) \/ Cancelled(w) \/ Leave(w)
      PROVE  Kept
  <2>1. /\ UNCHANGED <<published, taken, todo, since>>
        /\ inserting' \subseteq inserting /\ subs' \subseteq subs \cup {CallOf(w)}
        /\ \E pc \in {"idle", "select", "leave"} :
             waiter' = [waiter EXCEPT ![w].pc = pc]
    BY <1>1, <1>6, CallsDiffer DEF InsertLost, Cancelled, Leave, CallOf
  <2>2. \A n \in 1..MaxCalls : <<w, n>> \notin inserting'
    <3>1. CASE InsertLost(CallOf(w))
      BY <1>1, <3>1 DEF InsertLost, CallsInv, CallOf
    <3>2. CASE Cancelled(w) \/ Leave(w)
      BY <1>1, <3>2 DEF Cancelled, Leave, CallsInv
    <3>3. QED
      BY <1>6, <3>1, <3>2
  <2>3. QED
    BY <2>1, <2>2, WaiterGoesOn
<1>7. ASSUME NEW w \in Waiter, CallNext(w)
      PROVE  Kept
  <2>1. /\ UNCHANGED <<published, taken, todo, subs, since>>
        /\ inserting' = inserting \cup {<<w, waiter[w].call + 1>>}
        /\ waiter'[w].pc = "subscribe" /\ waiter'[w].event = 0
        /\ waiter[w].pc = "idle" /\ waiter'[w].call = waiter[w].call + 1
        /\ \A x \in Waiter \ {w} : waiter'[x] = waiter[x]
    BY <1>1, <1>7, WaiterSteps DEF CallNext
  <2>2. \A x \in Waiter : waiter[x].call \in Nat
    BY BoundsAssumption, <1>1, CallsDiffer
  <2>3. CallsInv'
    <3>1. ASSUME NEW x \in Waiter, NEW i \in 1..MaxCalls
          PROVE  /\ <<x, i>> \in inserting' =>
                      i = waiter'[x].call /\ waiter'[x].pc = "subscribe"
                 /\ <<x, i>> \in subs' \cup todo' =>
                      \/ i < waiter'[x].call
                      \/ i = waiter'[x].call /\ waiter'[x].pc # "subscribe"
      <4>1. CASE x = w
        <5>1. <<x, i>> \in inserting' => i = waiter[w].call + 1
          BY <1>1, <2>1, <4>1 DEF CallsInv
        <5>2. <<x, i>> \in subs' \cup todo' => i <= waiter[w].call
          BY <1>1, <2>1, <2>2, <4>1 DEF CallsInv
        <5>3. QED
          BY <2>1, <2>2, <4>1, <5>1, <5>2
      <4>2. CASE x # w
        <5>1. <<x, i>> # <<w, waiter[w].call + 1>> /\ waiter'[x] = waiter[x]
          BY <2>1, <4>2
        <5>2. QED
          BY <1>1, <2>1, <5>1 DEF CallsInv
      <4>3. QED
        BY <4>1, <4>2
    <3>2. QED
      BY <3>1 DEF CallsInv
  <2>4. InHand'
    BY <1>1, <2>1 DEF InHand
  <2>5. \A x \in Waiter \ {w} : CallOf(x)' = CallOf(x)
    BY <2>1 DEF CallOf
  <2>6. EventsInv'
    BY <1>1, <2>1, <2>5, TNumbers DEF EventsInv, Deliverable
  <2>7. QED
    BY <2>3, <2>4, <2>6
<1>8. ASSUME Copy
      PROVE  Kept
  <2>1. /\ UNCHANGED <<published, taken, subs, inserting, waiter, since>>
        /\ loop = "copy" /\ todo = {}
        /\ todo' = {cb \in subs : EventName(cb) = published[taken].name}
    BY <1>1, <1>8 DEF Copy, TInv, LoopInv
  <2>2. \A w \in Waiter : CallOf(w)' = CallOf(w)
    BY <2>1 DEF CallOf
  <2>3. CallsInv'
    BY <1>1, <2>1 DEF CallsInv
  <2>4. ASSUME NEW w \in Waiter, NEW n \in 1..MaxCalls, <<w, n>> \in todo'
        PROVE  published[taken].name = WaitsFor[w] /\ since[<<w, n>>] < taken
    <3>1. <<w, n>> \in Callback /\ <<w, n>> \notin Listener
      BY <1>1, CallsDiffer
    <3>2. since[<<w, n>>] <= taken - 1 /\ since[<<w, n>>] \in Nat
      BY <1>1, <2>1, <3>1, TNumbers DEF TInv, SinceInv
    <3>3. QED
      BY <1>1, <2>1, <2>4, <3>1, <3>2, TNumbers DEF EventName
  <2>5. InHand'
    BY <2>1, <2>4 DEF InHand
  <2>6. EventsInv'
    BY <1>1, <2>1, <2>2 DEF EventsInv, Deliverable
  <2>7. QED
    BY <2>3, <2>5, <2>6
<1>9. ASSUME NEW w \in Waiter, Send(w)
      PROVE  Kept
  <2>1. /\ UNCHANGED <<published, taken, subs, inserting, since>>
        /\ loop = "call" /\ CallOf(w) \in todo /\ todo' \subseteq todo
        /\ waiter[w].pc = "select"
        /\ waiter'[w].pc = "leave" /\ waiter'[w].event = taken
        /\ waiter'[w].call = waiter[w].call
        /\ \A x \in Waiter \ {w} : waiter'[x] = waiter[x]
    BY <1>1, <1>9, WaiterSteps DEF Send, Called
  <2>2. waiter[w].call \in 1..MaxCalls /\ CallOf(w) = <<w, waiter[w].call>>
    <3>1. CallOf(w) \in Callback \ Listener
      BY <1>1, <2>1, CallsDiffer DEF TypeOK
    <3>2. QED
      BY <3>1 DEF Callback, CallOf
  <2>3. \A x \in Waiter : CallOf(x)' = CallOf(x)
    BY <2>1 DEF CallOf
  <2>4. CallsInv'
    BY <1>1, <2>1 DEF CallsInv
  <2>5. InHand'
    BY <1>1, <2>1 DEF InHand
  <2>6. Deliverable(taken, WaitsFor[w]) /\ since[CallOf(w)] < taken
    BY <1>1, <2>1, <2>2 DEF InHand, TInv, LoopInv, Deliverable
  <2>7. EventsInv'
    BY <1>1, <2>1, <2>2, <2>3, <2>6, TNumbers DEF EventsInv, Deliverable
  <2>8. QED
    BY <2>4, <2>5, <2>7
<1> HIDE DEF Kept
<1>10. Kept
  <2>1. CASE (\E m \in Messages : Publish(m)) \/ LoopStep \/ ReceiveError \/ FatalError
             \/ UNCHANGED vars
    BY <1>2, <1>3, <1>8, <1>9, <2>1 DEF LoopStep
  <2>2. CASE \E l \in Listener : On(l) \/ Insert(l) \/ InsertLost(l) \/ Unsubscribe(l)
    BY <1>3, <1>4, <2>2
  <2>3. CASE \E w \in Waiter : CallNext(w) \/ WaiterStep(w)
    BY <1>5, <1>6, <1>7, <2>3 DEF WaiterStep
  <2>4. QED
    BY <2>1, <2>2, <2>3 DEF Next
<1>11. QED
  BY <1>1, <1>10 DEF Kept, NInv

LEMMA InitNInv == Init => NInv
<1> SUFFICES ASSUME Init PROVE NInv
  OBVIOUS
<1>1. \A w \in Waiter : waiter[w] = [pc |-> "idle", call |-> 0, event |-> 0]
  BY DEF Init
<1>2. QED
  BY <1>1, InitTInv DEF Init, NInv, CallsInv, InHand, EventsInv

\* Whatever a departed call has left behind, the event Next returns is of the
\* name asked for and was copied after this very call had registered.
THEOREM NextIsItsOwn == Spec => []NextReturnsItsEvent
<1>1. NInv /\ [Next]_vars => NInv'
  BY StepNInv
<1>2. NInv => NextReturnsItsEvent
  <2> SUFFICES ASSUME NInv, NEW w \in Waiter, waiter[w].event # 0
               PROVE  /\ Deliverable(waiter[w].event, WaitsFor[w])
                      /\ waiter[w].event > since[CallOf(w)]
    BY DEF NextReturnsItsEvent
  <2>1. since[CallOf(w)] < waiter[w].event
    BY DEF NInv, EventsInv
  <2>2. QED
    BY <2>1 DEF NInv, EventsInv
<1>3. QED
  BY InitNInv, <1>1, <1>2, PTL DEF Spec
=============================================================================
