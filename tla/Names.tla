------------------------------- MODULE Names -------------------------------
(***************************************************************************)
(* What a resolver.Backend promises about one name, whichever backend it   *)
(* is.  Adds of several callers overlap.  An Add that returns has taken    *)
(* effect, or another one has while it was open; one that fails has not.   *)
(* Only a backend that replaces a name in steps lets it vanish meanwhile,  *)
(* and only a crash or an ignored error makes it vanish for longer.        *)
(***************************************************************************)
EXTENDS Naturals

CONSTANTS
  Client,     \* callers of Add
  Value,      \* what a name may be given
  NoValue,    \* what a name that is not there resolves to
  MaxSilent   \* bound: errors an Add ignores

VARIABLES
  kind,    \* "memory", "bolt" or "ipfs"
  name,    \* the value the name resolves to
  past,    \* the values it has resolved to
  open,    \* caller -> the value of its Add, NoValue when it is in none
  passed,  \* callers whose Add may return: one took effect since it began
  settled, \* callers whose Add will not take effect any more
  silent   \* errors ignored so far

nvars == <<kind, name, past, open, passed, settled, silent>>

Init ==
  /\ kind \in {"memory", "bolt", "ipfs"}
  /\ name = NoValue
  /\ past = {}
  /\ open = [c \in Client |-> NoValue]
  /\ passed = {} /\ settled = {}
  /\ silent = 0

Unsettled(c) == open[c] # NoValue /\ c \notin settled

Begin(c) ==
  /\ open[c] = NoValue
  /\ \E v \in Value : open' = [open EXCEPT ![c] = v]
  /\ UNCHANGED <<kind, name, past, passed, settled, silent>>

\* One effect is enough for every Add that is open.
TakeEffect(c) ==
  /\ Unsettled(c)
  /\ name' = open[c]
  /\ past' = past \cup {open[c]}
  /\ passed' = {d \in Client : open[d] # NoValue}
  /\ settled' = settled \cup {c}
  /\ UNCHANGED <<kind, open, silent>>

\* An Add that came too late leaves it at the effect of another.
Settle(c) ==
  /\ kind = "ipfs"
  /\ Unsettled(c) /\ c \in passed
  /\ settled' = settled \cup {c}
  /\ UNCHANGED <<kind, name, past, open, passed, silent>>

Withdraw(c) ==
  /\ kind = "ipfs"
  /\ Unsettled(c)
  /\ name' = NoValue
  /\ UNCHANGED <<kind, past, open, passed, settled, silent>>

\* An operation fails and the Add will not say so.
Ignore(c) ==
  /\ kind = "ipfs"
  /\ Unsettled(c)
  /\ silent < MaxSilent
  /\ silent' = silent + 1
  /\ passed' = passed \cup {c}
  /\ settled' \in {settled, settled \cup {c}}
  /\ UNCHANGED <<kind, name, past, open>>

Close(c) ==
  /\ open' = [open EXCEPT ![c] = NoValue]
  /\ passed' = passed \ {c} /\ settled' = settled \ {c}
  /\ UNCHANGED <<kind, name, past, silent>>

Return(c) == c \in passed \cap settled /\ Close(c)

Fail(c) == Unsettled(c) /\ Close(c)

\* What the name may resolve to when the process is back.
AfterCrash ==
  CASE kind = "memory" -> {NoValue}
    [] kind = "bolt" -> {name}
    [] kind = "ipfs" -> past \cup {NoValue}

Crash ==
  /\ name' \in AfterCrash
  /\ open' = [c \in Client |-> NoValue]
  /\ passed' = {} /\ settled' = {}
  /\ UNCHANGED <<kind, past, silent>>

Next ==
  \/ \E c \in Client :
       \/ Begin(c) \/ TakeEffect(c) \/ Settle(c) \/ Withdraw(c) \/ Ignore(c)
       \/ Return(c) \/ Fail(c)
  \/ Crash

Spec == Init /\ [][Next]_nvars
=============================================================================
