--------------------------- MODULE ShutdownPromise ---------------------------
(***************************************************************************)
(* What the process promises of its end, whatever its loops, pool, server  *)
(* and requests are doing: nothing leaves before the context is cancelled, *)
(* nothing that has left comes back, no poll is cut off by the loop that   *)
(* runs it, and the store is closed when every loop and the server have    *)
(* returned; handlers that Shutdown has not waited for may then still be   *)
(* reading it.  Once the context is cancelled no poll begins that will     *)
(* publish what it has learnt; a heedless collector may still begin one    *)
(* that learns nothing, and publish that.  A second signal spoils it all.  *)
(***************************************************************************)
CONSTANTS
  Loops,       \* goroutines that work with the store
  Collectors,  \* those that poll
  Heedless     \* collectors that go on when nobody answers them

VARIABLES
  phase,    \* "up", "stopping", "closed" or "killed"
  alive,    \* loops that have not returned
  serving,  \* the server has not returned
  polls,    \* collectors with a poll that will be published
  blank     \* those of polls that have learnt nothing

vars == <<phase, alive, serving, polls, blank>>

Init == phase = "up" /\ alive = Loops /\ serving = TRUE /\ polls = {} /\ blank = {}

Interrupt ==
  /\ phase = "up" /\ phase' = "stopping"
  /\ UNCHANGED <<alive, serving, polls, blank>>

\* What fails takes the rest with it.
Fail ==
  /\ phase = "up" /\ phase' = "stopping"
  /\ serving' = FALSE
  /\ UNCHANGED <<alive, polls, blank>>

StopServing ==
  /\ phase = "stopping"
  /\ serving' = FALSE
  /\ UNCHANGED <<phase, alive, polls, blank>>

Leave(x) ==
  /\ phase = "stopping"
  /\ x \notin polls
  /\ alive' = alive \ {x}
  /\ UNCHANGED <<phase, serving, polls, blank>>

BeginPoll(c) ==
  /\ phase = "up"
  /\ c \in alive
  /\ polls' = polls \cup {c}
  /\ UNCHANGED <<phase, alive, serving, blank>>

BeginBlank(c) ==
  /\ phase \in {"up", "stopping"}
  /\ c \in Heedless \cap alive
  /\ polls' = polls \cup {c} /\ blank' = blank \cup {c}
  /\ UNCHANGED <<phase, alive, serving>>

EndPoll(c) ==
  /\ phase \in {"up", "stopping"}
  /\ polls' = polls \ {c} /\ blank' = blank \ {c}
  /\ UNCHANGED <<phase, alive, serving>>

Close ==
  /\ phase = "stopping" /\ alive = {} /\ ~serving
  /\ phase' = "closed"
  /\ UNCHANGED <<alive, serving, polls, blank>>

Kill ==
  /\ phase \in {"up", "stopping"} /\ phase' = "killed"
  /\ UNCHANGED <<alive, serving, polls, blank>>

Next ==
  \/ Interrupt \/ Fail \/ StopServing \/ Close \/ Kill
  \/ \E x \in Loops : Leave(x)
  \/ \E c \in Collectors : BeginPoll(c) \/ BeginBlank(c) \/ EndPoll(c)

Spec == Init /\ [][Next]_vars
=============================================================================
