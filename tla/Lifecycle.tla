------------------------------ MODULE Lifecycle ------------------------------
(***************************************************************************)
(* How the process runs and stops: main (cmd/glint/main.go), the goroutines*)
(* of its errgroup (collectors, pruner, alerter, HTTP server) and the      *)
(* context whose cancellation stops them.                                  *)
(*                                                                         *)
(* main registers for signals, starts everything, waits for a signal, then *)
(* for all goroutines, closes the store and returns.  A goroutine that     *)
(* returns an error cancels the context too.  Each loop selects between    *)
(* that context and its ticker, so a tick that is due may win over the     *)
(* cancellation; calls made with a cancelled context fail at once.         *)
(***************************************************************************)
EXTENDS Integers, FiniteSetsExt

CONSTANTS
  Pves,      \* PVE collectors
  Pbss,      \* PBS collectors
  Named,     \* those of Pbss whose datastores are configured by name
  Sshs,      \* temperature collectors: an SSH command nothing bounds
  Workers,   \* pruner, alerter: work that ends
  Requests,  \* HTTP requests that clients may send
  PoolSize,  \* worker_pool_size
  MaxNodes   \* bound: nodes of an instance

ASSUME LifecycleAssumption ==
  /\ Pves \cap (Pbss \cup Sshs \cup Workers) = {}
  /\ Pbss \cap (Sshs \cup Workers) = {}
  /\ Sshs \cap Workers = {}
  /\ Named \subseteq Pbss
  /\ PoolSize \in Nat \ {0} /\ MaxNodes \in Nat

Loops == Pves \cup Pbss \cup Sshs \cup Workers

VARIABLES
  main,       \* where main is, or how the process ended
  signalled,  \* sigCtx is done
  cancelled,  \* the errgroup's ctx is done
  server,     \* what Server.Run does
  reqs,       \* requests whose handlers run
  loop,       \* [Loops -> what the goroutine does]
  left,       \* [Pves -> nodes this poll has yet to submit]
  running,    \* [Pves -> tasks of this poll that are not done]
  stray       \* [Pves -> tasks of earlier polls that are not done]

poll == <<left, running, stray>>
vars == <<main, signalled, cancelled, server, reqs, loop, poll>>

TypeOK ==
  /\ main \in {"starting", "waiting", "draining", "closing", "exited", "killed"}
  /\ signalled \in BOOLEAN /\ cancelled \in BOOLEAN
  /\ server \in {"listening", "shutting", "stopped", "failed"}
  /\ reqs \subseteq Requests
  /\ loop \in [Loops -> {"idle", "busy", "submit", "write", "blank", "stopped"}]
  /\ left \in [Pves -> 0..MaxNodes]
  /\ running \in [Pves -> 0..MaxNodes]
  /\ stray \in [Pves -> 0..MaxNodes]

Ended == main \in {"exited", "killed"}
Started == main \notin {"starting", "exited", "killed"}
AllStopped == \A x \in Loops : loop[x] = "stopped"

\* Collectors collect and the pruner prunes at once; for the alerter, whose
\* first evaluation waits for a tick, the first "busy" is void.
Init ==
  /\ main = "starting"
  /\ signalled = FALSE /\ cancelled = FALSE
  /\ server = "listening"
  /\ reqs = {}
  /\ loop = [x \in Loops |-> "busy"]
  /\ left = [c \in Pves |-> 0]
  /\ running = [c \in Pves |-> 0]
  /\ stray = [c \in Pves |-> 0]

-----------------------------------------------------------------------------
(* main                                                                    *)

\* Everything is started; main blocks on sigCtx.
Start ==
  /\ main = "starting"
  /\ main' = "waiting"
  /\ UNCHANGED <<signalled, cancelled, server, reqs, loop, poll>>

\* SIGINT or SIGTERM: fatal before NotifyContext and after stop; in between
\* the first one ends sigCtx and the others are swallowed.
Signal ==
  \/ /\ main \in {"starting", "draining", "closing"}
     /\ main' = "killed"
     /\ UNCHANGED <<signalled, cancelled, server, reqs, loop, poll>>
  \/ /\ main = "waiting" /\ ~signalled
     /\ signalled' = TRUE /\ cancelled' = TRUE
     /\ UNCHANGED <<main, server, reqs, loop, poll>>

\* <-sigCtx.Done(), then stop().
Wake ==
  /\ main = "waiting" /\ signalled
  /\ main' = "draining"
  /\ UNCHANGED <<signalled, cancelled, server, reqs, loop, poll>>

\* g.Wait() returns; an error is only logged.
Wait ==
  /\ main = "draining"
  /\ AllStopped /\ server \in {"stopped", "failed"}
  /\ main' = "closing"
  /\ UNCHANGED <<signalled, cancelled, server, reqs, loop, poll>>

\* The deferred st.Close(), and the end of the process.
Close ==
  /\ main = "closing"
  /\ main' = "exited"
  /\ UNCHANGED <<signalled, cancelled, server, reqs, loop, poll>>

-----------------------------------------------------------------------------
(* The HTTP server                                                         *)

\* Mutant: an errgroup without a context.
ServerFailsAlone ==
  /\ Started /\ server = "listening"
  /\ server' = "failed"
  /\ UNCHANGED <<main, signalled, cancelled, reqs, loop, poll>>

\* ListenAndServe returns an error, Run returns it, the group cancels ctx.
ServerFails ==
  /\ Started /\ server = "listening"
  /\ server' = "failed"
  /\ cancelled' = TRUE
  /\ UNCHANGED <<main, signalled, reqs, loop, poll>>

\* Shutdown: no new requests.
Shutdown ==
  /\ Started /\ server = "listening" /\ cancelled
  /\ server' = "shutting"
  /\ UNCHANGED <<main, signalled, cancelled, reqs, loop, poll>>

\* Mutant: a Shutdown without a deadline.
ShutdownWaits ==
  /\ Started /\ server = "shutting" /\ reqs = {}
  /\ server' = "stopped"
  /\ UNCHANGED <<main, signalled, cancelled, reqs, loop, poll>>

\* Shutdown returns when no request is left, or after 5 s.
ShutdownReturns ==
  /\ Started /\ server = "shutting"
  /\ server' = "stopped"
  /\ UNCHANGED <<main, signalled, cancelled, reqs, loop, poll>>

Arrive(r) ==
  /\ Started /\ server = "listening"
  /\ r \notin reqs
  /\ reqs' = reqs \cup {r}
  /\ UNCHANGED <<main, signalled, cancelled, server, loop, poll>>

Answer(r) ==
  /\ Started
  /\ r \in reqs
  /\ reqs' = reqs \ {r}
  /\ UNCHANGED <<main, signalled, cancelled, server, loop, poll>>

-----------------------------------------------------------------------------
(* The loops                                                               *)

GoTo(x, s) ==
  /\ loop' = [loop EXCEPT ![x] = s]
  /\ UNCHANGED <<main, signalled, cancelled, server, reqs>>

\* The select takes a tick, cancelled or not.
TakeTick(x) == Started /\ loop[x] = "idle" /\ GoTo(x, "busy") /\ UNCHANGED poll

\* The select takes the cancellation.
Stop(x) ==
  /\ Started /\ loop[x] = "idle" /\ cancelled
  /\ GoTo(x, "stopped")
  /\ UNCHANGED poll

\* A worker, a temperature collector, is through with its work.
Finish(x) ==
  /\ Started /\ x \in Sshs \cup Workers /\ loop[x] = "busy"
  /\ GoTo(x, "idle")
  /\ UNCHANGED poll

\* Mutant: a request without the context.
DiscoverUncancelled(c) ==
  /\ Started /\ loop[c] = "busy"
  /\ GoTo(c, "submit")
  /\ \E n \in 0..MaxNodes : left' = [left EXCEPT ![c] = n]
  /\ UNCHANGED <<running, stray>>

\* discoverNodes answers.
Discover(c) ==
  /\ Started /\ loop[c] = "busy" /\ ~cancelled
  /\ GoTo(c, "submit")
  /\ \E n \in 0..MaxNodes : left' = [left EXCEPT ![c] = n]
  /\ UNCHANGED <<running, stray>>

\* It fails, as it must when the context is cancelled.
DiscoverFails(c) ==
  /\ Started /\ loop[c] = "busy"
  /\ GoTo(c, "idle")
  /\ UNCHANGED poll

\* Slots of the pool in use.
InUse == MapThenSumSet(LAMBDA c : running[c] + stray[c], Pves)

\* Mutant: the loop over the nodes goes one too far.
SubmitOneMore(c) ==
  /\ Started /\ loop[c] = "submit" /\ left[c] >= 0
  /\ InUse < PoolSize
  /\ left' = [left EXCEPT ![c] = @ - 1]
  /\ running' = [running EXCEPT ![c] = @ + 1]
  /\ UNCHANGED <<main, signalled, cancelled, server, reqs, loop, stray>>

\* Submit's select takes a free slot, cancelled or not.
Submit(c) ==
  /\ Started /\ loop[c] = "submit" /\ left[c] > 0
  /\ InUse < PoolSize
  /\ left' = [left EXCEPT ![c] = @ - 1]
  /\ running' = [running EXCEPT ![c] = @ + 1]
  /\ UNCHANGED <<main, signalled, cancelled, server, reqs, loop, stray>>

\* Submit's select takes the cancellation: Collect returns without waiting
\* for the tasks it has submitted.
SubmitCancelled(c) ==
  /\ Started /\ loop[c] = "submit" /\ left[c] > 0 /\ cancelled
  /\ GoTo(c, "idle")
  /\ left' = [left EXCEPT ![c] = 0]
  /\ running' = [running EXCEPT ![c] = 0]
  /\ stray' = [stray EXCEPT ![c] = @ + running[c]]

\* A task returns, in whatever way: its calls end with the context.
TaskDone(c) ==
  /\ Started
  /\ \/ /\ running[c] > 0
        /\ running' = [running EXCEPT ![c] = @ - 1]
        /\ UNCHANGED stray
     \/ /\ stray[c] > 0
        /\ stray' = [stray EXCEPT ![c] = @ - 1]
        /\ UNCHANGED running
  /\ UNCHANGED <<main, signalled, cancelled, server, reqs, loop, left>>

\* wg.Wait() returns: cache and store are written, with no look at ctx.
AllDone(c) ==
  /\ Started /\ loop[c] = "submit" /\ left[c] = 0 /\ running[c] = 0
  /\ GoTo(c, "write")
  /\ UNCHANGED poll

Written(c) ==
  /\ Started /\ loop[c] = "write"
  /\ GoTo(c, "idle")
  /\ UNCHANGED poll

\* Mutant: the datastores are asked for with a context of their own.
UsageUncancelled(c) ==
  /\ Started /\ loop[c] = "busy"
  /\ GoTo(c, "write")
  /\ UNCHANGED poll

\* The PBS server answers for its datastores, or for one of those configured.
\* Calls that fail from here on are logged; the poll goes on and publishes.
Usage(c) ==
  /\ Started /\ loop[c] = "busy" /\ ~cancelled
  /\ GoTo(c, "write")
  /\ UNCHANGED poll

\* It answers nothing, as it must when the context is cancelled: a collector
\* that has to list the datastores gives up, one that knows their names goes
\* on without any and publishes that there are none.
UsageFails(c) ==
  /\ Started /\ loop[c] = "busy"
  /\ \/ c \notin Named /\ GoTo(c, "idle")
     \/ c \in Named /\ GoTo(c, "blank")
  /\ UNCHANGED poll

\* Cache and store are written, with no look at ctx.
Publish(c) ==
  /\ Started /\ loop[c] \in {"write", "blank"}
  /\ GoTo(c, "idle")
  /\ UNCHANGED poll

-----------------------------------------------------------------------------
Collect(c) ==
  \/ Discover(c) \/ DiscoverFails(c)
  \/ Submit(c) \/ SubmitCancelled(c)
  \/ AllDone(c) \/ Written(c)

CollectPBS(c) == Usage(c) \/ UsageFails(c) \/ Publish(c)

Next ==
  \/ Start \/ Signal \/ Wake \/ Wait \/ Close
  \/ ServerFails \/ Shutdown \/ ShutdownReturns
  \/ \E r \in Requests : Arrive(r) \/ Answer(r)
  \/ \E x \in Loops : TakeTick(x) \/ Stop(x)
  \/ \E x \in Sshs \cup Workers : Finish(x)
  \/ \E c \in Pves : Collect(c) \/ TaskDone(c)
  \/ \E c \in Pbss : CollectPBS(c)

Spec == Init /\ [][Next]_vars

\* Goroutines run; a select does not pass over a ready case for ever; HTTP
\* calls, store calls and Shutdown are bounded by timeouts.  An SSH command
\* is not (Finish of Sshs), nor is anyone made to send signals or requests.
Fairness ==
  /\ WF_vars(Start) /\ WF_vars(Wake) /\ WF_vars(Wait) /\ WF_vars(Close)
  /\ WF_vars(Shutdown) /\ WF_vars(ShutdownReturns)
  /\ \A x \in Loops : SF_vars(Stop(x))
  /\ \A x \in Workers : WF_vars(Finish(x))
  /\ \A c \in Pves : WF_vars(Collect(c)) /\ WF_vars(TaskDone(c))
  /\ \A c \in Pbss : WF_vars(CollectPBS(c))

FairSpec == Spec /\ Fairness
-----------------------------------------------------------------------------
\* A poll submits no task while tasks of an earlier poll still run, although a
\* cancelled poll leaves its tasks behind and a tick may win over the
\* cancellation afterwards (Collect's early return, Run, apiGet).
PollsDoNotMix ==
  [][\A c \in Pves : running'[c] > running[c] => stray[c] = 0]_vars

\* The process keeps the promise of ShutdownPromise: of the polls that a tick
\* winning over the cancellation starts, only those of a PBS collector with
\* configured datastores are published, and what they publish is empty; no
\* goroutine, failed server included, leaves or stays out of turn (main,
\* Server.Run, Run, both Collects).
Promise == INSTANCE ShutdownPromise WITH
  Collectors <- Pves \cup Pbss,
  Heedless <- Named,
  phase <- IF main = "killed" THEN "killed" ELSE IF main = "exited" THEN "closed"
           ELSE IF cancelled THEN "stopping" ELSE "up",
  alive <- {x \in Loops : loop[x] # "stopped"},
  serving <- server \in {"listening", "shutting"},
  polls <- {c \in Pves \cup Pbss : loop[c] \in {"submit", "write", "blank"}},
  blank <- {c \in Pbss : loop[c] = "blank"}
KeepsPromise == Promise!Spec

\* A signal ends the process, whatever polls, alerts and requests are going on
\* (main, Server.Run, every Run).
ShutdownCompletes == signalled ~> Ended

\* A server that cannot serve stops everything else (errgroup.WithContext).
FailureStopsAll == (server = "failed") ~> (AllStopped \/ Ended)

\* docs/deployment.md on Restart=on-failure: "If Glint crashes, wait 5 seconds
\* and restart it automatically".  What has failed must end to be restarted.
FailureEndsProcess == (server = "failed") ~> Ended
=============================================================================
