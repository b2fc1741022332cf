--------------------------- MODULE LifecycleProofs ---------------------------
(***************************************************************************)
(* What Lifecycle's specification guarantees whatever the collectors, the  *)
(* pool and the requests are: the store outlives the loops, and the tasks a*)
(* cancelled poll leaves behind meet no task of a later one.               *)
(***************************************************************************)
EXTENDS Lifecycle, TLAPS

\* The store is closed under no loop's feet: when main comes to close it, no
\* collector, pruner or alerter is at work any more (main's g.Wait).  Handlers
\* that Shutdown has not waited for may be.
StoreClosedLast ==
  main \in {"closing", "exited"} => AllStopped /\ server \in {"stopped", "failed"}

\* What a collector is doing bounds which tasks there are.
Polls(c) ==
  /\ left[c] + running[c] + stray[c] <= MaxNodes
  /\ loop[c] # "submit" => left[c] = 0 /\ running[c] = 0
  /\ loop[c] = "submit" => stray[c] = 0
  /\ stray[c] > 0 => cancelled

IInv ==
  /\ TypeOK
  /\ \A c \in Pves : Polls(c)
  /\ StoreClosedLast

LEMMA InitInv == Init => IInv
<1> SUFFICES ASSUME Init PROVE IInv
  OBVIOUS
<1>1. TypeOK
  <2>1. loop \in [Loops -> {"idle", "busy", "submit", "write", "blank", "stopped"}]
    BY DEF Init
  <2>2. 0 \in 0..MaxNodes
    BY LifecycleAssumption
  <2> QED BY <2>1, <2>2 DEF Init, TypeOK
<1>2. ASSUME NEW c \in Pves PROVE Polls(c)
  <2>1. c \in Loops
    BY DEF Loops
  <2> QED BY <2>1, LifecycleAssumption DEF Init, Polls
<1>3. StoreClosedLast
  BY DEF Init, StoreClosedLast
<1> QED BY <1>1, <1>2, <1>3 DEF IInv

\* No step of the collector c disturbs what holds of another one.
LEMMA OtherPolls ==
  ASSUME IInv, NEW c \in Pves, NEW d \in Pves, c # d,
         loop'[d] = loop[d], left'[d] = left[d], running'[d] = running[d],
         stray'[d] = stray[d], cancelled' = cancelled
  PROVE  Polls(d)'
BY DEF IInv, Polls

\* Collect and its tasks keep the invariant.
LEMMA CollectInv ==
  ASSUME IInv, NEW c \in Pves, Collect(c) \/ TaskDone(c)
  PROVE  IInv'
<1> USE LifecycleAssumption
<1>0. TypeOK /\ Polls(c) /\ c \in Loops
  BY DEF IInv, Loops
<1>1. TypeOK' /\ Polls(c)'
  <2>1. CASE Discover(c)
    BY <1>0, <2>1 DEF TypeOK, Polls, Discover, GoTo, Loops
  <2>2. CASE DiscoverFails(c)
    BY <1>0, <2>2 DEF TypeOK, Polls, DiscoverFails, GoTo, Loops, poll
  <2>3. CASE Submit(c)
    BY <1>0, <2>3 DEF TypeOK, Polls, Submit
  <2>4. CASE SubmitCancelled(c)
    BY <1>0, <2>4 DEF TypeOK, Polls, SubmitCancelled, GoTo, Loops
  <2>5. CASE AllDone(c)
    BY <1>0, <2>5 DEF TypeOK, Polls, AllDone, GoTo, Loops, poll
  <2>6. CASE Written(c)
    BY <1>0, <2>6 DEF TypeOK, Polls, Written, GoTo, Loops, poll
  <2>7. CASE TaskDone(c)
    BY <1>0, <2>7 DEF TypeOK, Polls, TaskDone
  <2> QED BY <2>1, <2>2, <2>3, <2>4, <2>5, <2>6, <2>7 DEF Collect
<1>2. ASSUME NEW d \in Pves, d # c PROVE Polls(d)'
  <2>1. /\ loop'[d] = loop[d] /\ left'[d] = left[d] /\ running'[d] = running[d]
        /\ stray'[d] = stray[d] /\ cancelled' = cancelled
    BY <1>0, <1>2 DEF TypeOK, Collect, Discover, DiscoverFails, Submit, SubmitCancelled,
       AllDone, Written, TaskDone, GoTo, Loops, poll
  <2> QED BY <2>1, <1>2, OtherPolls
<1>3. StoreClosedLast'
  <2>1. loop[c] # "stopped" \/ loop' = loop
    BY DEF Collect, TaskDone, Discover, DiscoverFails, Submit, SubmitCancelled, AllDone, Written
  <2>2. main' = main /\ server' = server
    BY DEF Collect, TaskDone, Discover, DiscoverFails, Submit, SubmitCancelled, AllDone,
           Written, GoTo
  <2> QED BY <1>0, <2>1, <2>2 DEF IInv, StoreClosedLast, AllStopped
<1> QED BY <1>1, <1>2, <1>3 DEF IInv

\* So do a loop's other steps, and the polls of PBS.
LEMMA LoopInv ==
  ASSUME IInv, NEW x \in Loops,
         \/ TakeTick(x) \/ Stop(x) \/ (x \in Sshs \cup Workers /\ Finish(x))
         \/ (x \in Pbss /\ CollectPBS(x))
  PROVE  IInv'
<1>1. /\ \E s \in {"idle", "busy", "write", "blank", "stopped"} : loop' = [loop EXCEPT ![x] = s]
      /\ loop[x] # "stopped"
      /\ x \in Pves => loop[x] = "idle" /\ loop'[x] # "submit"
      /\ Started
      /\ UNCHANGED <<main, signalled, cancelled, server, reqs, poll>>
  <2>1. loop \in [Loops -> {"idle", "busy", "submit", "write", "blank", "stopped"}]
    BY DEF IInv, TypeOK
  <2>2. CASE TakeTick(x) \/ Stop(x)
    BY <2>1, <2>2 DEF TakeTick, Stop, GoTo
  <2>3. CASE x \in Sshs \cup Workers /\ Finish(x)
    BY <2>1, <2>3, LifecycleAssumption DEF Finish, GoTo
  <2>4. CASE x \in Pbss /\ CollectPBS(x)
    BY <2>1, <2>4, LifecycleAssumption DEF CollectPBS, Usage, UsageFails, Publish, GoTo
  <2> QED BY <2>2, <2>3, <2>4
<1>2. TypeOK'
  BY <1>1 DEF IInv, TypeOK, poll
<1>3. \A c \in Pves : Polls(c)'
  BY <1>1 DEF IInv, TypeOK, Polls, poll, Loops
<1>4. StoreClosedLast'
  BY <1>1 DEF IInv, StoreClosedLast, AllStopped, Started
<1> QED BY <1>2, <1>3, <1>4 DEF IInv

LEMMA StepInv == IInv /\ [Next]_vars => IInv'
<1> SUFFICES ASSUME IInv, [Next]_vars PROVE IInv'
  OBVIOUS
<1>1. CASE Start \/ Signal \/ Wake \/ Wait \/ Close
  BY <1>1 DEF IInv, TypeOK, Polls, StoreClosedLast, AllStopped, Start, Signal, Wake, Wait,
              Close, poll
<1>2. CASE ServerFails \/ Shutdown \/ ShutdownReturns
  BY <1>2 DEF IInv, TypeOK, Polls, StoreClosedLast, AllStopped, ServerFails, Shutdown,
              ShutdownReturns, Started, poll
<1>3. CASE \E r \in Requests : Arrive(r) \/ Answer(r)
  BY <1>3 DEF IInv, TypeOK, Polls, StoreClosedLast, AllStopped, Arrive, Answer, poll
<1>4. CASE \E x \in Loops : TakeTick(x) \/ Stop(x)
  BY <1>4, LoopInv
<1>5. CASE \E x \in Sshs \cup Workers : Finish(x)
  BY <1>5, LoopInv DEF Loops
<1>6. CASE \E c \in Pves : Collect(c) \/ TaskDone(c)
  BY <1>6, CollectInv
<1>7. CASE \E c \in Pbss : CollectPBS(c)
  BY <1>7, LoopInv DEF Loops
<1>8. CASE UNCHANGED vars
  BY <1>8 DEF vars, poll, IInv, TypeOK, Polls, StoreClosedLast, AllStopped
<1> QED BY <1>1, <1>2, <1>3, <1>4, <1>5, <1>6, <1>7, <1>8 DEF Next

LEMMA Invariance == Spec => []IInv
BY InitInv, StepInv, PTL DEF Spec

\* Every variable keeps its type, the counts of a collector's tasks their
\* bound (Collect).
THEOREM TypeCorrect == Spec => []TypeOK
<1>1. IInv => TypeOK
  BY DEF IInv
<1> QED BY <1>1, Invariance, PTL

\* main closes the store when every loop and the server have returned
\* (main's g.Wait).
THEOREM ClosedLast == Spec => []StoreClosedLast
<1>1. IInv => StoreClosedLast
  BY DEF IInv
<1> QED BY <1>1, Invariance, PTL

\* No task is submitted beside a task that an earlier poll left behind
\* (Collect's early return).
THEOREM NoMixing == Spec => PollsDoNotMix
<1>1. IInv /\ [Next]_vars =>
        [\A c \in Pves : running'[c] > running[c] => stray[c] = 0]_vars
  <2> SUFFICES ASSUME IInv, [Next]_vars, NEW c \in Pves, running'[c] > running[c]
               PROVE  stray[c] = 0
    OBVIOUS
  <2>1. running # running'
    <3>1. running[c] \in Int
      BY DEF IInv, TypeOK
    <3> QED BY <3>1
  <2>2. PICK d \in Pves : Collect(d) \/ TaskDone(d)
    BY <2>1 DEF Next, vars, poll, Start, Signal, Wake, Wait, Close, ServerFails, Shutdown,
                ShutdownReturns, Arrive, Answer, TakeTick, Stop, Finish, CollectPBS, Usage,
                UsageFails, Publish
  <2>3. c = d /\ Submit(d)
    BY <2>1, <2>2 DEF IInv, TypeOK, Collect, Discover, DiscoverFails, Submit, SubmitCancelled,
                AllDone, Written, TaskDone, poll
  <2> QED BY <2>3 DEF IInv, Polls, Submit
<1> QED BY <1>1, Invariance, PTL DEF Spec, PollsDoNotMix
-----------------------------------------------------------------------------
(* The process keeps the promise of ShutdownPromise.                       *)

\* What has begun to end has been cancelled.
Ordered ==
  /\ signalled => cancelled
  /\ main \in {"draining", "closing", "exited"} => signalled
  /\ server # "listening" => cancelled

LEMMA OrderedStep ==
  ASSUME Ordered, [Next]_vars
  PROVE  Ordered'
<1> USE DEF Ordered
<1>1. CASE Start \/ Signal \/ Wake \/ Wait \/ Close
  BY <1>1 DEF Start, Signal, Wake, Wait, Close
<1>2. CASE ServerFails \/ Shutdown \/ ShutdownReturns
  BY <1>2 DEF ServerFails, Shutdown, ShutdownReturns
<1>3. CASE \/ \E r \in Requests : Arrive(r) \/ Answer(r)
           \/ \E x \in Loops : TakeTick(x) \/ Stop(x)
           \/ \E x \in Sshs \cup Workers : Finish(x)
           \/ \E c \in Pves : Collect(c) \/ TaskDone(c)
           \/ \E c \in Pbss : CollectPBS(c)
           \/ UNCHANGED vars
  <2>1. UNCHANGED <<main, signalled, cancelled>>
    BY <1>3 DEF Arrive, Answer, TakeTick, Stop, Finish, Collect, Discover, DiscoverFails, Submit,
                SubmitCancelled, AllDone, Written, TaskDone, CollectPBS, Usage, UsageFails, Publish,
                GoTo, vars
  <2>2. UNCHANGED server
    BY <1>3 DEF Arrive, Answer, TakeTick, Stop, Finish, Collect, Discover, DiscoverFails, Submit,
                SubmitCancelled, AllDone, Written, TaskDone, CollectPBS, Usage, UsageFails, Publish,
                GoTo, vars
  <2> QED BY <2>1, <2>2
<1> QED BY <1>1, <1>2, <1>3 DEF Next

\* What the promise sees of the process.
Phase ==
  IF main = "killed" THEN "killed" ELSE IF main = "exited" THEN "closed"
  ELSE IF cancelled THEN "stopping" ELSE "up"
Alive == {x \in Loops : loop[x] # "stopped"}
Serving == server \in {"listening", "shutting"}
Publishing == {c \in Pves \cup Pbss : loop[c] \in {"submit", "write", "blank"}}
Blank == {c \in Pbss : loop[c] = "blank"}

LEMMA MainKeeps ==
  ASSUME IInv, Ordered, Start \/ Signal \/ Wake \/ Wait \/ Close
  PROVE  [Promise!Next]_(Promise!vars)
<1>1. UNCHANGED <<server, loop>>
  BY DEF Start, Signal, Wake, Wait, Close
<1>2. UNCHANGED <<Alive, Serving, Publishing, Blank>>
  BY <1>1 DEF Alive, Serving, Publishing, Blank
<1>3. \/ UNCHANGED Phase
      \/ Phase = "up" /\ Phase' = "stopping"
      \/ Phase \in {"up", "stopping"} /\ Phase' = "killed"
      \/ Phase = "stopping" /\ Phase' = "closed" /\ Alive = {} /\ ~Serving
  <2>1. CASE Start \/ Wake \/ Wait
    BY <2>1 DEF Start, Wake, Wait, Phase
  <2>2. CASE Signal
    BY <2>2 DEF Signal, Phase
  <2>3. CASE Close
    BY <2>3 DEF Close, Phase, Ordered, IInv, StoreClosedLast, AllStopped, Alive, Serving
  <2> QED BY <2>1, <2>2, <2>3
<1> QED BY <1>2, <1>3 DEF Phase, Alive, Serving, Publishing, Blank, Promise!Next, Promise!vars,
           Promise!Interrupt, Promise!Kill, Promise!Close

LEMMA ServerKeeps ==
  ASSUME IInv, Ordered, ServerFails \/ Shutdown \/ ShutdownReturns
  PROVE  [Promise!Next]_(Promise!vars)
<1>1. UNCHANGED <<main, loop>> /\ Started
  BY DEF ServerFails, Shutdown, ShutdownReturns
<1>2. UNCHANGED <<Alive, Publishing, Blank>>
  BY <1>1 DEF Alive, Publishing, Blank
<1>3. \/ UNCHANGED <<Phase, Serving>>
      \/ Phase = "up" /\ Phase' = "stopping" /\ Serving' = FALSE
      \/ Phase = "stopping" /\ UNCHANGED Phase /\ Serving' = FALSE
  <2>1. CASE ServerFails
    BY <1>1, <2>1 DEF ServerFails, Started, Phase, Serving
  <2>2. CASE Shutdown
    BY <2>2 DEF Shutdown, Phase, Serving
  <2>3. CASE ShutdownReturns
    BY <1>1, <2>3 DEF ShutdownReturns, Started, Phase, Serving, Ordered
  <2> QED BY <2>1, <2>2, <2>3
<1> QED BY <1>2, <1>3 DEF Phase, Alive, Serving, Publishing, Blank, Promise!Next, Promise!vars,
           Promise!Fail, Promise!StopServing

LEMMA LoopKeeps ==
  ASSUME IInv, NEW x \in Loops,
         \/ TakeTick(x) \/ Stop(x) \/ (x \in Sshs \cup Workers /\ Finish(x))
         \/ (x \in Pves /\ (Collect(x) \/ TaskDone(x)))
         \/ (x \in Pbss /\ CollectPBS(x))
  PROVE  [Promise!Next]_(Promise!vars)
<1>1. UNCHANGED <<main, cancelled, server>> /\ Started
  BY DEF TakeTick, Stop, Finish, Collect, Discover, DiscoverFails, Submit, SubmitCancelled,
         AllDone, Written, TaskDone, CollectPBS, Usage, UsageFails, Publish, GoTo
<1>2. UNCHANGED <<Phase, Serving>> /\ Phase \in {"up", "stopping"}
  BY <1>1 DEF Phase, Serving, Started
<1>3. /\ loop \in [Loops -> {"idle", "busy", "submit", "write", "blank", "stopped"}]
      /\ Pves \subseteq Loops /\ Pbss \subseteq Loops
  BY DEF IInv, TypeOK, Loops
<1>4. CASE Stop(x)
  <2>1. Alive' = Alive \ {x} /\ UNCHANGED <<Publishing, Blank>>
    BY <1>3, <1>4 DEF Stop, GoTo, Alive, Publishing, Blank
  <2>2. Phase = "stopping" /\ x \notin Publishing
    BY <1>2, <1>4 DEF Stop, Phase, Publishing
  <2> QED BY <1>2, <2>1, <2>2 DEF Phase, Alive, Serving, Publishing, Blank, Promise!Next,
             Promise!vars, Promise!Leave
<1>5. CASE (x \in Pves /\ Discover(x)) \/ (x \in Pbss /\ Usage(x))
  <2>1. UNCHANGED <<Alive, Blank>> /\ Publishing' = Publishing \cup {x} /\ x \in Alive
    <3>1. loop[x] = "busy" /\ \E s \in {"submit", "write"} : loop' = [loop EXCEPT ![x] = s]
      BY <1>5 DEF Discover, Usage, GoTo
    <3> QED BY <1>3, <1>5, <3>1 DEF Alive, Publishing, Blank
  <2>2. Phase = "up"
    BY <1>2, <1>5 DEF Discover, Usage, Phase
  <2> QED BY <1>2, <1>5, <2>1, <2>2 DEF Phase, Alive, Serving, Publishing, Blank,
             Promise!Next, Promise!vars, Promise!BeginPoll
<1>6. CASE x \in Pbss /\ UsageFails(x) /\ x \in Named
  <2>1. loop[x] = "busy" /\ loop' = [loop EXCEPT ![x] = "blank"]
    BY <1>6 DEF UsageFails, GoTo
  <2>2. /\ UNCHANGED Alive /\ x \in Alive
        /\ Publishing' = Publishing \cup {x} /\ Blank' = Blank \cup {x}
    BY <1>3, <1>6, <2>1 DEF Alive, Publishing, Blank
  <2> QED BY <1>2, <1>6, <2>2, LifecycleAssumption DEF Phase, Alive, Serving, Publishing,
             Blank, Promise!Next, Promise!vars, Promise!BeginBlank
<1>7. CASE \/ x \in Pves /\ (SubmitCancelled(x) \/ Written(x))
           \/ x \in Pbss /\ Publish(x)
  <2>1. loop[x] # "stopped" /\ loop' = [loop EXCEPT ![x] = "idle"]
    BY <1>7 DEF SubmitCancelled, Written, Publish, GoTo
  <2>2. UNCHANGED Alive /\ Publishing' = Publishing \ {x} /\ Blank' = Blank \ {x}
    BY <1>3, <2>1 DEF Alive, Publishing, Blank
  <2> QED BY <1>2, <1>7, <2>2 DEF Phase, Alive, Serving, Publishing, Blank, Promise!Next,
             Promise!vars, Promise!EndPoll
<1>8. CASE \/ TakeTick(x) \/ (x \in Sshs \cup Workers /\ Finish(x))
           \/ (x \in Pves /\ (DiscoverFails(x) \/ Submit(x) \/ AllDone(x) \/ TaskDone(x)))
           \/ (x \in Pbss /\ UsageFails(x) /\ x \notin Named)
  <2>1. UNCHANGED <<Alive, Publishing, Blank>>
    <3>1. CASE UNCHANGED loop
      BY <3>1 DEF Alive, Publishing, Blank
    <3>2. CASE /\ loop[x] \in {"idle", "busy"}
               /\ loop' = [loop EXCEPT ![x] = "busy"] \/ loop' = [loop EXCEPT ![x] = "idle"]
      BY <1>3, <3>2 DEF Alive, Publishing, Blank
    <3>3. CASE loop[x] = "submit" /\ loop' = [loop EXCEPT ![x] = "write"]
      BY <1>3, <3>3 DEF Alive, Publishing, Blank
    <3> QED BY <1>8, <3>1, <3>2, <3>3 DEF TakeTick, Finish, DiscoverFails, Submit, AllDone,
               TaskDone, UsageFails, GoTo
  <2> QED BY <1>2, <2>1 DEF Phase, Alive, Serving, Publishing, Blank, Promise!vars
<1> QED BY <1>4, <1>5, <1>6, <1>7, <1>8 DEF Collect, CollectPBS

LEMMA StepKeepsPromise ==
  ASSUME IInv, Ordered, [Next]_vars
  PROVE  [Promise!Next]_(Promise!vars)
<1>1. CASE (\E r \in Requests : Arrive(r) \/ Answer(r)) \/ UNCHANGED vars
  BY <1>1 DEF Arrive, Answer, vars, Promise!vars
<1> QED BY <1>1, MainKeeps, ServerKeeps, LoopKeeps DEF Next, Loops

\* However it ends, the process implements ShutdownPromise.
THEOREM PromiseKept == Spec => KeepsPromise
<1>1. Init => Ordered /\ Promise!Init
  BY DEF Init, Ordered, Promise!Init, Loops
<1>2. Ordered /\ [Next]_vars => Ordered'
  BY OrderedStep
<1>3. IInv /\ Ordered /\ [Next]_vars => [Promise!Next]_(Promise!vars)
  BY StepKeepsPromise
<1> QED BY <1>1, <1>2, <1>3, Invariance, PTL DEF Spec, KeepsPromise, Promise!Spec
=============================================================================
