---------------------------- MODULE AlertPromise ----------------------------
(***************************************************************************)
(* What the alerter promises whoever reads its alerts, whatever its loop,  *)
(* its snapshots and its cleanup look like: an alert of a held rule means  *)
(* the condition has counted as bad for the rule's hold time, and two      *)
(* alerts of one key are the rule's cooldown apart.  A new process starts  *)
(* from nothing.                                                           *)
(***************************************************************************)
EXTENDS Ages

CONSTANTS Keys, Held, Hold, Cooldown, AgeCap

VARIABLES
  badSince,   \* key -> age: since when the condition counts as bad
  lastAlert   \* key -> age: stamp of the newest alert

vars == <<badSince, lastAlert>>

Init == badSince = EmptyMap /\ lastAlert = EmptyMap

Pass ==
  /\ badSince' = Older(badSince, AgeCap)
  /\ lastAlert' = Older(lastAlert, AgeCap)

\* The condition starts to count, from an instant `back' units ago.
Count(k, back) ==
  /\ k \notin DOMAIN badSince
  /\ badSince' = Put(badSince, k, back)
  /\ UNCHANGED lastAlert

\* Conditions stop to count: they cleared, or were given up.
Forget(S) ==
  /\ badSince' = Restrict(badSince, DOMAIN badSince \ S)
  /\ UNCHANGED lastAlert

\* Alert k, stamped `back' units ago.
Alert(k, back) ==
  /\ k \in Held => k \in DOMAIN badSince /\ badSince[k] - back >= Hold[k]
  /\ k \in DOMAIN lastAlert => lastAlert[k] - back >= Cooldown[k]
  /\ lastAlert' = Put(lastAlert, k, back)
  /\ UNCHANGED badSince

Restart == badSince' = EmptyMap /\ lastAlert' = EmptyMap

Next ==
  \/ Pass
  \/ \E k \in Keys, back \in 0..AgeCap : Count(k, back) \/ Alert(k, back)
  \/ \E S \in SUBSET Keys : Forget(S)
  \/ Restart

Spec == Init /\ [][Next]_vars
=============================================================================
