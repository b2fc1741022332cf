---------------------------- MODULE HistoryPromise ----------------------------
(***************************************************************************)
(* What the store promises of the measurements it is given: a sample, once *)
(* recorded, can be read until it is older than its table's retention,     *)
(* whatever crashes, failures and clean-ups there are meanwhile.           *)
(***************************************************************************)
EXTENDS Integers

CONSTANTS
  Subjects,  \* what samples are about: nodes, guests, disks
  Kept,      \* [Subjects -> Nat]: how long a sample of each is kept
  Delay      \* how old a sample may be when it is recorded

VARIABLE samples  \* those recorded and not yet too old, with their ages

Init == samples = {}

\* A sample that is Delay old at most is recorded, perhaps over its equal.
Record(s, a) == samples' = samples \cup {[subject |-> s, age |-> a]}

\* Time passes: nothing else ends a sample.
Pass ==
  samples' = {[x EXCEPT !.age = @ + 1] : x \in {y \in samples : y.age < Kept[y.subject]}}

Next == Pass \/ \E s \in Subjects, a \in 0..Delay : Record(s, a)

Spec == Init /\ [][Next]_samples
=============================================================================
