-------------------------------- MODULE Ages --------------------------------
(***************************************************************************)
(* A Go map from keys to time.Time, as the alerter keeps them, seen from   *)
(* the present: a partial function from keys to ages.  Only differences of *)
(* times are ever compared in the code (now.Sub(t)), so an age is all      *)
(* there is to a timestamp.                                                *)
(***************************************************************************)
EXTENDS Integers, Functions

\* Go: m[k] = v
Put(f, k, v) == [x \in DOMAIN f \cup {k} |-> IF x = k THEN v ELSE f[x]]

\* Go: delete(m, k)
Drop(f, k) == Restrict(f, DOMAIN f \ {k})

\* One unit of time passes.  Ages saturate at cap.
Older(f, cap) == [x \in DOMAIN f |-> IF f[x] < cap THEN f[x] + 1 ELSE cap]

\* Deletes every entry older than maxAge.
Expire(f, maxAge) == Restrict(f, {x \in DOMAIN f : f[x] <= maxAge})

\* The empty map.
EmptyMap == [x \in {} |-> 0]

\* f is a map from some of the keys K to ages up to cap.
IsAgeMap(f, K, cap) == DOMAIN f \subseteq K /\ f \in [DOMAIN f -> 0..cap]
=============================================================================
