-------------------------------- MODULE Maps --------------------------------
(***************************************************************************)
(* The std::unordered_map operations the storage code uses, on functions:  *)
(* the keys of a map are the DOMAIN of the function.                       *)
(***************************************************************************)

\* m[k] = v
Put(m, k, v) == [x \in DOMAIN m \cup {k} |-> IF x = k THEN v ELSE m[x]]

\* m.erase(k); no effect when k is not a key
Erase(m, k) == [x \in DOMAIN m \ {k} |-> m[x]]

\* m is a map with keys in K and values in V
IsMap(m, K, V) == DOMAIN m \subseteq K /\ m \in [DOMAIN m -> V]

\* A map without keys
EmptyMap == [x \in {} |-> x]

=============================================================================
