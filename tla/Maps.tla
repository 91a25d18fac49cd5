-------------------------------- MODULE Maps --------------------------------
(***************************************************************************)
(* The std::unordered_map idiom the engine uses everywhere (page_table,    *)
(* pages_table, the catalog's name tables): a map is a function, find() is *)
(* membership in its domain, m[k] = v is Put, emplace(k, v), which keeps   *)
(* an entry that is there, is Emplaced, and erase(k) is Erase.             *)
(***************************************************************************)
EXTENDS Functions

MapOf(K, V) == UNION {[S -> V] : S \in SUBSET K}

EmptyMap == [k \in {} |-> {}]

Put(m, k, v) == [x \in DOMAIN m \cup {k} |-> IF x = k THEN v ELSE m[x]]

Emplaced(m, k, v) == IF k \in DOMAIN m THEN m ELSE Put(m, k, v)

Erase(m, k) == Restrict(m, DOMAIN m \ {k})
=============================================================================
