--------------------------------- MODULE Dicts ---------------------------------
(* Python dictionaries, as functions whose domain is the set of keys, and   *)
(* lists, as sequences.                                                    *)
EXTENDS Naturals, Sequences

(* The dictionaries with keys in K and values in V.                        *)
Dict(K, V) == UNION {[D -> V] : D \in SUBSET K}

EmptyDict == [k \in {} |-> k]

(* d[k] = v                                                                *)
Put(d, k, v) == [x \in DOMAIN d \cup {k} |-> IF x = k THEN v ELSE d[x]]

(* d.update(e)                                                             *)
Update(d, e) ==
  [k \in DOMAIN d \cup DOMAIN e |-> IF k \in DOMAIN e THEN e[k] ELSE d[k]]

(* [x for x in s if x in S]                                                *)
Filtered(s, S) ==
  LET kept[n \in 0..Len(s)] ==
        IF n = 0 THEN <<>>
        ELSE IF s[n] \in S THEN Append(kept[n - 1], s[n]) ELSE kept[n - 1]
  IN  kept[Len(s)]

===============================================================================
