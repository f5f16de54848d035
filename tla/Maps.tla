--------------------------------- MODULE Maps ---------------------------------
(* The store's Maps as functions with a changing domain (models/db.js).      *)
EXTENDS Functions

\* map.set(k, v): one more entry, or one replaced.
Put(f, k, v) == [x \in DOMAIN f \cup {k} |-> IF x = k THEN v ELSE f[x]]

\* map.delete(k), for every k in S.
Drop(f, S) == Restrict(f, DOMAIN f \ S)
=============================================================================
