----------------------------- MODULE PageMapSpec -----------------------------
(***************************************************************************)
(* What the paging layer promises its callers: address spaces that come    *)
(* and go, each a map from pages to physical pages in which map_user_page  *)
(* and unmap_user_page change one page and nothing else.                   *)
(***************************************************************************)
CONSTANTS Roots, Pages, Physical, Unmapped

VARIABLES space    \* live root -> page -> physical page or Unmapped

Empty == [v \in Pages |-> Unmapped]

Create(r) == /\ r \notin DOMAIN space
             /\ space' = [q \in DOMAIN space \cup {r} |-> IF q = r THEN Empty ELSE space[q]]

Destroy(r) == space' = [q \in DOMAIN space \ {r} |-> space[q]]

Map(r, v, p) == space' = [space EXCEPT ![r][v] = p]

Unmap(r, v) == space' = [space EXCEPT ![r][v] = Unmapped]

Init == space = [r \in {} |-> Empty]

Next == \/ \E r \in Roots : Create(r)
        \/ \E r \in DOMAIN space :
            \/ Destroy(r)
            \/ \E v \in Pages : Unmap(r, v) \/ \E p \in Physical : Map(r, v, p)

Spec == Init /\ [][Next]_space
=============================================================================
