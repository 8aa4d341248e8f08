----------------------------- MODULE KernelList -----------------------------
(***************************************************************************)
(* The intrusive doubly linked rings of the kernel (rtservice.h).  A heap  *)
(* r gives every node its two pointers, r.next and r.prev; the operators   *)
(* are the assignments of the C functions, in their order, so they also    *)
(* say what happens to a node that is linked already.                      *)
(***************************************************************************)
EXTENDS Naturals, FiniteSets

\* rt_list_init of every node of S.
rt_list_init(S) == [next |-> [n \in S |-> n], prev |-> [n \in S |-> n]]

\* Mutation: the pointer back from the next node is forgotten.
InsertForgetsBack(r, l, n) ==
    [next |-> [r.next EXCEPT ![n] = r.next[l], ![l] = n],
     prev |-> [r.prev EXCEPT ![n] = l]]

\* l->next->prev = n; n->next = l->next; l->next = n; n->prev = l
rt_list_insert_after(r, l, n) ==
    [next |-> [r.next EXCEPT ![n] = r.next[l], ![l] = n],
     prev |-> [r.prev EXCEPT ![r.next[l]] = n, ![n] = l]]

\* n->next->prev = n->prev; n->prev->next = n->next; n->next = n->prev = n
rt_list_remove(r, n) ==
    [next |-> [r.next EXCEPT ![r.prev[n]] = r.next[n], ![n] = n],
     prev |-> [r.prev EXCEPT ![r.next[n]] = r.prev[n], ![n] = n]]

rt_list_isempty(r, l) == r.next[l] = l

\* The node k steps behind l.
Steps(r, l) ==
    LET walk[k \in 0 .. Cardinality(DOMAIN r.next)] ==
            IF k = 0 THEN l ELSE r.next[walk[k - 1]]
    IN walk

\* rt_list_len: how many nodes come before l again (l has to be in a ring).
rt_list_len(r, l) ==
    LET walk == Steps(r, l)
        back == {k \in DOMAIN walk \ {0} : walk[k] = l}
    IN (CHOOSE k \in back : \A j \in back : k <= j) - 1

\* The nodes of the ring of l, as rt_list_for_each visits them.
Elements(r, l) == [k \in 1 .. rt_list_len(r, l) |-> Steps(r, l)[k]]

\* All nodes are in rings, and prev leads back where next led.
Rings(r) ==
    \A n \in DOMAIN r.next : r.prev[r.next[n]] = n /\ r.next[r.prev[n]] = n
=============================================================================
