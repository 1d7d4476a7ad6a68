---------------------------- MODULE HandleStore ----------------------------
(***************************************************************************)
(* What pool.h promises its clients, with no buffer in sight: a store that *)
(* maps stable opaque handles to the data stored under them.  A handle is  *)
(* fresh when it is given out, and from then on nothing that happens to    *)
(* any other handle changes what it refers to -- growth of the backing     *)
(* buffer is not even visible here.                                        *)
(***************************************************************************)
VARIABLE store   \* function: handle |-> contents of its reservation

Init == store = [h \in {} |-> h]

SameExcept(h) == \A k \in DOMAIN store \ {h} : store'[k] = store[k]

(* pool_push: one new handle, every older one keeps its contents. *)
Put(h) ==
    /\ h \notin DOMAIN store
    /\ DOMAIN store' = DOMAIN store \cup {h}
    /\ SameExcept(h)

(* A client writes through pool_getdata: one handle changes, in place. *)
Update(h) ==
    /\ DOMAIN store' = DOMAIN store
    /\ DOMAIN store'[h] = DOMAIN store[h]
    /\ SameExcept(h)

(* pool_drain, pool_close: every handle is gone. *)
Clear == store' = [h \in {} |-> h]

Next ==
    \/ \E h \in DOMAIN store' : Put(h)
    \/ \E h \in DOMAIN store : Update(h)
    \/ Clear

Spec == Init /\ [][Next]_store
=============================================================================
