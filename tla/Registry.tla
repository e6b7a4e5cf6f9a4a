------------------------------ MODULE Registry ------------------------------
(***************************************************************************)
(* What a repository promises to those who resolve packages from it: per   *)
(* package a set of deployments, at most one per version, each naming an   *)
(* object that can be fetched.  A version is published once; only a forced *)
(* publication gives it another object, and no version ever disappears.    *)
(***************************************************************************)
CONSTANTS Package, Version, Content

VARIABLES
    registry,  \* the deployments of each package
    store      \* the objects that can be fetched

vars == <<registry, store>>

Versions(k) == {d.version : d \in registry[k]}

Init ==
    /\ registry = [k \in Package |-> {}]
    /\ store = {}

Store(c) ==
    /\ store' = store \cup {c}
    /\ UNCHANGED registry

Publish(k, v, c) ==
    /\ c \in store
    /\ v \notin Versions(k)
    /\ registry' = [registry EXCEPT ![k] = @ \cup {[version |-> v, object |-> c]}]
    /\ UNCHANGED store

Replace(k, v, c) ==
    /\ c \in store
    /\ v \in Versions(k)
    /\ registry' = [registry EXCEPT ![k] =
                       {d \in @ : d.version # v} \cup {[version |-> v, object |-> c]}]
    /\ UNCHANGED store

Next ==
    \/ \E c \in Content : Store(c)
    \/ \E k \in Package, v \in Version, c \in Content : Publish(k, v, c) \/ Replace(k, v, c)

Spec == Init /\ [][Next]_vars
=============================================================================
