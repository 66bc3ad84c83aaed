----------------------------- MODULE SamplePool -----------------------------
(***************************************************************************)
(* What DSVL promises of its samples: they arrive in order, a client gets  *)
(* the newest one, and a sample that a client has is not released.  When   *)
(* the others are released is left open.                                   *)
(***************************************************************************)
EXTENDS Naturals

CONSTANTS Clients, None

VARIABLES live,     \* the samples not released
          newest,   \* the last sample that arrived, 0 before the first
          has       \* has[c]: the sample of client c, or None

vars == <<live, newest, has>>

Held == {has[c] : c \in Clients} \ {None}

Init == live = {} /\ newest = 0 /\ has = [c \in Clients |-> None]

Arrive ==
    /\ newest' = newest + 1
    /\ \E kept \in SUBSET live : Held \subseteq kept /\ live' = kept \cup {newest'}
    /\ UNCHANGED has

Take(c) ==
    /\ has[c] = None /\ newest \in live
    /\ has' = [has EXCEPT ![c] = newest]
    /\ UNCHANGED <<live, newest>>

Return(c) ==
    /\ has[c] # None
    /\ has' = [has EXCEPT ![c] = None]
    /\ UNCHANGED <<live, newest>>

Drop == /\ \E kept \in SUBSET live : Held \subseteq kept /\ live' = kept
        /\ UNCHANGED <<newest, has>>

Next == Arrive \/ Drop \/ \E c \in Clients : Take(c) \/ Return(c)

Spec == Init /\ [][Next]_vars
=============================================================================
