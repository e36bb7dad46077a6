----------------------------- MODULE FlashStore -----------------------------
(***************************************************************************)
(* What the flash map functions promise their caller, without units,       *)
(* sectors or driver calls: a store of bytes and one request at a time.    *)
(* A request names the bytes it is to set and what to set them to; it      *)
(* changes no other byte, in any state, and it succeeds only when all of   *)
(* them are set.  A loss of power ends it anywhere.                        *)
(***************************************************************************)
CONSTANTS Addr, Byte

VARIABLES
    store,    \* the bytes
    goal,     \* the bytes the request is to set, a function on a set of addresses
    status    \* of the request

vars == <<store, goal, status>>

Init ==
    /\ store \in [Addr -> Byte]
    /\ goal = [a \in {} |-> {}] /\ status = "none"

Request ==
    /\ status = "none" /\ status' \in {"busy", "failed"}
    /\ DOMAIN goal' \subseteq Addr /\ \A a \in DOMAIN goal' : goal'[a] \in Byte
    /\ UNCHANGED store

\* Only bytes of the request move.
Progress == \A a \in Addr \ DOMAIN goal : store'[a] = store[a]

Work == status = "busy" /\ Progress /\ UNCHANGED <<goal, status>>

Succeed ==
    /\ status = "busy" /\ status' = "done"
    /\ \A a \in DOMAIN goal : store[a] = goal[a]
    /\ UNCHANGED <<store, goal>>

Fail == status = "busy" /\ status' = "failed" /\ UNCHANGED <<store, goal>>

\* Power is lost: what the request was doing is left where it is.
Lose == status # "none" /\ status' = "lost" /\ Progress /\ UNCHANGED goal

Forget == status # "none" /\ status' = "none" /\ UNCHANGED <<store, goal>>

Next == Request \/ Work \/ Succeed \/ Fail \/ Lose \/ Forget

Spec == Init /\ [][Next]_vars
=============================================================================
