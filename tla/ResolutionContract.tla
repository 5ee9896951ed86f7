------------------------- MODULE ResolutionContract -------------------------
(***************************************************************************)
(* What resolving a guest function promises its callers (cpu/processor.h,  *)
(* ResolveFunction): an address has one outcome as long as the module that *)
(* contains it is there, everybody who asks gets that outcome, and it is   *)
(* worked out only when somebody asks.                                     *)
(***************************************************************************)
CONSTANTS Callers, Addresses, Nothing

VARIABLES
    outcome,    \* of each address: Nothing yet, "READY" or "FAILED"
    asks,       \* the address each caller waits for, or Nothing
    gone        \* callers that were terminated

Init ==
    /\ outcome = [a \in Addresses |-> Nothing]
    /\ asks = [c \in Callers |-> Nothing]
    /\ gone = {}

Ask(c) ==
    /\ asks[c] = Nothing
    /\ \E a \in Addresses : asks' = [asks EXCEPT ![c] = a]
    /\ UNCHANGED <<outcome, gone>>

\* One of those who ask works it out.
Resolve(c) ==
    /\ asks[c] # Nothing /\ outcome[asks[c]] = Nothing
    /\ \E o \in {"READY", "FAILED"} : outcome' = [outcome EXCEPT ![asks[c]] = o]
    /\ UNCHANGED <<asks, gone>>

Answer(c) ==
    /\ asks[c] # Nothing /\ outcome[asks[c]] # Nothing
    /\ asks' = [asks EXCEPT ![c] = Nothing]
    /\ UNCHANGED <<outcome, gone>>

Leave(c) ==
    /\ gone' = gone \cup {c}
    /\ UNCHANGED <<outcome, asks>>

\* The module is unloaded, when nobody asks but callers that are gone.
Forget ==
    /\ \A c \in Callers \ gone : asks[c] = Nothing
    /\ \E A \in SUBSET Addresses :
          outcome' = [a \in Addresses |-> IF a \in A THEN Nothing ELSE outcome[a]]
    /\ \E C \in SUBSET gone :
          asks' = [c \in Callers |-> IF c \in C THEN Nothing ELSE asks[c]]
    /\ UNCHANGED gone

Next ==
    \/ Forget
    \/ \E c \in Callers \ gone : Ask(c) \/ Resolve(c) \/ Answer(c) \/ Leave(c)

Spec == Init /\ [][Next]_<<outcome, asks, gone>>
=============================================================================
