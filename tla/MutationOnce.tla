----------------------------- MODULE MutationOnce -----------------------------
(***************************************************************************)
(* What the durable claim promises a client that retries a mutation id: one *)
(* request holds the id, only the holder ever runs, the id settles once and *)
(* keeps its outcome until it is forgotten.  MutationLifecycle implements    *)
(* this specification.                                                      *)
(***************************************************************************)
CONSTANTS Reqs, Ids, NoReq, Mid, Outcomes

VARIABLES
    slot,      \* per id: "absent", "processing" or the settled outcome
    holder,    \* per id: the request that holds it
    ran,       \* requests that ran against the provider
    spent      \* requests whose id has been forgotten since

onceVars == <<slot, holder, ran, spent>>

OnceInit ==
    /\ slot = [i \in Ids |-> "absent"]
    /\ holder = [i \in Ids |-> NoReq]
    /\ ran = {} /\ spent = {}

Open(r) ==
    /\ Mid[r] \in Ids /\ slot[Mid[r]] = "absent"
    /\ r \notin ran \cup spent
    /\ slot' = [slot EXCEPT ![Mid[r]] = "processing"]
    /\ holder' = [holder EXCEPT ![Mid[r]] = r]
    /\ UNCHANGED <<ran, spent>>

Run(r) ==
    /\ Mid[r] \in Ids /\ holder[Mid[r]] = r
    /\ r \notin ran
    /\ ran' = ran \cup {r}
    /\ UNCHANGED <<slot, holder, spent>>

Settle(i, o) ==
    /\ slot[i] = "processing"
    /\ slot' = [slot EXCEPT ![i] = o]
    /\ UNCHANGED <<holder, ran, spent>>

Forget(i) ==
    /\ slot[i] \in Outcomes
    /\ slot' = [slot EXCEPT ![i] = "absent"]
    /\ holder' = [holder EXCEPT ![i] = NoReq]
    /\ spent' = spent \cup {holder[i]}
    /\ UNCHANGED ran

OnceNext ==
    \/ \E r \in Reqs : Open(r) \/ Run(r)
    \/ \E i \in Ids : Forget(i) \/ \E o \in Outcomes : Settle(i, o)

OnceSpec == OnceInit /\ [][OnceNext]_onceVars
===============================================================================
