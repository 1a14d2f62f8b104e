--------------------------- MODULE SlidingWindow ---------------------------
(***************************************************************************)
(* What RateLimitBackend promises (zaptrace/api/abuse_control.py): the     *)
(* decision about a request depends only on the admissions of the last     *)
(* Window ticks, of the same client and of the clients active in it.  No   *)
(* pruning, no clean-up schedule, no table.                                *)
(***************************************************************************)
EXTENDS Integers, FiniteSets

CONSTANTS Clients, Limit, Window, MaxKeys

VARIABLES
    now,      \* the clock
    admitted, \* the admissions so far: records of client, time and number
    decision  \* the last decision of check, with the client it is about

SWvars == <<now, admitted, decision>>

Recent(c) == {x \in admitted : x.client = c /\ x.time > now - Window}
Active == {c \in Clients : Recent(c) # {}}

SWInit ==
    /\ now \in Nat
    /\ admitted = {}
    /\ decision = [client |-> "", reason |-> "allowed", remaining |-> Limit]

Admit(c) ==
    /\ Cardinality(Recent(c)) < Limit
    /\ c \in Active \/ Cardinality(Active) < MaxKeys
    /\ admitted' = admitted \cup
          {[client |-> c, time |-> now, number |-> Cardinality(Recent(c))]}
    /\ decision' = [client |-> c, reason |-> "allowed",
                    remaining |-> Limit - Cardinality(Recent(c)) - 1]
    /\ now' = now

RefuseClient(c) ==
    /\ c \notin Active /\ Cardinality(Active) >= MaxKeys
    /\ decision' = [client |-> c, reason |-> "key-capacity", remaining |-> 0]
    /\ UNCHANGED <<now, admitted>>

RefuseRequest(c) ==
    /\ Cardinality(Recent(c)) >= Limit
    /\ decision' = [client |-> c, reason |-> "request-limit", remaining |-> 0]
    /\ UNCHANGED <<now, admitted>>

Advance ==
    /\ now' \in Nat /\ now' > now
    /\ UNCHANGED <<admitted, decision>>

\* The process restarts and forgets every admission.
Restart ==
    /\ admitted' = {}
    /\ decision' = [client |-> "", reason |-> "allowed", remaining |-> Limit]
    /\ now' = now

SWNext ==
    \/ \E c \in Clients : Admit(c) \/ RefuseClient(c) \/ RefuseRequest(c)
    \/ Advance
    \/ Restart

SWSpec == SWInit /\ [][SWNext]_SWvars
=============================================================================
