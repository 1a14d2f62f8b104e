---------------------------- MODULE RateLimiter ----------------------------
(***************************************************************************)
(* InMemorySlidingWindowRateLimiter of zaptrace/api/abuse_control.py: the  *)
(* table of hits, its lazy pruning, its periodic and its forced clean-up.  *)
(* Every method holds the limiter's lock, so each is one action.  The      *)
(* clock only moves forward (the code reads time.time()).                  *)
(***************************************************************************)
EXTENDS ServerClock, Integers, Sequences, FiniteSets

CONSTANTS
    Clients,         \* the rate-limit keys
    Limit,           \* admissions of one key in a window
    Window,          \* length of the window
    MaxKeys,         \* keys the table may hold
    CleanupInterval  \* time between two clean-ups of the whole table

ASSUME LimiterAssumption ==
    /\ IsFiniteSet(Clients)
    /\ {Limit, Window, MaxKeys, CleanupInterval} \subseteq Nat \ {0}

VARIABLES
    hits,        \* self._hits; a key that is not in the dict has no hits
    lastCleanup, \* self._last_cleanup
    decision,    \* the last RateLimitDecision of check
    admitted     \* every admission of this process (history)

limiterVars == <<hits, lastCleanup, decision, admitted>>

NoDecision == [client |-> "", reason |-> "allowed", remaining |-> Limit]

LimiterInit ==
    /\ hits = [c \in Clients |-> <<>>]
    /\ lastCleanup = 0
    /\ decision = NoDecision
    /\ admitted = {}

-----------------------------------------------------------------------------
\* popleft while the oldest hit is outside the window.
Pruned(queue, start) ==
    LET kept == {i \in 1 .. Len(queue) : queue[i] > start}
    IN  IF kept = {} THEN <<>>
        ELSE SubSeq(queue, CHOOSE i \in kept : \A j \in kept : i <= j, Len(queue))

PruneKey(table, c) == [table EXCEPT ![c] = Pruned(@, now - Window)]
PruneAll(table) == [c \in Clients |-> Pruned(table[c], now - Window)]
KeyCount(table) == Cardinality({c \in Clients : table[c] # <<>>})

CleanupDue == now - lastCleanup >= CleanupInterval

\* The table after the periodic clean-up and the pruning of the caller's key.
Looked(c) == PruneKey(IF CleanupDue THEN PruneAll(hits) ELSE hits, c)

\* A new key that finds the table full forces a clean-up of the whole table.
Crowded(c) == Looked(c)[c] = <<>> /\ KeyCount(Looked(c)) >= MaxKeys

CheckedMutant(c) == Looked(c)

Checked(c) == IF Crowded(c) THEN PruneAll(Looked(c)) ELSE Looked(c)

AnyKeyMutant(c) == Len(Checked(c)[c]) < Limit

Allows(c) ==
    /\ ~(Checked(c)[c] = <<>> /\ KeyCount(Checked(c)) >= MaxKeys)
    /\ Len(Checked(c)[c]) < Limit

Refusal(c) ==
    IF Checked(c)[c] = <<>> /\ KeyCount(Checked(c)) >= MaxKeys
    THEN "key-capacity" ELSE "request-limit"

Cleaned(c) == CleanupDue \/ Crowded(c)

Check(c) ==
    /\ lastCleanup' = IF Cleaned(c) THEN now ELSE lastCleanup
    /\ IF Allows(c)
       THEN /\ hits' = [Checked(c) EXCEPT ![c] = Append(@, now)]
            /\ decision' = [client |-> c, reason |-> "allowed",
                            remaining |-> Limit - Len(Checked(c)[c]) - 1]
            /\ admitted' = admitted \cup
                  {[client |-> c, time |-> now, number |-> Len(Checked(c)[c])]}
       ELSE /\ hits' = Checked(c)
            /\ decision' = [client |-> c, reason |-> Refusal(c), remaining |-> 0]
            /\ UNCHANGED admitted

\* info prunes the key it is asked about and decides nothing.
Info(c) ==
    /\ hits' = PruneKey(hits, c)
    /\ UNCHANGED <<lastCleanup, decision, admitted>>

\* The table is in memory: a new process starts with an empty one.
ForgetHits ==
    /\ hits' = [c \in Clients |-> <<>>]
    /\ lastCleanup' = 0
    /\ decision' = NoDecision
    /\ admitted' = {}

-----------------------------------------------------------------------------
LimiterTypeOK ==
    /\ now \in Nat
    /\ hits \in [Clients -> Seq(Nat)]
    /\ lastCleanup \in Nat
    /\ decision.remaining \in 0 .. Limit
    /\ KeyCount(hits) <= MaxKeys

\* No client is admitted more than Limit times in any window, wherever the
\* window starts and however requests of other clients, clean-ups and
\* header look-ups interleave with them.
WindowBound ==
    \A c \in Clients, t \in {x.time : x \in admitted} :
        Cardinality({x \in admitted : x.client = c /\ x.time \in t .. (t + Window - 1)}) <= Limit

Abstract == INSTANCE SlidingWindow

\* The table with its lazy pruning decides every request exactly as the
\* sliding window over the whole history would: no admission is forgotten
\* while it counts, and no client is refused because of a stale entry that
\* the clean-up schedule left in the table.
DecidesAsSlidingWindow == Abstract!SWSpec
=============================================================================
