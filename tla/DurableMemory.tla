----------------------------- MODULE DurableMemory -----------------------------
(***************************************************************************)
(* What the tiers promise to those who read: one durable memory, without   *)
(* caches, copies, pruners or locks.  It holds a set of shards.  A reader  *)
(* looks for a shard above (in L2), then below (in L3).  What it finds is  *)
(* in the memory at that instant; it may miss only what was not securely   *)
(* held when the look began, or what was lifted past it, or what has       *)
(* become doubtful since.  And the memory forgets a doubtful shard only.   *)
(***************************************************************************)
CONSTANTS Shards, Readers, None

VARIABLES
    held,      \* the shards in memory
    doubtful,  \* shards that two movements have pulled at: they may be lost
    look,      \* how far each reader's look has come
    sought,    \* the shard it looks for
    sure       \* must the look succeed?

vars == <<held, doubtful, look, sought, sure>>

Looking(c) == look[c] \in {"above", "below"}

Init ==
    /\ held = {} /\ doubtful = {}
    /\ look = [c \in Readers |-> "no"]
    /\ sought = [c \in Readers |-> None]
    /\ sure = [c \in Readers |-> FALSE]

Remember(s) ==
    /\ held' = held \union {s}
    /\ UNCHANGED <<doubtful, look, sought, sure>>

Forget(s) ==
    /\ s \in doubtful
    /\ held' = held \ {s}
    /\ UNCHANGED <<doubtful, look, sought, sure>>

Seek(c, s) ==
    /\ look[c] = "no"
    /\ look' = [look EXCEPT ![c] = "above"]
    /\ sought' = [sought EXCEPT ![c] = s]
    /\ sure' = [sure EXCEPT ![c] = s \in held \ doubtful]
    /\ UNCHANGED <<held, doubtful>>

Descend(c) ==
    /\ look[c] = "above"
    /\ look' = [look EXCEPT ![c] = "below"]
    /\ UNCHANGED <<held, doubtful, sought, sure>>

Find(c) ==
    /\ Looking(c) /\ sought[c] \in held
    /\ look' = [look EXCEPT ![c] = "found"]
    /\ sure' = [sure EXCEPT ![c] = FALSE]
    /\ UNCHANGED <<held, doubtful, sought>>

Miss(c) ==
    /\ look[c] = "below" /\ ~sure[c]
    /\ look' = [look EXCEPT ![c] = "missed"]
    /\ UNCHANGED <<held, doubtful, sought, sure>>

\* The reader has its answer, or dies.
Leave(c) ==
    /\ look' = [look EXCEPT ![c] = "no"]
    /\ sought' = [sought EXCEPT ![c] = None]
    /\ sure' = [sure EXCEPT ![c] = FALSE]
    /\ UNCHANGED <<held, doubtful>>

\* A reader that found a shard moves it up as it leaves: those who are already
\* below may miss it.
Lift(c) ==
    /\ look[c] = "found" /\ sought[c] \in held
    /\ look' = [look EXCEPT ![c] = "no"]
    /\ sought' = [sought EXCEPT ![c] = None]
    /\ sure' = [d \in Readers |->
                   sure[d] /\ ~(look[d] = "below" /\ sought[d] = sought[c])]
    /\ UNCHANGED <<held, doubtful>>

\* It moves the shard while something else does: from now on the shard may be
\* lost, and is lost at once or later or never.
Overlap(c) ==
    /\ look[c] = "found"
    /\ look' = [look EXCEPT ![c] = "no"]
    /\ sought' = [sought EXCEPT ![c] = None]
    /\ doubtful' = doubtful \union {sought[c]}
    /\ held' \in {held, held \ {sought[c]}}
    /\ sure' = [d \in Readers |-> sure[d] /\ sought[d] # sought[c]]

Next ==
    \/ \E s \in Shards : Remember(s) \/ Forget(s)
    \/ \E c \in Readers : \/ \E s \in Shards : Seek(c, s)
                          \/ Descend(c) \/ Find(c) \/ Miss(c)
                          \/ Leave(c) \/ Lift(c) \/ Overlap(c)

Spec == Init /\ [][Next]_vars
=============================================================================
