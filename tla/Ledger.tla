-------------------------------- MODULE Ledger --------------------------------
(***************************************************************************)
(* What the audit log promises to those who emit receipts, without locks,  *)
(* tasks, transactions or hashes: a compare-and-append book, of which a    *)
(* beginning is kept for good.  An action asks for a receipt; the receipt  *)
(* is drafted against the end of the book; it is entered if the book still *)
(* ends there and fails if it does not; what is entered is then kept.      *)
(*                                                                         *)
(* An action that asks loses its receipt in three ways only: the book no   *)
(* longer ends where the receipt was drafted, a failure while it was being *)
(* emitted, the death of the process.  Failures and deaths are counted, so *)
(* a log that loses a receipt without one does not keep this promise.      *)
(***************************************************************************)
EXTENDS Naturals, Sequences

CONSTANTS Actions, None

VARIABLES
    book,     \* the entered actions, in order
    kept,     \* how many of them are kept for good
    asked,    \* actions whose receipt is not drafted yet
    drafts,   \* drafted receipts: the action and the end of the book it follows
    settling, \* actions entered and not yet told that they are kept
    faults,   \* failures so far
    deaths    \* deaths of the process so far

vars == <<book, kept, asked, drafts, settling, faults, deaths>>

Drafts == [action : Actions, after : Actions \union {None}]
End    == IF book = <<>> THEN None ELSE book[Len(book)]
Keeps  == SubSeq(book, 1, kept)
Open   == asked \union {d.action : d \in drafts} \union settling

Init ==
    /\ book = <<>> /\ kept = 0
    /\ asked = {} /\ drafts = {} /\ settling = {}
    /\ faults = 0 /\ deaths = 0

Ask(a) ==
    /\ a \notin Open /\ \A i \in 1..Len(book) : book[i] # a
    /\ asked' = asked \union {a}
    /\ UNCHANGED <<book, kept, drafts, settling, faults, deaths>>

Draft(a) ==
    /\ a \in asked
    /\ asked' = asked \ {a}
    /\ drafts' = drafts \union {[action |-> a, after |-> End]}
    /\ UNCHANGED <<book, kept, settling, faults, deaths>>

Enter(d) ==
    /\ d.after = End
    /\ book' = Append(book, d.action)
    /\ drafts' = drafts \ {d}
    /\ settling' = settling \union {d.action}
    /\ UNCHANGED <<kept, asked, faults, deaths>>

Fail(d) ==
    /\ d.after # End
    /\ drafts' = drafts \ {d}
    /\ UNCHANGED <<book, kept, asked, settling, faults, deaths>>

Keep(a) ==
    /\ a \in settling
    /\ kept' = Len(book)
    /\ settling' = settling \ {a}
    /\ UNCHANGED <<book, asked, drafts, faults, deaths>>

\* A failure costs one emission its receipt: before it is drafted,
AbandonAsked(a) ==
    /\ asked' = asked \ {a}
    /\ faults' = faults + 1
    /\ UNCHANGED <<book, kept, drafts, settling, deaths>>

\* when it is drafted, unless it is entered although nobody is told,
AbandonDraft(d) ==
    /\ drafts' = drafts \ {d}
    /\ \/ book' = book
       \/ d.after = End /\ book' = Append(book, d.action)
    /\ faults' = faults + 1
    /\ UNCHANGED <<kept, asked, settling, deaths>>

\* or when it is entered: it stays so, is kept, or goes with all not kept.
AbandonEntered(a) ==
    /\ settling' = settling \ {a}
    /\ \/ UNCHANGED <<book, kept>>
       \/ kept' = Len(book) /\ book' = book
       \/ book' = Keeps /\ kept' = kept
    /\ faults' = faults + 1
    /\ UNCHANGED <<asked, drafts, deaths>>

\* The process dies with every open emission and all that is not kept.
Die ==
    /\ asked' = {} /\ drafts' = {} /\ settling' = {}
    /\ book' = Keeps
    /\ deaths' = deaths + 1
    /\ UNCHANGED <<kept, faults>>

Next ==
    \/ \E a \in Actions : Ask(a)
    \/ \E a \in asked : Draft(a) \/ AbandonAsked(a)
    \/ \E d \in drafts : Enter(d) \/ Fail(d) \/ AbandonDraft(d)
    \/ \E a \in settling : Keep(a) \/ AbandonEntered(a)
    \/ Die

Spec == Init /\ [][Next]_vars

\* A draft of the action is entered or fails.
Settle(a) == \E d \in drafts : d.action = a /\ (Enter(d) \/ Fail(d))

\* Every receipt that is asked for is drafted, every draft is settled and
\* every receipt that is entered is kept, unless a failure comes first.
Fairness ==
    \A a \in Actions : WF_vars(Draft(a)) /\ WF_vars(Settle(a)) /\ WF_vars(Keep(a))

FairSpec == Spec /\ Fairness
=============================================================================
