-------------------------- MODULE SecureReadProofs --------------------------
(* Theorems about SecureRead. *)
EXTENDS SecureRead, SequenceTheorems, NumberLemmas, TLAPS

-----------------------------------------------------------------------------
(* The invariant of the stores and the coroutines.                         *)

Scrubbing == {"scrubWarm", "scrubCold", "scrubHit"}
Lifting   == {"promote", "restoreVector", "restoreCache", "restoreDelete", "promoteHit"}
Walking   == {"getL1", "getL2", "getL3"}

\* What L2 and L3 may hold, and what has passed the patterns.
Plain(copy) == copy \in Copies /\ ~copy.core
Clean(copy) == Plain(copy) /\ RegexScan(copy.text) \notin Blocking

TypeInv ==
    /\ store \in [Tiers -> Slots]
    /\ op \in [Clients -> Op]
    /\ quarantined \subseteq Shards

\* No constitution is in L2 or L3.
LowerPlain ==
    \A s \in Shards, tier \in {"L2", "L3"} :
        store[tier][s] # None => Plain(store[tier][s])

\* A coroutine carries what its next step needs; what it lifts was scrubbed.
LocalOK(o) ==
    /\ o.pc \in Walking \union Scrubbing \union Lifting \union {"putVector"}
           => o.sid \in Shards
    /\ o.pc \in Scrubbing \union {"putVector"} => Plain(o.obj)
    /\ o.pc \in Lifting => Clean(o.obj)
    /\ \A s \in Shards : o.hits[s] # None => Plain(o.hits[s])

LocalsOK == \A c \in Clients : LocalOK(op[c])

Inv == TypeInv /\ LowerPlain /\ LocalsOK

\* A demotion knows its shard; what it is to archive is a plain copy.
DemotionOK(b) ==
    /\ b \in Demotion
    /\ b.pc # "none" => b.sid \in Shards
    /\ b.pc = "archive" => Plain(b.obj)

BatchInv ==
    /\ batch \in [Places -> Demotion]
    /\ \A p \in Places : DemotionOK(batch[p])

-----------------------------------------------------------------------------
(* What the updates of a coroutine leave behind.                           *)

Others(c) == \A d \in Clients \ {c} : op'[d] = op[d]

LEMMA GotoFields ==
    ASSUME op \in [Clients -> Op], NEW c \in Clients, NEW label \in PCs,
           Goto(c, label)
    PROVE  /\ op' \in [Clients -> Op] /\ Others(c)
           /\ op'[c].pc = label /\ op'[c].sid = op[c].sid /\ op'[c].obj = op[c].obj
           /\ op'[c].hits = op[c].hits /\ op'[c].got = op[c].got
           /\ op'[c].barred = op[c].barred
BY DEF Goto, Op, Others

LEMMA LeaveFields ==
    ASSUME op \in [Clients -> Op], NEW c \in Clients, Leave(c)
    PROVE  /\ op' \in [Clients -> Op] /\ Others(c)
           /\ op'[c].pc = "idle" /\ op'[c].sid = None /\ op'[c].obj = None
           /\ op'[c].hits = Empty /\ op'[c].got = {} /\ op'[c].barred = {}
<1>1. Idle \in Op
    BY DEF Idle, Op, PCs, Slots, Empty
<1> QED BY <1>1 DEF Leave, Idle, Others

LEMMA DeliverFields ==
    ASSUME op \in [Clients -> Op], NEW c \in Clients, Deliver(c), op[c].sid \in Shards
    PROVE  /\ op' \in [Clients -> Op] /\ Others(c)
           /\ op'[c].pc = "return" /\ op'[c].sid = op[c].sid /\ op'[c].obj = op[c].obj
           /\ op'[c].hits = op[c].hits /\ op'[c].got = {op[c].sid}
           /\ op'[c].barred = op[c].barred
<1>1. op[c] \in Op /\ "return" \in PCs /\ {op[c].sid} \subseteq Shards
    BY DEF PCs
<1>2. op' = [op EXCEPT ![c].pc = "return", ![c].got = {op[c].sid}]
    BY DEF Deliver
<1> QED BY <1>1, <1>2 DEF Op, Others

LEMMA TakeFields ==
    ASSUME op \in [Clients -> Op], NEW c \in Clients, NEW s \in Shards,
           NEW copy \in Copies \union {None}, NEW label \in PCs,
           Take(c, s, copy, label)
    PROVE  /\ op' \in [Clients -> Op] /\ Others(c)
           /\ op'[c].pc = label /\ op'[c].sid = s /\ op'[c].obj = copy
           /\ op'[c].hits = [op[c].hits EXCEPT ![s] = None]
           /\ op'[c].got = op[c].got /\ op'[c].barred = op[c].barred
<1>1. op[c] \in Op /\ op[c].hits \in Slots
    BY DEF Op
<1>2. [op[c].hits EXCEPT ![s] = None] \in Slots
    BY <1>1 DEF Slots
<1> QED BY <1>1, <1>2 DEF Take, Op, Others

\* A call that begins.
LEMMA EnteredFields ==
    ASSUME quarantined \subseteq Shards, NEW c \in Clients,
           NEW s \in Shards \union {None}, NEW label \in PCs
    PROVE  /\ Entered(c, s, label) \in Op
           /\ Entered(c, s, label).pc = label /\ Entered(c, s, label).sid = s
           /\ Entered(c, s, label).obj = None /\ Entered(c, s, label).hits = Empty
           /\ Entered(c, s, label).got = {}
           /\ Entered(c, s, label).barred = quarantined
<1>1. Empty \in Slots
    BY DEF Empty, Slots
<1> QED BY <1>1 DEF Entered, Idle, Op, PCs

\* One slot of one tier is written, all others stay.
SlotWritten(tier, s, copy) ==
    /\ store' \in [Tiers -> Slots]
    /\ store'[tier][s] = copy
    /\ \A t \in Tiers, u \in Shards :
          t # tier \/ u # s => store'[t][u] = store[t][u]

LEMMA SlotFields ==
    ASSUME store \in [Tiers -> Slots], NEW tier \in Tiers, NEW s \in Shards,
           NEW copy \in Copies \union {None},
           store' = [store EXCEPT ![tier][s] = copy]
    PROVE  SlotWritten(tier, s, copy)
<1>1. \A t \in Tiers : store[t] \in Slots
    OBVIOUS
<1>2. [store[tier] EXCEPT ![s] = copy] \in Slots
    BY <1>1 DEF Slots
<1>3. store' = [store EXCEPT ![tier] = [store[tier] EXCEPT ![s] = copy]]
    OBVIOUS
<1> QED BY <1>1, <1>2, <1>3 DEF SlotWritten, Slots

-----------------------------------------------------------------------------
(* The scrub.                                                              *)

\* The copy that is scrubbed is plain, and belongs to s.
LEMMA SubjectPlain ==
    ASSUME Inv, NEW c \in Clients, NEW s \in Shards, Scrubs(c, s)
    PROVE  Plain(Subject(c, s))
<1> USE DEF Inv, LocalsOK, LocalOK
<1>1. CASE op[c].pc \in Scrubbing /\ s = op[c].sid
    BY <1>1 DEF Subject, At, Scrubbing
<1>2. CASE NextHit(c, s)
    BY <1>2 DEF NextHit, Subject, At
<1> QED BY <1>1, <1>2 DEF Scrubs, Scrubbing

\* A verdict that does not block leaves a text that no pattern blocks: the
\* scorer is asked only where the patterns found nothing.
LEMMA PassIsClean ==
    ASSUME NEW text, Severities(text) \ Blocking # {}
    PROVE  RegexScan(text) \notin Blocking
BY DEF Severities, Asks, Severity, Blocking

\* ScrubPass in full.
LEMMA PassFields ==
    ASSUME Inv, NEW c \in Clients, NEW s \in Shards, ScrubPass(c, s)
    PROVE  /\ op' \in [Clients -> Op] /\ Others(c)
           /\ op'[c].sid = s /\ Clean(op'[c].obj)
           /\ op'[c].pc \in {"promote", "restoreVector", "promoteHit"}
           /\ op'[c].hits = [op[c].hits EXCEPT ![s] = None]
           /\ op'[c].got = op[c].got /\ op'[c].barred = op[c].barred
           /\ store' = store /\ rest' = rest
<1>1. Scrubs(c, s)
    BY DEF ScrubPass
<1>2. Plain(Subject(c, s))
    BY <1>1, SubjectPlain
<1>3. RegexScan(Subject(c, s).text) \notin Blocking
    BY PassIsClean DEF ScrubPass, Verdicts
<1>4. PICK label \in {"promote", "restoreVector", "promoteHit"} :
          Take(c, s, Subject(c, s), label)
    <2>1. CASE At(c, "scrubWarm")
        BY <2>1 DEF ScrubPass, At
    <2>2. CASE At(c, "scrubCold")
        BY <2>2 DEF ScrubPass, At
    <2>3. CASE ~At(c, "scrubWarm") /\ ~At(c, "scrubCold")
        BY <2>3 DEF ScrubPass
    <2> QED BY <2>1, <2>2, <2>3
<1>5. Subject(c, s) \in Copies \union {None} /\ label \in PCs
    BY <1>2, <1>4 DEF Plain, PCs
<1>6. op \in [Clients -> Op]
    BY DEF Inv, TypeInv
<1>7. /\ op' \in [Clients -> Op] /\ Others(c)
      /\ op'[c].pc = label /\ op'[c].sid = s /\ op'[c].obj = Subject(c, s)
      /\ op'[c].hits = [op[c].hits EXCEPT ![s] = None]
      /\ op'[c].got = op[c].got /\ op'[c].barred = op[c].barred
    BY <1>4, <1>5, <1>6, TakeFields
<1> QED BY <1>2, <1>3, <1>4, <1>7 DEF Clean, ScrubPass

\* ScrubBlock in full.
LEMMA BlockFields ==
    ASSUME Inv, NEW c \in Clients, NEW s \in Shards, ScrubBlock(c, s)
    PROVE  /\ op' \in [Clients -> Op] /\ Others(c)
           /\ op'[c].sid = s /\ op'[c].obj = None
           /\ op'[c].pc \in {"receipt", "receiptHit"}
           /\ op'[c].hits = [op[c].hits EXCEPT ![s] = None]
           /\ op'[c].got = op[c].got /\ op'[c].barred = op[c].barred
           /\ store' = store /\ quarantined' = quarantined \union {s}
           /\ puts' = puts /\ sole' = sole
<1>1. PICK label \in {"receipt", "receiptHit"} : Take(c, s, None, label)
    BY DEF ScrubBlock
<1>2. label \in PCs
    BY <1>1 DEF PCs
<1>3. op \in [Clients -> Op]
    BY DEF Inv, TypeInv
<1>4. /\ op' \in [Clients -> Op] /\ Others(c)
      /\ op'[c].pc = label /\ op'[c].sid = s /\ op'[c].obj = None
      /\ op'[c].hits = [op[c].hits EXCEPT ![s] = None]
      /\ op'[c].got = op[c].got /\ op'[c].barred = op[c].barred
    <2>1. None \in Copies \union {None}
        OBVIOUS
    <2> QED BY <1>1, <1>2, <1>3, <2>1, TakeFields
<1>5. UNCHANGED <<store, puts, sole>> /\ quarantined' = quarantined \union {s}
    BY DEF ScrubBlock
<1> QED BY <1>1, <1>4, <1>5

-----------------------------------------------------------------------------
\* A step of c that keeps the lower tiers plain keeps the invariant if it
\* leaves c in order.
LEMMA OneClient ==
    ASSUME Inv, NEW c \in Clients, op' \in [Clients -> Op], Others(c), LocalOK(op'[c]),
           store' \in [Tiers -> Slots], quarantined' \subseteq Shards, LowerPlain'
    PROVE  Inv'
BY DEF Inv, TypeInv, LocalsOK, Others

\* A step that leaves the stores alone.
LEMMA StoreSame == ASSUME Inv, store' = store PROVE store' \in [Tiers -> Slots] /\ LowerPlain'
BY DEF Inv, TypeInv, LowerPlain

\* A plain copy, or none, in one slot; anything in a slot of L1.
LEMMA SlotKeepsPlain ==
    ASSUME Inv, NEW tier \in Tiers, NEW s \in Shards, NEW copy \in Copies \union {None},
           store' = [store EXCEPT ![tier][s] = copy],
           tier = "L1" \/ copy = None \/ Plain(copy)
    PROVE  store' \in [Tiers -> Slots] /\ LowerPlain'
<1>1. SlotWritten(tier, s, copy)
    BY SlotFields DEF Inv, TypeInv
<1> QED BY <1>1 DEF SlotWritten, LowerPlain, Inv, Tiers

LEMMA InvInit == Init => Inv
<1> SUFFICES ASSUME Init PROVE Inv
    OBVIOUS
<1>1. Empty \in Slots
    BY DEF Empty, Slots
<1>2. Idle \in Op
    BY <1>1 DEF Idle, Op, PCs
<1>3. LocalOK(Idle)
    BY DEF Idle, LocalOK, Empty, Walking, Scrubbing, Lifting
<1> QED
    BY <1>1, <1>2, <1>3 DEF Init, Inv, TypeInv, LowerPlain, LocalsOK, Empty, Tiers

LEMMA ScrubStep ==
    ASSUME Inv, NEW c \in Clients, NEW s \in Shards,
           ScrubPass(c, s) \/ ScrubBlock(c, s) \/ ScrubAlert(c, s)
    PROVE  Inv'
<1>1. LocalOK(op[c]) /\ op[c].hits \in Slots
    BY DEF Inv, LocalsOK, TypeInv, Op
<1> USE DEF Walking, Scrubbing, Lifting
<1>2. CASE ScrubPass(c, s)
    <2>1. LocalOK(op'[c])
        BY <1>1, <1>2, PassFields DEF LocalOK, Slots
    <2>2. quarantined' \subseteq Shards
        BY <1>2 DEF ScrubPass, rest, guard, Inv, TypeInv
    <2> QED BY <1>2, <2>1, <2>2, PassFields, StoreSame, OneClient
<1>3. CASE ScrubBlock(c, s)
    <2>1. LocalOK(op'[c])
        BY <1>1, <1>3, BlockFields DEF LocalOK, Slots
    <2>2. quarantined' \subseteq Shards
        BY <1>3 DEF ScrubBlock, Inv, TypeInv
    <2> QED BY <1>3, <2>1, <2>2, BlockFields, StoreSame, OneClient
<1>4. CASE ScrubAlert(c, s)
    <2>1. op \in [Clients -> Op] /\ Leave(c) /\ store' = store
          /\ quarantined' = quarantined
        BY <1>4 DEF ScrubAlert, Inv, TypeInv
    <2>2. LocalOK(op'[c])
        BY <2>1, LeaveFields DEF LocalOK, Empty
    <2> QED BY <2>1, <2>2, LeaveFields, StoreSame, OneClient DEF Inv, TypeInv
<1> QED BY <1>2, <1>3, <1>4

-----------------------------------------------------------------------------
(* The other steps that take a shard up or let it go.                      *)

LEMMA SkipFields ==
    ASSUME Inv, NEW c \in Clients, NEW s \in Shards, SearchSkip(c, s)
    PROVE  /\ op' \in [Clients -> Op] /\ Others(c)
           /\ op'[c].pc = op[c].pc /\ op'[c].sid = op[c].sid /\ op'[c].obj = op[c].obj
           /\ op'[c].hits = [op[c].hits EXCEPT ![s] = None]
           /\ op'[c].got = op[c].got /\ op'[c].barred = op[c].barred
           /\ store' = store /\ rest' = rest
<1>1. op \in [Clients -> Op] /\ op[c].hits \in Slots
    BY DEF Inv, TypeInv, Op
<1> DEFINE hits == [op[c].hits EXCEPT ![s] = None]
<1>2. hits \in Slots
    BY <1>1 DEF Slots
<1>3. op' = [op EXCEPT ![c] = [op[c] EXCEPT !.hits = hits]]
    BY <1>1 DEF SearchSkip
<1> HIDE DEF hits
<1>4. /\ op' \in [Clients -> Op] /\ Others(c)
      /\ op'[c].pc = op[c].pc /\ op'[c].sid = op[c].sid /\ op'[c].obj = op[c].obj
      /\ op'[c].hits = hits
      /\ op'[c].got = op[c].got /\ op'[c].barred = op[c].barred
    BY <1>1, <1>2, <1>3 DEF Op, Others
<1> QED BY <1>4 DEF SearchSkip, hits

LEMMA AskFields ==
    ASSUME Inv, NEW c \in Clients, NEW s \in Shards, SearchAsk(c, s)
    PROVE  /\ op' \in [Clients -> Op] /\ Others(c)
           /\ op'[c].pc = "scrubHit" /\ op'[c].sid = s
           /\ op'[c].obj = op[c].hits[s] /\ Plain(op'[c].obj)
           /\ op'[c].hits = [op[c].hits EXCEPT ![s] = None]
           /\ op'[c].got = op[c].got /\ op'[c].barred = op[c].barred
           /\ op[c].hits[s] # None /\ s \notin quarantined
           /\ store' = store /\ rest' = rest
<1>1. op \in [Clients -> Op] /\ op[c].hits \in Slots
    BY DEF Inv, TypeInv, Op
<1>2. Plain(op[c].hits[s])
    BY DEF SearchAsk, NextHit, Inv, LocalsOK, LocalOK
<1> DEFINE hits == [op[c].hits EXCEPT ![s] = None]
           copy == op[c].hits[s]
<1>3. hits \in Slots /\ copy \in Copies \union {None} /\ "scrubHit" \in PCs
    BY <1>1, <1>2 DEF Slots, PCs
<1>4. op' = [op EXCEPT ![c] = [op[c] EXCEPT !.pc = "scrubHit", !.sid = s,
                                            !.obj = copy, !.hits = hits]]
    BY <1>1 DEF SearchAsk, Take, Op
<1> HIDE DEF hits, copy
<1>5. /\ op' \in [Clients -> Op] /\ Others(c)
      /\ op'[c].pc = "scrubHit" /\ op'[c].sid = s
      /\ op'[c].obj = copy /\ op'[c].hits = hits
      /\ op'[c].got = op[c].got /\ op'[c].barred = op[c].barred
    BY <1>1, <1>3, <1>4 DEF Op, Others
<1> QED BY <1>2, <1>5 DEF SearchAsk, NextHit, hits, copy

LEMMA HitFields ==
    ASSUME Inv, NEW c \in Clients, GetL2Hit(c) \/ GetL3Hit(c)
    PROVE  /\ op' \in [Clients -> Op] /\ Others(c)
           /\ op[c].pc \in Walking /\ op'[c].pc \in {"scrubWarm", "scrubCold"}
           /\ op[c].sid \in Shards /\ op'[c].sid = op[c].sid
           /\ Plain(op'[c].obj)
           /\ store["L2"][op[c].sid] # None \/ store["L3"][op[c].sid] # None
           /\ op'[c].hits = [op[c].hits EXCEPT ![op[c].sid] = None]
           /\ op'[c].got = op[c].got /\ op'[c].barred = op[c].barred
           /\ store' = store /\ rest' = rest
<1>1. PICK tier \in {"L2", "L3"}, label \in {"scrubWarm", "scrubCold"},
           here \in {"getL2", "getL3"} : Hit(c, here, tier, label)
    BY DEF GetL2Hit, GetL3Hit
<1>2. op \in [Clients -> Op] /\ op[c].hits \in Slots /\ op[c].sid \in Shards
    BY <1>1 DEF Hit, At, Inv, TypeInv, LocalsOK, LocalOK, Walking, Op
<1>3. Plain(store[tier][op[c].sid]) /\ store[tier][op[c].sid] # None
    BY <1>1, <1>2 DEF Hit, Inv, LowerPlain
<1> DEFINE hits == [op[c].hits EXCEPT ![op[c].sid] = None]
           copy == store[tier][op[c].sid]
<1>4. hits \in Slots /\ copy \in Copies \union {None} /\ label \in PCs
    BY <1>2, <1>3 DEF Slots, PCs, Plain
<1>5. op' = [op EXCEPT ![c] = [op[c] EXCEPT !.pc = label, !.sid = op[c].sid,
                                            !.obj = copy, !.hits = hits]]
    BY <1>1, <1>2 DEF Hit, Take, Op
<1> HIDE DEF hits, copy
<1>6. /\ op' \in [Clients -> Op] /\ Others(c)
      /\ op'[c].pc = label /\ op'[c].sid = op[c].sid
      /\ op'[c].obj = copy /\ op'[c].hits = hits
      /\ op'[c].got = op[c].got /\ op'[c].barred = op[c].barred
    BY <1>2, <1>4, <1>5 DEF Op, Others
<1>7. op[c].pc \in Walking /\ store' = store /\ rest' = rest
    BY <1>1 DEF Hit, At, Walking
<1>8. Plain(op'[c].obj)
    BY <1>3, <1>6 DEF copy
<1>9. store["L2"][op[c].sid] # None \/ store["L3"][op[c].sid] # None
    BY <1>1, <1>3
<1> QED BY <1>1, <1>2, <1>6, <1>7, <1>8, <1>9 DEF hits

LEMMA PromoteHitFields ==
    ASSUME Inv, NEW c \in Clients, PromoteHit(c)
    PROVE  /\ op' \in [Clients -> Op] /\ Others(c)
           /\ op'[c].pc = "search" /\ op'[c].sid = None /\ op'[c].obj = None
           /\ op'[c].hits = op[c].hits
           /\ op'[c].got = op[c].got \union {op[c].sid}
           /\ op'[c].barred = op[c].barred
           /\ op[c].pc \in Lifting /\ op[c].sid \in Shards /\ Clean(op[c].obj)
           /\ WriteTo("L1", c) /\ rest' = rest
<1>1. op \in [Clients -> Op] /\ op[c].sid \in Shards /\ Clean(op[c].obj)
    BY DEF PromoteHit, At, Inv, TypeInv, LocalsOK, LocalOK, Lifting
<1> DEFINE got == op[c].got \union {op[c].sid}
<1>2. op[c] \in Op /\ got \in SUBSET Shards
    BY <1>1 DEF Op
<1>3. op' = [op EXCEPT ![c] = [op[c] EXCEPT !.pc = "search", !.sid = None,
                                            !.obj = None, !.got = got]]
    BY <1>1 DEF PromoteHit, Op
<1> HIDE DEF got
<1>4. /\ op' \in [Clients -> Op] /\ Others(c)
      /\ op'[c].pc = "search" /\ op'[c].sid = None /\ op'[c].obj = None
      /\ op'[c].hits = op[c].hits /\ op'[c].got = got
      /\ op'[c].barred = op[c].barred
    BY <1>1, <1>2, <1>3 DEF Op, Others, PCs
<1> QED BY <1>1, <1>4 DEF PromoteHit, At, Lifting, got

-----------------------------------------------------------------------------
(* The steps of a call keep the invariant.                                 *)

LEMMA StepInv == ASSUME Inv, NEW c \in Clients, Step(c) PROVE Inv'
<1>1. op \in [Clients -> Op] /\ store \in [Tiers -> Slots] /\ op[c].hits \in Slots
    BY DEF Inv, TypeInv, Op
<1>2. LocalOK(op[c])
    BY DEF Inv, LocalsOK
<1>3. \A label \in {"return", "getL2", "getL3", "restoreCache", "restoreDelete",
                    "receipt"} : label \in PCs
    BY DEF PCs
<1>4. None \in Copies \union {None} /\ \A x : Clean(x) => Plain(x) /\ x \in Copies
    BY DEF Clean, Plain
<1> USE DEF Walking, Scrubbing, Lifting, At
<1>5. ASSUME NEW s \in Shards,
             ScrubPass(c, s) \/ ScrubBlock(c, s) \/ ScrubAlert(c, s)
      PROVE  Inv'
    BY <1>5, ScrubStep
<1>6. ASSUME NEW s \in Shards, SearchSkip(c, s) \/ SearchAsk(c, s) PROVE Inv'
    <2>1. /\ op' \in [Clients -> Op] /\ Others(c)
          /\ op'[c].hits = [op[c].hits EXCEPT ![s] = None]
          /\ store' = store /\ quarantined' = quarantined
        BY <1>6, SkipFields, AskFields DEF rest, guard
    <2>2. LocalOK(op'[c])
        <3> DEFINE left == [op[c].hits EXCEPT ![s] = None]
        <3>1. left = [u \in Shards |-> IF u = s THEN None ELSE op[c].hits[u]]
            BY <1>1 DEF Slots
        <3>2. CASE SearchSkip(c, s)
            BY <1>1, <1>2, <3>1, <3>2, SkipFields DEF LocalOK
        <3>3. CASE SearchAsk(c, s)
            BY <1>1, <1>2, <3>1, <3>3, AskFields DEF LocalOK
        <3> QED BY <1>6, <3>2, <3>3
    <2> QED BY <2>1, <2>2, StoreSame, OneClient DEF Inv, TypeInv
<1>8. ASSUME GetL1Hit(c) PROVE Inv'
    <2>1. Deliver(c) /\ store' = store /\ quarantined' = quarantined
        BY <1>8 DEF GetL1Hit, rest, guard
    <2>2. op[c].sid \in Shards
        BY <1>2, <1>8 DEF GetL1Hit, LocalOK
    <2>3. op' \in [Clients -> Op] /\ Others(c) /\ LocalOK(op'[c])
        BY <1>1, <1>2, <2>1, <2>2, DeliverFields DEF LocalOK
    <2> QED BY <2>1, <2>3, StoreSame, OneClient DEF Inv, TypeInv
<1>9. ASSUME GetL1Miss(c) \/ GetL2Miss(c) \/ GetL3Miss(c) PROVE Inv'
    <2>1. PICK label \in {"return", "getL2", "getL3"} : Goto(c, label)
        BY <1>9 DEF GetL1Miss, GetL2Miss, GetL3Miss, Miss
    <2>2. store' = store /\ quarantined' = quarantined /\ op[c].sid \in Shards
        BY <1>2, <1>9 DEF GetL1Miss, GetL2Miss, GetL3Miss, Miss, rest, guard, LocalOK
    <2>3. op' \in [Clients -> Op] /\ Others(c) /\ LocalOK(op'[c])
        BY <1>1, <1>2, <1>3, <2>1, <2>2, GotoFields DEF LocalOK
    <2> QED BY <2>2, <2>3, StoreSame, OneClient DEF Inv, TypeInv
<1>10. ASSUME GetL2Hit(c) \/ GetL3Hit(c) PROVE Inv'
    <2>1. LocalOK(op'[c])
        BY <1>1, <1>2, <1>10, HitFields DEF LocalOK, Slots
    <2> QED BY <1>10, <2>1, HitFields, StoreSame, OneClient DEF Inv, TypeInv, rest, guard
<1>12. ASSUME Promote(c) \/ RestoreDelete(c) PROVE Inv'
    <2>1. op[c].sid \in Shards /\ Clean(op[c].obj) /\ Deliver(c)
          /\ quarantined' = quarantined
        BY <1>2, <1>12 DEF Promote, RestoreDelete, LocalOK, rest, guard
    <2>2. store' \in [Tiers -> Slots] /\ LowerPlain'
        <3>1. CASE Promote(c)
            BY <1>4, <2>1, <3>1, SlotKeepsPlain DEF Promote, WriteTo, Tiers
        <3>2. CASE RestoreDelete(c)
            BY <1>4, <2>1, <3>2, SlotKeepsPlain DEF RestoreDelete, Tiers
        <3> QED BY <1>12, <3>1, <3>2
    <2>3. op' \in [Clients -> Op] /\ Others(c) /\ LocalOK(op'[c])
        BY <1>1, <1>2, <2>1, DeliverFields DEF LocalOK
    <2> QED BY <2>1, <2>2, <2>3, OneClient DEF Inv, TypeInv
<1>13. ASSUME RestoreVector(c) \/ RestoreCache(c) \/ PutVector(c) PROVE Inv'
    <2>1. PICK label \in {"restoreCache", "restoreDelete", "receipt"} :
              Goto(c, label) /\ (label # "receipt" => Clean(op[c].obj))
        BY <1>2, <1>13 DEF RestoreVector, RestoreCache, PutVector, LocalOK
    <2>2. op[c].sid \in Shards /\ Plain(op[c].obj) /\ op[c].obj \in Copies \union {None}
          /\ quarantined' = quarantined
        BY <1>2, <1>4, <1>13
           DEF RestoreVector, RestoreCache, PutVector, LocalOK, rest, guard, Plain
    <2>3. PICK tier \in Tiers : store' = [store EXCEPT ![tier][op[c].sid] = op[c].obj]
        BY <1>13 DEF RestoreVector, RestoreCache, PutVector, WriteTo, Tiers
    <2>4. store' \in [Tiers -> Slots] /\ LowerPlain'
        BY <2>2, <2>3, SlotKeepsPlain
    <2>5. op' \in [Clients -> Op] /\ Others(c) /\ LocalOK(op'[c])
        BY <1>1, <1>2, <1>3, <2>1, <2>2, GotoFields DEF LocalOK
    <2> QED BY <2>2, <2>4, <2>5, OneClient DEF Inv, TypeInv
<1>14. ASSUME PromoteHit(c) PROVE Inv'
    <2>1. store' \in [Tiers -> Slots] /\ LowerPlain'
        BY <1>4, <1>14, PromoteHitFields, SlotKeepsPlain DEF WriteTo, Tiers
    <2>2. LocalOK(op'[c])
        BY <1>2, <1>14, PromoteHitFields DEF LocalOK
    <2> QED BY <1>14, <2>1, <2>2, PromoteHitFields, OneClient DEF Inv, TypeInv, rest, guard
<1>15. ASSUME SearchEnd(c) PROVE Inv'
    <2>1. Goto(c, "return") /\ store' = store /\ quarantined' = quarantined
        BY <1>15 DEF SearchEnd, rest, guard
    <2>2. op' \in [Clients -> Op] /\ Others(c) /\ LocalOK(op'[c])
        BY <1>1, <1>2, <1>3, <2>1, GotoFields DEF LocalOK
    <2> QED BY <2>1, <2>2, StoreSame, OneClient DEF Inv, TypeInv
<1>16. ASSUME Receipt(c) \/ Return(c) PROVE Inv'
    <2>1. Leave(c) /\ store' = store /\ quarantined' = quarantined
        BY <1>16 DEF Receipt, Return, rest, guard
    <2>2. op' \in [Clients -> Op] /\ Others(c) /\ LocalOK(op'[c])
        BY <1>1, <2>1, LeaveFields DEF LocalOK, Empty
    <2> QED BY <2>1, <2>2, StoreSame, OneClient DEF Inv, TypeInv
<1>17. ASSUME ReceiptHit(c) PROVE Inv'
    <2>1. /\ op' = [op EXCEPT ![c].pc = "search", ![c].sid = None]
          /\ store' = store /\ quarantined' = quarantined
        BY <1>17 DEF ReceiptHit, rest, guard
    <2>2. op' \in [Clients -> Op] /\ Others(c)
        <3>1. "search" \in PCs /\ op[c] \in Op
            BY <1>1 DEF PCs
        <3> QED BY <1>1, <2>1, <3>1 DEF Op, Others
    <2>3. /\ op'[c].pc = "search" /\ op'[c].sid = None
          /\ op'[c].obj = op[c].obj /\ op'[c].hits = op[c].hits
          /\ op'[c].got = op[c].got /\ op'[c].barred = op[c].barred
        BY <1>1, <2>1 DEF Op
    <2>4. LocalOK(op'[c])
        BY <1>2, <1>17, <2>3 DEF LocalOK, ReceiptHit
    <2> QED BY <2>1, <2>2, <2>4, StoreSame, OneClient DEF Inv, TypeInv
<1> QED
    BY <1>5, <1>6, <1>8, <1>9, <1>10, <1>12, <1>13, <1>14, <1>15, <1>16, <1>17
       DEF Step
-----------------------------------------------------------------------------
(* What the steps of a call leave alone.                                   *)

Blocked ==
    /\ ~Spike
    /\ stamps' = Append(Recent, 0) /\ streak' = Append(streak, 0)

Alerted == Spike /\ stamps' = <<>> /\ streak' = <<>>

\* Only a blocking scrub moves the window, and no step of a call the counters or
\* the batches.
LEMMA StepWindow ==
    ASSUME NEW c \in Clients, Step(c)
    PROVE  /\ UNCHANGED <<batch, puts, faults, sole>>
           /\ UNCHANGED <<stamps, streak>> \/ Blocked \/ Alerted
<1> USE DEF rest, guard
<1>1. ASSUME NEW s \in Shards, ScrubPass(c, s) PROVE UNCHANGED rest
    BY <1>1 DEF ScrubPass
<1>2. ASSUME NEW s \in Shards, ScrubBlock(c, s)
      PROVE  UNCHANGED <<batch, puts, faults, sole>> /\ Blocked
    BY <1>2 DEF ScrubBlock, Blocked
<1>3. ASSUME NEW s \in Shards, ScrubAlert(c, s)
      PROVE  UNCHANGED <<batch, puts, faults, sole>> /\ Alerted
    BY <1>3 DEF ScrubAlert, Alerted
<1>4. ASSUME NEW s \in Shards, SearchSkip(c, s) \/ SearchAsk(c, s)
      PROVE  UNCHANGED rest
    BY <1>4 DEF SearchSkip, SearchAsk
<1>5. CASE \/ GetL1Hit(c) \/ GetL1Miss(c) \/ GetL2Hit(c) \/ GetL2Miss(c)
           \/ GetL3Hit(c) \/ GetL3Miss(c)
    <2>1. UNCHANGED rest
        BY <1>5 DEF GetL1Hit, GetL1Miss, GetL2Hit, GetL2Miss, GetL3Hit, GetL3Miss,
                    Hit, Miss
    <2> QED BY <2>1
<1>6. CASE \/ Promote(c) \/ RestoreVector(c) \/ RestoreCache(c) \/ RestoreDelete(c)
           \/ PromoteHit(c) \/ SearchEnd(c) \/ PutVector(c) \/ Receipt(c)
           \/ ReceiptHit(c) \/ Return(c)
    <2>1. UNCHANGED rest
        BY <1>6 DEF Promote, RestoreVector, RestoreCache, RestoreDelete, PromoteHit,
                    SearchEnd, PutVector, Receipt, ReceiptHit, Return
    <2> QED BY <2>1
<1> QED BY <1>1, <1>2, <1>3, <1>4, <1>5, <1>6 DEF Step

LEMMA CallBatch == ASSUME NEW c \in Clients, Call(c) PROVE batch' = batch
BY DEF Call, GetBarred, GetBegin, SearchBegin, Put, Install, Write, vars, rest

-----------------------------------------------------------------------------
(* Calls, the environment, and the invariant.                              *)

\* A call that finds the shard's id, or what L2 answered, in its arguments.
LEMMA CallInv == ASSUME Inv, NEW c \in Clients, Call(c) PROVE Inv'
<1>1. op \in [Clients -> Op] /\ store \in [Tiers -> Slots] /\ quarantined \subseteq Shards
    BY DEF Inv, TypeInv
<1> USE DEF Walking, Scrubbing, Lifting
<1>2. ASSUME NEW s \in Shards, GetBarred(c, s) PROVE Inv'
    BY <1>2 DEF GetBarred, vars, Inv, TypeInv, LowerPlain, LocalsOK, LocalOK
<1>3. ASSUME NEW s \in Shards, GetBegin(c, s) PROVE Inv'
    <2> DEFINE new == Entered(c, s, "getL1")
    <2>1. new \in Op /\ LocalOK(new)
        BY <1>1, EnteredFields DEF LocalOK, Empty, PCs
    <2>2. op' = [op EXCEPT ![c] = new] /\ store' = store /\ quarantined' = quarantined
        BY <1>3 DEF GetBegin, rest, guard
    <2> HIDE DEF new
    <2>3. op' \in [Clients -> Op] /\ Others(c) /\ LocalOK(op'[c])
        BY <1>1, <2>1, <2>2 DEF Others
    <2> QED BY <1>1, <2>2, <2>3, StoreSame, OneClient
<1>4. ASSUME NEW s \in Shards, NEW copy \in Copies, NEW next \in {"putVector", "receipt"},
             Write(c, s, copy, next), next = "putVector" => ~copy.core
      PROVE  Inv'
    <2> DEFINE new == [Entered(c, s, next) EXCEPT !.obj = copy]
    <2>1. Entered(c, s, next) \in Op /\ Entered(c, s, next).sid = s
          /\ Entered(c, s, next).pc = next /\ Entered(c, s, next).hits = Empty
        BY <1>1, EnteredFields DEF PCs
    <2>2. new \in Op /\ LocalOK(new)
        BY <1>4, <2>1 DEF Op, LocalOK, Empty, Plain
    <2>3. /\ op' = [op EXCEPT ![c] = new] /\ quarantined' = quarantined
          /\ store' = [store EXCEPT !["L1"][s] = copy]
        BY <1>4 DEF Write, guard
    <2> HIDE DEF new
    <2>4. op' \in [Clients -> Op] /\ Others(c) /\ LocalOK(op'[c])
        BY <1>1, <2>2, <2>3 DEF Others
    <2>5. store' \in [Tiers -> Slots] /\ LowerPlain'
        BY <2>3, SlotKeepsPlain DEF Tiers
    <2> QED BY <1>1, <2>3, <2>4, <2>5, OneClient
<1>5. ASSUME NEW s \in Shards, NEW text \in Contents, Put(c, s, text) PROVE Inv'
    <2>1. [text |-> text, core |-> FALSE] \in Copies
        BY DEF Copies
    <2> QED BY <1>4, <1>5, <2>1 DEF Put
<1>6. ASSUME NEW s \in Shards, NEW text \in Contents, Install(c, s, text) PROVE Inv'
    <2>1. [text |-> text, core |-> TRUE] \in Copies
        BY DEF Copies
    <2> QED BY <1>4, <1>6, <2>1 DEF Install
<1>7. ASSUME SearchBegin(c) PROVE Inv'
    <2>1. PICK found \in SUBSET {s \in Shards : store["L2"][s] # None} :
              op' = [op EXCEPT ![c] =
                  [Entered(c, None, "search") EXCEPT !.hits =
                      [s \in Shards |-> IF s \in found THEN store["L2"][s] ELSE None]]]
        BY <1>7 DEF SearchBegin
    <2> DEFINE hits == [s \in Shards |-> IF s \in found THEN store["L2"][s] ELSE None]
               new  == [Entered(c, None, "search") EXCEPT !.hits = hits]
    <2>2. hits \in Slots
        BY <1>1 DEF Slots, Tiers
    <2>3. \A s \in Shards : hits[s] # None => Plain(hits[s])
        BY DEF Inv, LowerPlain
    <2>4. op' = [op EXCEPT ![c] = new] /\ store' = store /\ quarantined' = quarantined
        BY <1>7, <2>1 DEF SearchBegin, rest, guard
    <2>5. Entered(c, None, "search") \in Op /\ Entered(c, None, "search").pc = "search"
        BY <1>1, EnteredFields DEF PCs
    <2> HIDE DEF hits
    <2>6. new \in Op /\ LocalOK(new)
        BY <2>2, <2>3, <2>5 DEF Op, LocalOK
    <2> HIDE DEF new
    <2>7. op' \in [Clients -> Op] /\ Others(c) /\ LocalOK(op'[c])
        BY <1>1, <2>4, <2>6 DEF Others
    <2> QED BY <1>1, <2>4, <2>7, StoreSame, OneClient
<1> QED BY <1>2, <1>3, <1>5, <1>6, <1>7 DEF Call

\* What the demotion at p does: it writes the slots of its shard only, and
\* empties that of L1; it takes up a shard of which the scan read a plain copy.
Demotes(p) ==
    /\ \A q \in Places \ {p} : batch'[q] = batch[q]
    /\ \A tier \in Tiers, s \in Shards :
          store'[tier][s] # store[tier][s] =>
              s = batch[p].sid /\ (tier = "L1" => store'[tier][s] = None)
    /\ \A s \in Shards : batch'[p].sid = s =>
          \/ batch[p].sid = s
          \/ store["L1"][s] # None /\ ~store["L1"][s].core
          \/ store["L2"][s] # None
    /\ UNCHANGED <<op, guard, puts, faults, sole>>

\* One slot of its shard is written, and the demotion goes on.
LEMMA PrunedFields ==
    ASSUME Inv, BatchInv, NEW p \in Places, NEW tier \in Tiers,
           NEW copy \in Copies \union {None}, NEW next \in Demotion,
           Pruned(p, tier, copy, next), batch[p].sid \in Shards,
           tier = "L1" => copy = None, copy # None => Plain(copy),
           DemotionOK(next), next.sid \in {None, batch[p].sid}
    PROVE  Demotes(p) /\ BatchInv' /\ store' \in [Tiers -> Slots] /\ LowerPlain'
<1>1. /\ store' = [store EXCEPT ![tier][batch[p].sid] = copy]
      /\ batch' = [batch EXCEPT ![p] = next]
      /\ UNCHANGED <<op, guard, puts, faults, sole>>
    BY DEF Pruned
<1>2. SlotWritten(tier, batch[p].sid, copy)
    BY <1>1, SlotFields DEF Inv, TypeInv
<1>3. store' \in [Tiers -> Slots] /\ LowerPlain'
    BY <1>1, SlotKeepsPlain
<1>4. BatchInv' /\ batch'[p] = next /\ \A q \in Places \ {p} : batch'[q] = batch[q]
    BY <1>1 DEF BatchInv
<1> QED BY <1>1, <1>2, <1>3, <1>4, NoneAssumption DEF Demotes, SlotWritten

\* The batch at p changes and the tiers do not.
LEMMA DueFields ==
    ASSUME Inv, BatchInv, NEW p \in Places, NEW next,
           batch' = [batch EXCEPT ![p] = next], DemotionOK(next),
           UNCHANGED <<store, op, guard, puts, faults, sole>>,
           \A s \in Shards : next.sid = s =>
               \/ store["L1"][s] # None /\ ~store["L1"][s].core
               \/ store["L2"][s] # None
    PROVE  Demotes(p) /\ BatchInv' /\ store' \in [Tiers -> Slots] /\ LowerPlain'
<1>1. BatchInv' /\ batch'[p] = next /\ \A q \in Places \ {p} : batch'[q] = batch[q]
    BY DEF BatchInv, DemotionOK
<1> QED BY <1>1, StoreSame DEF Demotes

LEMMA PruneFields ==
    ASSUME Inv, BatchInv, NEW p \in Places, Prune(p)
    PROVE  Demotes(p) /\ BatchInv' /\ store' \in [Tiers -> Slots] /\ LowerPlain'
<1> DEFINE Goal == /\ Demotes(p) /\ BatchInv'
                   /\ store' \in [Tiers -> Slots] /\ LowerPlain'
<1>1. DemotionOK(NoDemotion) /\ NoDemotion \in Demotion /\ NoDemotion.sid = None
    BY DEF DemotionOK, NoDemotion, Demotion
<1>2. batch[p] \in Demotion /\ DemotionOK(batch[p])
    BY DEF BatchInv
<1>3. None \in Copies \union {None} /\ {"L1", "L2", "L3"} \subseteq Tiers
    BY DEF Tiers
<1>4. ASSUME NEW s \in Shards, ScanL1(p, s) PROVE Goal
    <2> DEFINE next == [pc |-> "demote", sid |-> s, obj |-> None]
    <2>1. DemotionOK(next) /\ next.sid = s
        BY DEF DemotionOK, Demotion
    <2>2. batch' = [batch EXCEPT ![p] = next]
        BY <1>4 DEF ScanL1, Due
    <2> HIDE DEF next
    <2> QED BY <1>4, <2>1, <2>2, DueFields DEF ScanL1, Due
<1>5. ASSUME NEW s \in Shards, ScanL2(p, s) PROVE Goal
    <2> DEFINE next == [pc |-> "archive", sid |-> s, obj |-> store["L2"][s]]
    <2>1. Plain(store["L2"][s]) /\ store["L2"][s] # None
        BY <1>5 DEF ScanL2, Inv, LowerPlain
    <2>2. DemotionOK(next) /\ next.sid = s
        BY <2>1 DEF DemotionOK, Demotion, Plain
    <2>3. batch' = [batch EXCEPT ![p] = next]
        BY <1>5 DEF ScanL2, Due
    <2> HIDE DEF next
    <2> QED BY <1>5, <2>1, <2>2, <2>3, DueFields DEF ScanL2, Due
<1>6. CASE DemoteL1(p) \/ CacheDelete(p)
    <2>1. Pruned(p, "L1", None, NoDemotion) /\ batch[p].sid \in Shards
        BY <1>2, <1>6 DEF DemoteL1, CacheDelete, DemotionOK
    <2> QED BY <1>1, <1>3, <2>1, PrunedFields
<1>7. CASE ArchivePut(p)
    <2> DEFINE next == [batch[p] EXCEPT !.pc = "vectorDelete"]
    <2>1. /\ Pruned(p, "L3", batch[p].obj, next) /\ batch[p].sid \in Shards
          /\ Plain(batch[p].obj)
        BY <1>2, <1>7 DEF ArchivePut, DemotionOK
    <2>2. next \in Demotion /\ DemotionOK(next) /\ next.sid = batch[p].sid
        BY <1>2, <2>1 DEF DemotionOK, Demotion
    <2>3. batch[p].obj \in Copies \union {None}
        BY <2>1 DEF Plain
    <2> HIDE DEF next
    <2> QED BY <1>3, <2>1, <2>2, <2>3, PrunedFields
<1>8. CASE VectorDelete(p)
    <2> DEFINE next == [batch[p] EXCEPT !.pc = "cacheDelete"]
    <2>1. Pruned(p, "L2", None, next) /\ batch[p].sid \in Shards
        BY <1>2, <1>8 DEF VectorDelete, DemotionOK
    <2>2. next \in Demotion /\ DemotionOK(next) /\ next.sid = batch[p].sid
        BY <1>2, <2>1 DEF DemotionOK, Demotion
    <2> HIDE DEF next
    <2> QED BY <1>3, <2>1, <2>2, PrunedFields
<1>9. CASE Spare(p)
    BY <1>1, <1>9, DueFields, NoneAssumption DEF Spare
<1> QED BY <1>4, <1>5, <1>6, <1>7, <1>8, <1>9 DEF Prune

\* L1 lets go of one copy.
LEMMA DropFields ==
    ASSUME Inv, NEW s \in Shards, Drop(s)
    PROVE  /\ SlotWritten("L1", s, None) /\ LowerPlain'
           /\ store["L1"][s] # None /\ ~store["L1"][s].core
           /\ op' = op /\ rest' = rest
<1>1. SlotWritten("L1", s, None)
    BY SlotFields DEF Drop, Inv, TypeInv, Tiers
<1>2. LowerPlain'
    BY SlotKeepsPlain DEF Drop, Tiers
<1> QED BY <1>1, <1>2 DEF Drop

LEMMA EnvInv ==
    ASSUME Inv, BatchInv,
           \/ \E p \in Places : Prune(p)
           \/ \E s \in Shards : Drop(s)
           \/ Tick
           \/ Restart
    PROVE  Inv' /\ BatchInv'
<1>0. batch' = batch => BatchInv'
    BY DEF BatchInv
<1>1. CASE \E s \in Shards : Drop(s)
    <2>1. PICK s \in Shards : Drop(s)
        BY <1>1
    <2>2. /\ store' \in [Tiers -> Slots] /\ LowerPlain'
          /\ op' = op /\ quarantined' = quarantined /\ batch' = batch
        BY <2>1, DropFields DEF SlotWritten, rest, guard
    <2> QED BY <1>0, <2>2 DEF Inv, TypeInv, LocalsOK
<1>4. CASE \E p \in Places : Prune(p)
    <2>1. PICK p \in Places : Prune(p)
        BY <1>4
    <2>2. op' = op /\ quarantined' = quarantined
        BY <2>1, PruneFields DEF Demotes, guard
    <2> QED BY <2>1, <2>2, PruneFields DEF Inv, TypeInv, LocalsOK
<1>2. CASE Tick
    BY <1>0, <1>2 DEF Tick, Inv, TypeInv, LowerPlain, LocalsOK
<1>3. CASE Restart
    <2>1. Idle \in Op /\ LocalOK(Idle)
        BY DEF Idle, Op, PCs, Empty, Slots, LocalOK, Walking, Scrubbing, Lifting
    <2>2. op' \in [Clients -> Op] /\ LocalsOK'
        BY <1>3, <2>1 DEF Restart, LocalsOK
    <2>3. store' = store /\ quarantined' = {} /\ batch' = batch
        BY <1>3 DEF Restart
    <2>4. store' \in [Tiers -> Slots] /\ LowerPlain'
        BY <2>3, StoreSame
    <2> QED BY <1>0, <2>2, <2>3, <2>4 DEF Inv, TypeInv
<1> QED BY <1>1, <1>2, <1>3, <1>4

LEMMA FaultInv == ASSUME Inv, NEW c \in Clients, ClientFault(c) PROVE Inv'
<1>1. op \in [Clients -> Op] /\ Leave(c) /\ store' = store /\ quarantined' = quarantined
    BY DEF ClientFault, guard, Inv, TypeInv
<1>2. op' \in [Clients -> Op] /\ Others(c) /\ LocalOK(op'[c])
    BY <1>1, LeaveFields DEF LocalOK, Empty, Walking, Scrubbing, Lifting
<1> QED BY <1>1, <1>2, StoreSame, OneClient DEF Inv, TypeInv

\* The batches at the start.
LEMMA BatchInit == Init => BatchInv
BY DEF Init, BatchInv, DemotionOK, NoDemotion, Demotion

LEMMA InvStep == Inv /\ BatchInv /\ [Next]_vars => Inv' /\ BatchInv'
<1> SUFFICES ASSUME Inv, BatchInv, [Next]_vars PROVE Inv' /\ BatchInv'
    OBVIOUS
<1>0. batch' = batch => BatchInv'
    BY DEF BatchInv
<1>1. CASE UNCHANGED vars
    BY <1>0, <1>1 DEF vars, Inv, TypeInv, LowerPlain, LocalsOK
<1>2. ASSUME NEW c \in Clients, Call(c) \/ Step(c) \/ ClientFault(c)
      PROVE  Inv' /\ BatchInv'
    <2>1. batch' = batch
        BY <1>2, CallBatch, StepWindow DEF ClientFault
    <2> QED BY <1>0, <1>2, <2>1, CallInv, StepInv, FaultInv
<1>3. CASE Next
    BY <1>2, <1>3, EnvInv DEF Next
<1> QED BY <1>1, <1>3
-----------------------------------------------------------------------------
(* What a step of a call may do, as far as the three theorems are concerned. *)

Reading == Walking \union Scrubbing \union Lifting

\* It goes on reading the id it read, or takes up one that is not quarantined,
\* and returns no id but the one it is reading.
ReadsOn(c) ==
    /\ op'[c].barred \in {op[c].barred, {}}
    /\ \A s \in op'[c].got :
          s \in op[c].got \/ (op[c].pc \in Reading /\ s = op[c].sid)
    /\ op'[c].pc \in Reading =>
          \/ op[c].pc \in Reading /\ op'[c].sid = op[c].sid
          \/ op'[c].sid \notin quarantined
    /\ quarantined \subseteq quarantined'

\* It keeps the copies it has, or takes one from its hits or a lower tier.
Carries(c) ==
    /\ \A s \in Shards : op'[c].hits[s] \in {None, op[c].hits[s]}
    /\ op'[c].obj # None =>
          \/ op[c].obj # None /\ op[c].pc # "receipt"
                /\ op'[c].sid \in {op[c].sid, None}
          \/ op[c].hits[op'[c].sid] # None
          \/ store["L2"][op'[c].sid] # None
          \/ store["L3"][op'[c].sid] # None
    /\ sole' = sole

\* A slot that it changes is that of the shard whose copy it holds; what it
\* writes to L1 was scrubbed.
Writes(c) ==
    \A tier \in Tiers, s \in Shards :
        store'[tier][s] # store[tier][s] =>
            /\ s = op[c].sid /\ op[c].obj # None /\ op[c].pc # "receipt"
            /\ tier = "L1" => Clean(store'[tier][s])

StepShape(c) == Others(c) /\ ReadsOn(c) /\ Carries(c) /\ Writes(c)

\* One slot written with a copy that was scrubbed, or in a lower tier.
LEMMA WritesSlot ==
    ASSUME Inv, NEW c \in Clients, NEW tier \in Tiers,
           NEW copy \in Copies \union {None}, op[c].sid \in Shards,
           op[c].obj # None, op[c].pc # "receipt", tier = "L1" => Clean(copy),
           store' = [store EXCEPT ![tier][op[c].sid] = copy]
    PROVE  Writes(c)
<1>1. SlotWritten(tier, op[c].sid, copy)
    BY SlotFields DEF Inv, TypeInv
<1> QED BY <1>1 DEF SlotWritten, Writes

LEMMA StepShapes == ASSUME Inv, NEW c \in Clients, Step(c) PROVE StepShape(c)
<1>1. op \in [Clients -> Op] /\ op[c].hits \in Slots /\ LocalOK(op[c])
    BY DEF Inv, TypeInv, Op, LocalsOK
<1>2. \A x : Plain(x) => x # None /\ x \in Copies
    BY NoneAssumption DEF Plain
<1>3. store' = store => Writes(c)
    BY DEF Writes
<1> USE DEF Reading, Walking, Scrubbing, Lifting
<1>4. ASSUME NEW s \in Shards,
             ScrubPass(c, s) \/ ScrubBlock(c, s) \/ ScrubAlert(c, s)
      PROVE  StepShape(c)
    <2>1. CASE ScrubPass(c, s)
        <3>1. \/ op[c].pc \in Scrubbing /\ s = op[c].sid /\ op[c].obj # None
              \/ op[c].hits[s] # None /\ s \notin quarantined
            BY <1>1, <1>2, <2>1 DEF ScrubPass, Scrubs, NextHit, LocalOK
        <3>2. Carries(c)
            BY <1>1, <2>1, <3>1, PassFields DEF Carries, Slots, rest
        <3>3. ReadsOn(c)
            BY <2>1, <3>1, PassFields DEF ReadsOn, rest, guard
        <3> QED BY <1>3, <2>1, <3>2, <3>3, PassFields DEF StepShape
    <2>2. CASE ScrubBlock(c, s)
        <3>1. Carries(c)
            BY <1>1, <2>2, BlockFields DEF Carries, Slots
        <3>2. ReadsOn(c)
            BY <2>2, BlockFields DEF ReadsOn
        <3> QED BY <1>3, <2>2, <3>1, <3>2, BlockFields DEF StepShape
    <2>3. CASE ScrubAlert(c, s)
        <3>1. Leave(c) /\ UNCHANGED <<store, quarantined, sole>>
            BY <2>3 DEF ScrubAlert
        <3> QED BY <1>1, <1>3, <3>1, LeaveFields
                DEF StepShape, Carries, ReadsOn, Empty
    <2> QED BY <1>4, <2>1, <2>2, <2>3
<1>5. ASSUME NEW s \in Shards, SearchSkip(c, s) PROVE StepShape(c)
    <2>1. At(c, "search")
        BY <1>5 DEF SearchSkip
    <2>2. \A u \in Shards : op'[c].hits[u] \in {None, op[c].hits[u]}
        <3>1. op'[c].hits = [op[c].hits EXCEPT ![s] = None]
            BY <1>5, SkipFields
        <3> QED BY <1>1, <3>1 DEF Slots
    <2>3. sole' = sole /\ quarantined' = quarantined /\ store' = store
        BY <1>5, SkipFields DEF rest, guard
    <2>4. Carries(c)
        BY <1>5, <2>1, <2>2, <2>3, SkipFields DEF Carries, At
    <2>5. ReadsOn(c)
        BY <1>5, <2>1, <2>3, SkipFields DEF ReadsOn, At
    <2> QED BY <1>3, <1>5, <2>3, <2>4, <2>5, SkipFields DEF StepShape
<1>6. ASSUME NEW s \in Shards, SearchAsk(c, s) PROVE StepShape(c)
    <2>1. At(c, "search")
        BY <1>6 DEF SearchAsk, NextHit
    <2>2. \A u \in Shards : op'[c].hits[u] \in {None, op[c].hits[u]}
        <3>1. op'[c].hits = [op[c].hits EXCEPT ![s] = None]
            BY <1>6, AskFields
        <3> QED BY <1>1, <3>1 DEF Slots
    <2>3. sole' = sole /\ quarantined' = quarantined /\ store' = store
        BY <1>6, AskFields DEF rest, guard
    <2>4. Carries(c)
        BY <1>6, <2>1, <2>2, <2>3, AskFields DEF Carries, At
    <2>5. ReadsOn(c)
        BY <1>6, <2>1, <2>3, AskFields DEF ReadsOn, At
    <2> QED BY <1>3, <1>6, <2>3, <2>4, <2>5, AskFields DEF StepShape
<1>7. ASSUME GetL1Hit(c) PROVE StepShape(c)
    <2>1. /\ Deliver(c) /\ UNCHANGED <<store, quarantined, sole>>
          /\ op[c].pc = "getL1" /\ op[c].sid \in Shards
        BY <1>1, <1>7 DEF GetL1Hit, rest, guard, LocalOK, At
    <2> QED BY <1>1, <1>3, <2>1, DeliverFields DEF StepShape, Carries, ReadsOn
<1>8. ASSUME GetL1Miss(c) \/ GetL2Miss(c) \/ GetL3Miss(c) \/ SearchEnd(c)
      PROVE  StepShape(c)
    <2>1. PICK label \in {"return", "getL2", "getL3"} :
              Goto(c, label) /\ (label # "return" => op[c].pc \in Walking)
        BY <1>8 DEF GetL1Miss, GetL2Miss, GetL3Miss, Miss, SearchEnd, At
    <2>2. UNCHANGED <<store, quarantined, sole>> /\ op[c].pc # "receipt"
        BY <1>8 DEF GetL1Miss, GetL2Miss, GetL3Miss, Miss, SearchEnd, rest, guard, At
    <2>3. label \in PCs
        BY DEF PCs
    <2> QED BY <1>1, <1>3, <2>1, <2>2, <2>3, GotoFields
            DEF StepShape, Carries, ReadsOn
<1>9. ASSUME GetL2Hit(c) \/ GetL3Hit(c) PROVE StepShape(c)
    BY <1>1, <1>3, <1>9, HitFields
       DEF StepShape, Carries, ReadsOn, Slots, rest, guard
<1>10. ASSUME Promote(c) \/ RestoreDelete(c) PROVE StepShape(c)
    <2>1. /\ op[c].pc \in Lifting /\ op[c].sid \in Shards /\ Clean(op[c].obj)
          /\ Deliver(c) /\ UNCHANGED <<quarantined, sole>>
        BY <1>1, <1>10 DEF Promote, RestoreDelete, LocalOK, rest, guard, At
    <2>2. op[c].obj # None /\ op[c].obj \in Copies \union {None}
        BY <1>2, <2>1 DEF Clean
    <2>3. Writes(c)
        <3>1. CASE Promote(c)
            BY <2>1, <2>2, <3>1, WritesSlot DEF Promote, WriteTo, Tiers
        <3>2. CASE RestoreDelete(c)
            BY <2>1, <2>2, <3>2, WritesSlot DEF RestoreDelete, Tiers
        <3> QED BY <1>10, <3>1, <3>2
    <2> QED BY <1>1, <2>1, <2>2, <2>3, DeliverFields DEF StepShape, Carries, ReadsOn
<1>11. ASSUME RestoreVector(c) \/ RestoreCache(c) \/ PutVector(c) PROVE StepShape(c)
    <2>1. PICK label \in {"restoreCache", "restoreDelete", "receipt"} :
              Goto(c, label) /\ (label # "receipt" => op[c].pc \in Lifting)
        BY <1>11 DEF RestoreVector, RestoreCache, PutVector, At
    <2>2. /\ op[c].sid \in Shards /\ Plain(op[c].obj) /\ op[c].pc # "receipt"
          /\ op[c].pc = "restoreCache" => Clean(op[c].obj)
          /\ UNCHANGED <<quarantined, sole>>
        BY <1>1, <1>11 DEF RestoreVector, RestoreCache, PutVector, LocalOK, rest,
                           guard, At, Clean
    <2>3. op[c].obj # None /\ op[c].obj \in Copies \union {None}
        BY <1>2, <2>2
    <2>4. Writes(c)
        <3>1. PICK tier \in Tiers :
                  /\ store' = [store EXCEPT ![tier][op[c].sid] = op[c].obj]
                  /\ tier = "L1" => op[c].pc = "restoreCache"
            BY <1>11 DEF RestoreVector, RestoreCache, PutVector, WriteTo, Tiers, At
        <3> QED BY <2>2, <2>3, <3>1, WritesSlot
    <2>5. label \in PCs
        BY DEF PCs
    <2> QED BY <1>1, <2>1, <2>2, <2>3, <2>4, <2>5, GotoFields
            DEF StepShape, Carries, ReadsOn
<1>12. ASSUME PromoteHit(c) PROVE StepShape(c)
    <2>1. op[c].obj # None /\ op[c].obj \in Copies \union {None}
        BY <1>2, <1>12, PromoteHitFields DEF Clean
    <2>2. Writes(c)
        BY <1>12, <2>1, PromoteHitFields, WritesSlot DEF WriteTo, Tiers
    <2> QED BY <1>1, <1>12, <2>2, PromoteHitFields
            DEF StepShape, Carries, ReadsOn, rest, guard
<1>13. ASSUME Receipt(c) \/ Return(c) PROVE StepShape(c)
    <2>1. Leave(c) /\ UNCHANGED <<store, quarantined, sole>>
        BY <1>13 DEF Receipt, Return, rest, guard
    <2> QED BY <1>1, <1>3, <2>1, LeaveFields DEF StepShape, Carries, ReadsOn, Empty
<1>14. ASSUME ReceiptHit(c) PROVE StepShape(c)
    <2>1. /\ op' = [op EXCEPT ![c].pc = "search", ![c].sid = None]
          /\ UNCHANGED <<store, quarantined, sole>> /\ op[c].pc = "receiptHit"
        BY <1>14 DEF ReceiptHit, rest, guard, At
    <2>2. /\ Others(c) /\ op'[c].pc = "search" /\ op'[c].sid = None
          /\ op'[c].obj = op[c].obj /\ op'[c].hits = op[c].hits
          /\ op'[c].got = op[c].got /\ op'[c].barred = op[c].barred
        BY <1>1, <2>1 DEF Op, Others
    <2> QED BY <1>3, <2>1, <2>2 DEF StepShape, Carries, ReadsOn
<1> QED
    BY <1>4, <1>5, <1>6, <1>7, <1>8, <1>9, <1>10, <1>11, <1>12, <1>13, <1>14
       DEF Step
-----------------------------------------------------------------------------
(* What the beginning of a call does.                                      *)

\* The client starts afresh, with the quarantine of the moment.
Starts(c) ==
    /\ Others(c) /\ quarantined' = quarantined
    /\ op'[c].barred = quarantined /\ op'[c].got = {}

LEMMA BeginShape ==
    ASSUME Inv, NEW c \in Clients, NEW s \in Shards, GetBegin(c, s)
    PROVE  /\ Starts(c) /\ store' = store /\ sole' = sole /\ puts' = puts
           /\ op'[c].sid = s /\ s \notin quarantined
           /\ op'[c].obj = None /\ op'[c].hits = Empty
<1>1. op'[c] = Entered(c, s, "getL1") /\ Others(c)
    BY DEF GetBegin, Others, Inv, TypeInv
<1>2. /\ op'[c].sid = s /\ op'[c].obj = None /\ op'[c].hits = Empty
      /\ op'[c].barred = quarantined /\ op'[c].got = {}
    BY <1>1 DEF Entered, Idle
<1> QED BY <1>1, <1>2 DEF GetBegin, Starts, rest, guard

LEMMA WriteShape ==
    ASSUME Inv, NEW c \in Clients, NEW s \in Shards, NEW copy \in Copies,
           NEW next \in {"putVector", "receipt"}, Write(c, s, copy, next)
    PROVE  /\ Starts(c) /\ SlotWritten("L1", s, copy) /\ puts' = puts + 1
           /\ op'[c].pc = next /\ op'[c].sid = s /\ op'[c].obj = copy
           /\ op'[c].hits = Empty
<1>1. op'[c] = [Entered(c, s, next) EXCEPT !.obj = copy] /\ Others(c)
    BY DEF Write, Others, Inv, TypeInv
<1>2. SlotWritten("L1", s, copy)
    BY SlotFields DEF Write, Inv, TypeInv, Tiers
<1>3. /\ op'[c].pc = next /\ op'[c].sid = s /\ op'[c].obj = copy
      /\ op'[c].hits = Empty /\ op'[c].got = {} /\ op'[c].barred = quarantined
    BY <1>1 DEF Entered, Idle
<1>4. puts' = puts + 1 /\ quarantined' = quarantined
    BY DEF Write, guard
<1> QED BY <1>1, <1>2, <1>3, <1>4 DEF Starts

LEMMA SearchShape ==
    ASSUME Inv, NEW c \in Clients, SearchBegin(c)
    PROVE  /\ Starts(c) /\ store' = store /\ sole' = sole /\ puts' = puts
           /\ op'[c].pc = "search" /\ op'[c].sid = None /\ op'[c].obj = None
           /\ \A s \in Shards :
                 op'[c].hits[s] # None => store["L2"][s] # None
<1>1. PICK found \in SUBSET {s \in Shards : store["L2"][s] # None} :
          op' = [op EXCEPT ![c] =
              [Entered(c, None, "search") EXCEPT !.hits =
                  [s \in Shards |-> IF s \in found THEN store["L2"][s] ELSE None]]]
    BY DEF SearchBegin
<1>2. op'[c] = [Entered(c, None, "search") EXCEPT !.hits =
                  [s \in Shards |-> IF s \in found THEN store["L2"][s] ELSE None]]
      /\ Others(c)
    BY <1>1 DEF Others, Inv, TypeInv
<1>3. \A s \in Shards : op'[c].hits[s] # None => store["L2"][s] # None
    BY <1>2 DEF Entered, Idle
<1> QED BY <1>2, <1>3 DEF SearchBegin, Starts, Entered, Idle, rest, guard

-----------------------------------------------------------------------------
(* The quarantine.                                                         *)

\* An id in quarantine when a call began is not read by it, nor returned.
QuarOK(c) ==
    /\ op[c].barred \subseteq quarantined
    /\ op[c].got \intersect op[c].barred = {}
    /\ op[c].pc \in Reading => op[c].sid \notin op[c].barred

QuarInv == \A c \in Clients : QuarOK(c)

\* The other clients are not touched, and the quarantine grows.
LEMMA QuarOthers ==
    ASSUME NEW c \in Clients, QuarInv, Others(c), QuarOK(c)',
           quarantined \subseteq quarantined'
    PROVE  QuarInv'
BY DEF QuarInv, QuarOK, Others

LEMMA QuarStep == Inv /\ BatchInv /\ QuarInv /\ [Next]_vars => QuarInv'
<1> SUFFICES ASSUME Inv, BatchInv, QuarInv, [Next]_vars PROVE QuarInv'
    OBVIOUS
<1>1. op \in [Clients -> Op] /\ quarantined \subseteq Shards
    BY DEF Inv, TypeInv
<1>2. ASSUME NEW c \in Clients, Step(c) PROVE QuarInv'
    <2>1. QuarOK(c)
        BY DEF QuarInv
    <2>2. StepShape(c)
        BY <1>2, StepShapes
    <2>3. QuarOK(c)'
        BY <2>1, <2>2 DEF StepShape, ReadsOn, QuarOK
    <2> QED BY <2>2, <2>3, QuarOthers DEF StepShape, ReadsOn
<1>3. ASSUME NEW c \in Clients, ClientFault(c) PROVE QuarInv'
    <2>1. Leave(c) /\ quarantined' = quarantined
        BY <1>3 DEF ClientFault, guard
    <2>2. QuarOK(c)'
        BY <1>1, <2>1, LeaveFields DEF QuarOK, Reading, Walking, Scrubbing, Lifting
    <2> QED BY <1>1, <2>1, <2>2, LeaveFields, QuarOthers
<1>4. ASSUME NEW c \in Clients, Call(c) PROVE QuarInv'
    <2>1. CASE \E s \in Shards : GetBarred(c, s)
        BY <2>1 DEF GetBarred, vars, QuarInv, QuarOK
    <2>2. CASE \E s \in Shards : GetBegin(c, s)
        <3>1. Starts(c) /\ op'[c].sid \notin quarantined
            BY <2>2, BeginShape
        <3>2. QuarOK(c)'
            BY <3>1 DEF Starts, QuarOK
        <3> QED BY <3>1, <3>2, QuarOthers DEF Starts
    <2>3. CASE SearchBegin(c)
        <3>1. Starts(c) /\ op'[c].pc = "search"
            BY <2>3, SearchShape
        <3>2. QuarOK(c)'
            BY <3>1 DEF Starts, QuarOK, Reading, Walking, Scrubbing, Lifting
        <3> QED BY <3>1, <3>2, QuarOthers DEF Starts
    <2>4. ASSUME NEW s \in Shards, NEW copy \in Copies,
                 NEW next \in {"putVector", "receipt"}, Write(c, s, copy, next)
          PROVE  QuarInv'
        <3>1. Starts(c) /\ op'[c].pc = next
            BY <2>4, WriteShape
        <3>2. QuarOK(c)'
            BY <3>1 DEF Starts, QuarOK, Reading, Walking, Scrubbing, Lifting
        <3> QED BY <3>1, <3>2, QuarOthers DEF Starts
    <2>5. ASSUME NEW s \in Shards, NEW text \in Contents,
                 Put(c, s, text) \/ Install(c, s, text)
          PROVE  QuarInv'
        BY <2>4, <2>5 DEF Put, Install, Copies
    <2> QED BY <1>4, <2>1, <2>2, <2>3, <2>5 DEF Call
<1>5. ASSUME NEW s \in Shards, Drop(s) PROVE QuarInv'
    BY <1>5 DEF Drop, rest, guard, QuarInv, QuarOK
<1>9. ASSUME NEW p \in Places, Prune(p) PROVE QuarInv'
    BY <1>9, PruneFields DEF Demotes, guard, QuarInv, QuarOK
<1>6. CASE Tick
    BY <1>6 DEF Tick, QuarInv, QuarOK
<1>7. CASE Restart
    <2>1. \A c \in Clients : op'[c] = Idle
        BY <1>7 DEF Restart
    <2> QED BY <2>1 DEF QuarInv, QuarOK, Idle, Reading, Walking, Scrubbing, Lifting
<1>8. CASE UNCHANGED vars
    BY <1>8 DEF vars, QuarInv, QuarOK
<1> QED BY <1>2, <1>3, <1>4, <1>5, <1>6, <1>7, <1>8, <1>9 DEF Next

\* No call returns an id that was in quarantine when it began, however its
\* reads interleave with the blocks, the pruner and the writes of the others.
THEOREM Quarantine == Spec => []QuarantineHolds
<1>1. Init => Inv /\ BatchInv /\ QuarInv
    BY InvInit, BatchInit DEF Init, QuarInv, QuarOK, Idle, Reading, Walking, Scrubbing, Lifting
<1>2. Inv /\ BatchInv /\ QuarInv /\ [Next]_vars => Inv' /\ BatchInv' /\ QuarInv'
    BY InvStep, QuarStep
<1>3. QuarInv => QuarantineHolds
    BY DEF QuarInv, QuarOK, QuarantineHolds
<1> QED BY <1>1, <1>2, <1>3, PTL DEF Spec
-----------------------------------------------------------------------------
(* What comes into L1.                                                     *)

\* A slot of L1 holds afterwards what it held, nothing, or a copy that passed.
GuardedL1 ==
    \A s \in Shards : store'["L1"][s] \in {store["L1"][s], None}
                         \/ Clean(store'["L1"][s])

LEMMA GuardedStep ==
    ASSUME Inv, BatchInv, [Next]_vars
    PROVE  GuardedL1 \/ puts' = puts + 1
<1>1. ASSUME NEW c \in Clients, Step(c) PROVE GuardedL1
    BY <1>1, StepShapes DEF StepShape, Writes, GuardedL1, Tiers
<1>2. ASSUME NEW c \in Clients, ClientFault(c) PROVE GuardedL1
    BY <1>2 DEF ClientFault, GuardedL1
<1>3. ASSUME NEW c \in Clients, Call(c) PROVE GuardedL1 \/ puts' = puts + 1
    BY <1>3 DEF Call, GetBarred, GetBegin, SearchBegin, Put, Install, Write, vars,
                GuardedL1
<1>4. ASSUME NEW s \in Shards, Drop(s) PROVE GuardedL1
    BY <1>4, DropFields DEF SlotWritten, GuardedL1, Tiers
<1>6. ASSUME NEW p \in Places, Prune(p) PROVE GuardedL1
    BY <1>6, PruneFields DEF Demotes, GuardedL1, Tiers
<1>5. ASSUME Tick \/ Restart \/ UNCHANGED vars PROVE GuardedL1
    BY <1>5 DEF Tick, Restart, vars, GuardedL1
<1> QED BY <1>1, <1>2, <1>3, <1>4, <1>5, <1>6 DEF Next

\* Only put() and install_constitution() bring a copy that the patterns block,
\* or a constitution, into L1: every read that lifts a copy lifts the one it
\* scrubbed, whatever happened to the tiers meanwhile.
THEOREM L1Trust == Spec => L1Guarded
<1> DEFINE Body ==
        \A s \in Shards :
          LET old == store["L1"][s]  new == store'["L1"][s]
          IN  /\ new \notin {old, None}
              /\ new.core \/ RegexScan(new.text) \in Blocking
              => puts' = puts + 1
<1>1. Inv /\ BatchInv /\ [Next]_vars => [Body]_vars
    BY GuardedStep DEF GuardedL1, Clean, Plain
<1>2. Spec => [](Inv /\ BatchInv)
    BY InvInit, BatchInit, InvStep, PTL DEF Spec
<1> QED BY <1>1, <1>2, PTL DEF Spec, L1Guarded

-----------------------------------------------------------------------------
(* Constitutions.                                                          *)

\* The copy in L1 is the only one: no tier, no hit and no task that is still to
\* write has another, and no batch of the pruner has its id.
SoleOK(s) ==
    /\ store["L1"][s] # None /\ store["L1"][s].core
    /\ store["L2"][s] = None /\ store["L3"][s] = None
    /\ \A c \in Clients :
          /\ op[c].hits[s] = None
          /\ op[c].sid = s /\ op[c].obj # None => op[c].pc = "receipt"
    /\ \A p \in Places : batch[p].sid # s

SoleInv == sole \subseteq Shards /\ \A s \in sole : SoleOK(s)

\* A call of one client that leaves the constitution of s alone.
LEMMA SoleOthers ==
    ASSUME NEW s \in Shards, SoleOK(s), NEW c \in Clients, Others(c), batch' = batch,
           \A tier \in Tiers : store'[tier][s] = store[tier][s],
           op'[c].hits[s] = None,
           op'[c].sid = s /\ op'[c].obj # None => op'[c].pc = "receipt"
    PROVE  SoleOK(s)'
BY DEF SoleOK, Others, Tiers

LEMMA SoleStep ==
    ASSUME Inv, SoleInv, NEW c \in Clients, Step(c)
    PROVE  SoleInv'
<1>1. StepShape(c) /\ batch' = batch
    BY StepShapes, StepWindow
<1>2. ASSUME NEW s \in sole PROVE SoleOK(s)'
    <2>1. s \in Shards /\ SoleOK(s)
        BY <1>2 DEF SoleInv
    <2>2. \A tier \in Tiers : store'[tier][s] = store[tier][s]
        BY <1>1, <2>1 DEF StepShape, Writes, SoleOK
    <2>3. op'[c].hits[s] = None
        BY <1>1, <2>1 DEF StepShape, Carries, SoleOK
    <2>4. op'[c].sid = s => op'[c].obj = None
        BY <1>1, <2>1, NoneAssumption DEF StepShape, Carries, SoleOK
    <2> QED BY <1>1, <2>1, <2>2, <2>3, <2>4, SoleOthers DEF StepShape
<1> QED BY <1>1, <1>2 DEF SoleInv, StepShape, Carries

LEMMA SoleCall ==
    ASSUME Inv, SoleInv, NEW c \in Clients, Call(c)
    PROVE  SoleInv'
<1>0. batch' = batch
    BY CallBatch
<1>1. ASSUME NEW s \in Shards, GetBarred(c, s) PROVE SoleInv'
    BY <1>1 DEF GetBarred, vars, SoleInv, SoleOK
<1>2. ASSUME Starts(c), store' = store, sole' = sole, op'[c].obj = None,
             \A u \in Shards : op'[c].hits[u] # None => store["L2"][u] # None
      PROVE  SoleInv'
    <2>1. ASSUME NEW u \in sole PROVE SoleOK(u)'
        <3>1. u \in Shards /\ SoleOK(u)
            BY <2>1 DEF SoleInv
        <3>2. op'[c].hits[u] = None /\ op'[c].obj = None
            BY <1>2, <3>1 DEF SoleOK
        <3> QED BY <1>0, <1>2, <3>1, <3>2, SoleOthers DEF Starts
    <2> QED BY <1>2, <2>1 DEF SoleInv
<1>3. ASSUME NEW s \in Shards, GetBegin(c, s) PROVE SoleInv'
    BY <1>2, <1>3, BeginShape DEF Empty
<1>4. ASSUME SearchBegin(c) PROVE SoleInv'
    BY <1>2, <1>4, SearchShape
\* The constitutions of the other ids, while c writes s.
<1>5. ASSUME NEW s \in Shards, NEW copy \in Copies,
             NEW next \in {"putVector", "receipt"}, Write(c, s, copy, next),
             NEW u \in sole, u # s
      PROVE  SoleOK(u)'
    <2>1. u \in Shards /\ SoleOK(u)
        BY <1>5 DEF SoleInv
    <2>2. \A tier \in Tiers : store'[tier][u] = store[tier][u]
        BY <1>5, <2>1, WriteShape DEF SlotWritten
    <2>3. Others(c) /\ op'[c].hits = Empty /\ op'[c].sid = s
        BY <1>5, WriteShape DEF Starts
    <2> QED BY <1>0, <1>5, <2>1, <2>2, <2>3, SoleOthers DEF Empty
<1>6. ASSUME NEW s \in Shards, NEW text \in Contents, Put(c, s, text) PROVE SoleInv'
    <2>1. PICK copy \in Copies, next \in {"putVector", "receipt"} : Write(c, s, copy, next)
        BY <1>6 DEF Put, Copies
    <2> QED BY <1>5, <1>6, <2>1 DEF Put, SoleInv
<1>7. ASSUME NEW s \in Shards, NEW text \in Contents, Install(c, s, text) PROVE SoleInv'
    <2>1. PICK copy \in Copies, next \in {"putVector", "receipt"} :
              Write(c, s, copy, next) /\ copy.core /\ next = "receipt"
        <3> DEFINE new == [text |-> text, core |-> TRUE]
        <3>1. new \in Copies /\ new.core /\ Write(c, s, new, "receipt")
            BY <1>7 DEF Install, Copies
        <3> HIDE DEF new
        <3> QED BY <3>1
    <2>2. ASSUME s \in sole' PROVE SoleOK(s)'
        <3>1. NoOtherCopy(s) \/ SoleOK(s)
            BY <1>7, <2>2 DEF Install, SoleInv
        <3>2. /\ store["L2"][s] = None /\ store["L3"][s] = None
              /\ \A d \in Clients :
                    op[d].hits[s] = None
                    /\ (op[d].sid = s /\ op[d].obj # None => op[d].pc = "receipt")
              /\ \A p \in Places : batch[p].sid # s
            BY <3>1 DEF NoOtherCopy, SoleOK
        <3>3. /\ store'["L1"][s] = copy
              /\ store'["L2"][s] = None /\ store'["L3"][s] = None
            BY <2>1, <3>2, WriteShape DEF SlotWritten, Tiers
        <3>4. copy # None
            BY NoneAssumption
        <3>5. Others(c) /\ op'[c].hits = Empty /\ op'[c].pc = "receipt"
            BY <2>1, WriteShape DEF Starts
        <3> QED BY <1>0, <2>1, <3>2, <3>3, <3>4, <3>5 DEF SoleOK, Others, Empty
    <2> QED BY <1>5, <1>7, <2>1, <2>2 DEF Install, SoleInv
<1> QED BY <1>1, <1>3, <1>4, <1>6, <1>7 DEF Call

LEMMA SoleNext == Inv /\ BatchInv /\ SoleInv /\ [Next]_vars => SoleInv'
<1> SUFFICES ASSUME Inv, BatchInv, SoleInv, [Next]_vars PROVE SoleInv'
    OBVIOUS
<1>1. op \in [Clients -> Op]
    BY DEF Inv, TypeInv
<1>2. ASSUME NEW c \in Clients, ClientFault(c) PROVE SoleInv'
    <2>1. Leave(c) /\ store' = store /\ sole' = sole /\ batch' = batch
        BY <1>2 DEF ClientFault
    <2>2. Others(c) /\ op'[c].hits = Empty /\ op'[c].obj = None
        BY <1>1, <2>1, LeaveFields
    <2>3. ASSUME NEW s \in sole PROVE SoleOK(s)'
        <3>1. s \in Shards /\ SoleOK(s)
            BY <2>3 DEF SoleInv
        <3> QED BY <2>1, <2>2, <3>1, SoleOthers DEF Empty
    <2> QED BY <2>1, <2>3 DEF SoleInv
<1>3. ASSUME NEW s \in Shards, Drop(s) PROVE SoleInv'
    <2>1. \A u \in sole : u # s
        BY <1>3 DEF SoleInv, SoleOK, Drop
    <2>2. /\ \A tier \in Tiers, u \in Shards : u # s => store'[tier][u] = store[tier][u]
          /\ op' = op /\ sole' = sole /\ batch' = batch
        BY <1>3, DropFields DEF SlotWritten, rest
    <2> QED BY <2>1, <2>2 DEF SoleInv, SoleOK, Tiers
<1>7. ASSUME NEW p \in Places, Prune(p) PROVE SoleInv'
    <2>1. Demotes(p)
        BY <1>7, PruneFields
    <2>2. ASSUME NEW s \in sole PROVE SoleOK(s)'
        <3>1. s \in Shards /\ SoleOK(s)
            BY <2>2 DEF SoleInv
        <3>2. \A tier \in Tiers : store'[tier][s] = store[tier][s]
            BY <2>1, <3>1 DEF Demotes, SoleOK
        <3>3. \A q \in Places : batch'[q].sid # s
            BY <2>1, <3>1 DEF Demotes, SoleOK
        <3> QED BY <2>1, <3>1, <3>2, <3>3 DEF Demotes, SoleOK, Tiers
    <2> QED BY <2>1, <2>2 DEF Demotes, SoleInv
<1>4. CASE Tick
    BY <1>4 DEF Tick, SoleInv, SoleOK
<1>5. CASE Restart
    <2>1. /\ \A c \in Clients : op'[c].hits = Empty /\ op'[c].obj = None
          /\ store' = store /\ sole' = sole /\ batch' = batch
        BY <1>5 DEF Restart, Idle
    <2> QED BY <2>1 DEF SoleInv, SoleOK, Empty
<1>6. CASE UNCHANGED vars
    BY <1>6 DEF vars, SoleInv, SoleOK
<1> QED BY <1>2, <1>3, <1>4, <1>5, <1>6, <1>7, SoleStep, SoleCall DEF Next

\* A constitution installed while no tier, task or batch has another copy of its
\* id stays in L1, through every read, search and restart and every await of
\* every prune cycle, until a put() of the same id.
THEOREM Constitution == Spec => []CoreKept
<1>1. Init => Inv /\ BatchInv /\ SoleInv
    BY InvInit, BatchInit DEF Init, SoleInv
<1>2. Inv /\ BatchInv /\ SoleInv /\ [Next]_vars => Inv' /\ BatchInv' /\ SoleInv'
    BY InvStep, SoleNext
<1>3. SoleInv => CoreKept
    BY DEF SoleInv, SoleOK, CoreKept
<1> QED BY <1>1, <1>2, <1>3, PTL DEF Spec

-----------------------------------------------------------------------------
(* The window of blocks.                                                   *)

\* Ages, oldest first.
Ordered(ages) ==
    /\ ages \in Seq(Ages)
    /\ \A i, j \in DOMAIN ages : i <= j => ages[j] <= ages[i]

\* The first n ages are those that the window has left behind.
Splits(ages, n) ==
    n \in 0..Len(ages) /\ \A i \in DOMAIN ages : i <= n <=> ages[i] >= Window

LEMMA OrderedFacts ==
    ASSUME NEW ages, Ordered(ages)
    PROVE  /\ ages \in Seq(Ages) /\ Len(ages) \in Nat /\ DOMAIN ages = 1..Len(ages)
           /\ \A i \in DOMAIN ages : ages[i] \in Ages /\ ages[i] \in Nat
<1>1. ages \in Seq(Ages) /\ Ages \subseteq Nat
    BY BoundsAssumption DEF Ordered, Ages
<1>2. /\ Len(ages) \in Nat /\ DOMAIN ages = 1..Len(ages)
      /\ \A i \in 1..Len(ages) : ages[i] \in Ages
    BY <1>1, LenProperties, ElementOfSeq
<1> QED BY <1>1, <1>2

\* Ordered ages split in one place ...
LEMMA SplitExists == ASSUME NEW ages, Ordered(ages) PROVE \E n \in Nat : Splits(ages, n)
<1> DEFINE T == {n \in 0..Len(ages) : \A i \in DOMAIN ages : i > n => ages[i] < Window}
<1>1. Len(ages) \in Nat /\ DOMAIN ages = 1..Len(ages) /\ \A i \in DOMAIN ages : ages[i] \in Nat
    BY OrderedFacts
<1>2. T \in SUBSET Nat /\ Len(ages) \in T
    BY <1>1
<1>3. PICK n \in T : \A m \in T : n <= m
    <2> HIDE DEF T
    <2> QED BY <1>2, Least
<1>4. ASSUME NEW i \in DOMAIN ages, i <= n PROVE ages[i] >= Window
    <2> SUFFICES ASSUME ages[i] < Window PROVE FALSE
        BY <1>1, BoundsAssumption
    <2>1. \A j \in DOMAIN ages : j >= i => ages[j] < Window
        BY <1>1, BoundsAssumption DEF Ordered
    <2>2. i - 1 \in T
        BY <1>1, <1>4, <2>1
    <2> QED BY <1>1, <1>3, <1>4, <2>2
<1>5. \A i \in DOMAIN ages : i > n => ages[i] < Window
    OBVIOUS
<1>6. n \in 0..Len(ages)
    OBVIOUS
<1>7. \A i \in DOMAIN ages : i <= n <=> ages[i] >= Window
    <2> HIDE DEF T
    <2> QED BY <1>1, <1>4, <1>5, <1>6, BoundsAssumption
<1>8. n \in Nat /\ Splits(ages, n)
    BY <1>1, <1>6, <1>7 DEF Splits
<1> QED BY <1>8

\* ... and Fresh takes what follows it.
LEMMA FreshAt ==
    ASSUME NEW ages, Ordered(ages), NEW n, Splits(ages, n)
    PROVE  /\ Fresh(ages) \in Seq(Ages)
           /\ Len(Fresh(ages)) = Len(ages) - n
           /\ \A i \in 1..(Len(ages) - n) : Fresh(ages)[i] = ages[i + n]
<1>1. /\ Len(ages) \in Nat /\ DOMAIN ages = 1..Len(ages) /\ n \in 0..Len(ages)
      /\ \A i \in DOMAIN ages : ages[i] \in Ages
    BY LenProperties DEF Ordered, Splits
<1> DEFINE old == CHOOSE k \in 0..Len(ages) :
                     \A i \in DOMAIN ages : i <= k <=> ages[i] >= Window
<1>2. old \in 0..Len(ages) /\ \A i \in DOMAIN ages : i <= old <=> ages[i] >= Window
    BY DEF Splits
<1>3. old = n
    <2> HIDE DEF old
    <2>1. \A i \in 1..Len(ages) : i <= old <=> i <= n
        BY <1>1, <1>2 DEF Splits
    <2> QED BY <1>1, <1>2, <2>1
<1>4. Fresh(ages) = SubSeq(ages, n + 1, Len(ages))
    BY <1>3 DEF Fresh
<1>5. \A i \in (n + 1)..Len(ages) : ages[i] \in Ages
    BY <1>1
<1>6. n + 1 \in Int /\ Len(ages) \in Int /\ Len(ages) - (n + 1) + 1 = Len(ages) - n
    BY <1>1
<1>7. /\ Fresh(ages) \in Seq(Ages)
      /\ Len(Fresh(ages)) = IF n + 1 <= Len(ages) THEN Len(ages) - n ELSE 0
      /\ \A i \in 1..(Len(ages) - n) : Fresh(ages)[i] = ages[(n + 1) + i - 1]
    BY <1>4, <1>5, <1>6, SubSeqProperties
<1>8. \A i \in 1..(Len(ages) - n) : Fresh(ages)[i] = ages[i + n]
    <2> TAKE i \in 1..(Len(ages) - n)
    <2>1. (n + 1) + i - 1 = i + n
        BY <1>1
    <2> QED BY <1>7, <2>1
<1>9. Len(Fresh(ages)) = Len(ages) - n
    <2>1. Len(ages) \in Nat /\ n \in 0..Len(ages)
        BY <1>1
    <2>2. ~(n + 1 <= Len(ages)) => Len(ages) - n = 0
        BY <2>1
    <2> QED BY <1>7, <2>2
<1> QED BY <1>7, <1>8, <1>9

\* Fresh ages are ordered, as those they are taken from.
LEMMA FreshOrdered ==
    ASSUME NEW ages, Ordered(ages)
    PROVE  Ordered(Fresh(ages))
<1>1. PICK n \in Nat : Splits(ages, n)
    BY SplitExists
<1>2. /\ Fresh(ages) \in Seq(Ages) /\ Len(Fresh(ages)) = Len(ages) - n
      /\ \A i \in 1..(Len(ages) - n) : Fresh(ages)[i] = ages[i + n]
    BY <1>1, FreshAt
<1>3. Len(ages) \in Nat /\ DOMAIN ages = 1..Len(ages)
    BY LenProperties DEF Ordered
<1>4. DOMAIN Fresh(ages) = 1..(Len(ages) - n) /\ n \in 0..Len(ages)
    BY <1>1, <1>2, LenProperties DEF Splits
<1>5. ASSUME NEW i \in DOMAIN Fresh(ages), NEW j \in DOMAIN Fresh(ages), i <= j
      PROVE  Fresh(ages)[j] <= Fresh(ages)[i]
    <2>1. i + n \in DOMAIN ages /\ j + n \in DOMAIN ages /\ i + n <= j + n
        BY <1>3, <1>4, <1>5
    <2> QED BY <1>2, <1>4, <2>1 DEF Ordered
<1> QED BY <1>2, <1>5 DEF Ordered

\* A tick keeps the order.
LEMMA AgedOrdered ==
    ASSUME NEW ages, Ordered(ages)
    PROVE  /\ Ordered(Aged(ages)) /\ Len(Aged(ages)) = Len(ages)
           /\ \A i \in 1..Len(ages) :
                 Aged(ages)[i] = IF ages[i] < Window THEN ages[i] + 1 ELSE Window
<1>1. /\ Len(ages) \in Nat /\ DOMAIN ages = 1..Len(ages)
      /\ \A i \in DOMAIN ages : ages[i] \in Ages
    BY LenProperties DEF Ordered
<1>2. Aged(ages) = [i \in 1..Len(ages) |-> IF ages[i] < Window THEN ages[i] + 1 ELSE Window]
    BY <1>1 DEF Aged
<1>3. \A i \in 1..Len(ages) : Aged(ages)[i] \in Ages
    BY <1>1, <1>2, BoundsAssumption DEF Ages
<1>4. Aged(ages) \in Seq(Ages) /\ Len(Aged(ages)) = Len(ages)
    <2>1. Aged(ages) \in [1..Len(ages) -> Ages]
        BY <1>2, <1>3
    <2> QED BY <1>1, <2>1
<1>5. DOMAIN Aged(ages) = 1..Len(ages)
    BY <1>2
<1> QED BY <1>1, <1>2, <1>4, <1>5, BoundsAssumption DEF Ordered, Ages

\* What is left behind before the tick is left behind after it.
LEMMA FreshAged ==
    ASSUME NEW ages, Ordered(ages)
    PROVE  Fresh(Aged(Fresh(ages))) = Fresh(Aged(ages))
<1> DEFINE kept  == Fresh(ages)
           after == Aged(ages)
           both  == Aged(kept)
<1>1. Ordered(kept) /\ Ordered(after) /\ Ordered(both)
    BY FreshOrdered, AgedOrdered
<1>2. PICK n \in Nat : Splits(ages, n)
    BY SplitExists
<1>3. PICK m \in Nat : Splits(after, m)
    BY <1>1, SplitExists
<1>4. /\ Len(ages) \in Nat /\ DOMAIN ages = 1..Len(ages)
      /\ \A i \in DOMAIN ages : ages[i] \in Ages
    BY LenProperties DEF Ordered
<1>5. /\ Len(kept) = Len(ages) - n
      /\ \A i \in 1..(Len(ages) - n) : kept[i] = ages[i + n]
    BY <1>2, FreshAt
<1>6. /\ Len(after) = Len(ages) /\ DOMAIN after = 1..Len(ages)
      /\ \A i \in 1..Len(ages) :
            after[i] = IF ages[i] < Window THEN ages[i] + 1 ELSE Window
    BY <1>1, AgedOrdered, LenProperties DEF Ordered
<1>7. /\ Len(both) = Len(kept) /\ DOMAIN both = 1..Len(kept)
      /\ \A i \in 1..Len(kept) :
            both[i] = IF kept[i] < Window THEN kept[i] + 1 ELSE Window
    BY <1>1, AgedOrdered, LenProperties DEF Ordered
<1> HIDE DEF kept, after, both
<1>8. n <= Len(ages) /\ m <= Len(ages)
    BY <1>2, <1>3, <1>6 DEF Splits
<1>9. \A i \in 1..Len(kept) : both[i] = after[i + n]
    <2> SUFFICES ASSUME NEW i \in 1..Len(kept) PROVE both[i] = after[i + n]
        OBVIOUS
    <2>1. i \in 1..(Len(ages) - n) /\ i + n \in 1..Len(ages)
        BY <1>4, <1>5, <1>8
    <2>2. kept[i] = ages[i + n]
        BY <1>5, <2>1
    <2> QED BY <1>6, <1>7, <2>1, <2>2
<1>10. n <= m
    <2> SUFFICES ASSUME m < n PROVE FALSE
        OBVIOUS
    <2>1. n \in 1..Len(ages) /\ ages[n] >= Window
        BY <1>2, <1>4, <1>8 DEF Splits
    <2>2. after[n] = Window
        BY <1>4, <1>6, <2>1, BoundsAssumption DEF Ages
    <2> QED BY <1>3, <1>6, <2>1, <2>2, BoundsAssumption DEF Splits
<1>11. Splits(both, m - n)
    <2>1. m - n \in 0..Len(both)
        BY <1>4, <1>5, <1>7, <1>8, <1>10
    <2>2. ASSUME NEW i \in DOMAIN both PROVE i <= m - n <=> both[i] >= Window
        <3>1. i + n \in DOMAIN after /\ both[i] = after[i + n] /\ i \in Nat
            BY <1>4, <1>5, <1>6, <1>7, <1>8, <1>9, <2>2
        <3>2. i + n <= m <=> both[i] >= Window
            BY <1>3, <3>1 DEF Splits
        <3> QED BY <3>1, <3>2
    <2> QED BY <2>1, <2>2 DEF Splits
<1>12. /\ Fresh(both) \in Seq(Ages) /\ Len(Fresh(both)) = Len(ages) - m
       /\ \A i \in 1..(Len(ages) - m) : Fresh(both)[i] = both[i + (m - n)]
    <2>1. Len(both) - (m - n) = Len(ages) - m
        BY <1>4, <1>5, <1>7
    <2>2. /\ Fresh(both) \in Seq(Ages) /\ Len(Fresh(both)) = Len(both) - (m - n)
          /\ \A i \in 1..(Len(both) - (m - n)) : Fresh(both)[i] = both[i + (m - n)]
        BY <1>1, <1>11, FreshAt
    <2> QED BY <2>1, <2>2
<1>13. /\ Fresh(after) \in Seq(Ages) /\ Len(Fresh(after)) = Len(ages) - m
       /\ \A i \in 1..(Len(ages) - m) : Fresh(after)[i] = after[i + m]
    <2>1. /\ Fresh(after) \in Seq(Ages) /\ Len(Fresh(after)) = Len(after) - m
          /\ \A i \in 1..(Len(after) - m) : Fresh(after)[i] = after[i + m]
        BY <1>1, <1>3, FreshAt
    <2>2. Len(after) = Len(ages)
        BY <1>6
    <2> QED BY <2>1, <2>2
<1>14. \A i \in 1..(Len(ages) - m) : Fresh(both)[i] = Fresh(after)[i]
    <2> TAKE i \in 1..(Len(ages) - m)
    <2>1. i + (m - n) \in 1..Len(kept) /\ (i + (m - n)) + n = i + m
        BY <1>4, <1>5, <1>8, <1>10
    <2>2. Fresh(both)[i] = after[(i + (m - n)) + n]
        BY <1>9, <1>12, <2>1
    <2> QED BY <1>13, <2>1, <2>2
<1>15. Fresh(both) = Fresh(after)
    BY <1>12, <1>13, <1>14, SeqEqual
<1> QED BY <1>15 DEF kept, after, both

\* A block that is stamped now is fresh, and so is what it is appended to.
LEMMA FreshAppend ==
    ASSUME NEW ages, Ordered(ages)
    PROVE  LET next == Append(Fresh(ages), 0)
           IN  Ordered(next) /\ Fresh(next) = next /\ Len(next) = Len(Fresh(ages)) + 1
<1> DEFINE kept == Fresh(ages)
           next == Append(kept, 0)
<1>1. Ordered(kept) /\ \A i \in DOMAIN kept : kept[i] < Window
    <2>1. PICK n \in Nat : Splits(ages, n)
        BY SplitExists
    <2>2. /\ kept \in Seq(Ages) /\ Len(kept) = Len(ages) - n
          /\ \A i \in 1..(Len(ages) - n) : kept[i] = ages[i + n]
        BY <2>1, FreshAt
    <2>3. Len(ages) \in Nat /\ DOMAIN ages = 1..Len(ages)
          /\ \A i \in DOMAIN ages : ages[i] \in Nat
        BY OrderedFacts
    <2>4. DOMAIN kept = 1..(Len(ages) - n)
        BY <2>2, LenProperties
    <2>5. \A i \in DOMAIN kept : i + n \in DOMAIN ages /\ ~(i + n <= n)
        BY <2>3, <2>4
    <2>6. \A i \in DOMAIN kept : ~(kept[i] >= Window) /\ kept[i] \in Nat
        BY <2>1, <2>2, <2>3, <2>4, <2>5 DEF Splits
    <2> QED BY <2>6, FreshOrdered, BoundsAssumption
<1> HIDE DEF kept
<1>2. /\ kept \in Seq(Ages) /\ Len(kept) \in Nat /\ DOMAIN kept = 1..Len(kept)
      /\ \A i \in 1..Len(kept) : kept[i] \in Ages
    BY <1>1, LenProperties DEF Ordered
<1>3. 0 \in Ages /\ 0 < Window
    BY BoundsAssumption DEF Ages
<1>4. /\ next \in Seq(Ages) /\ Len(next) = Len(kept) + 1
      /\ \A i \in 1..Len(kept) : next[i] = kept[i]
      /\ next[Len(kept) + 1] = 0
    BY <1>2, <1>3, AppendProperties
<1> HIDE DEF next
<1>5. DOMAIN next = 1..(Len(kept) + 1)
    BY <1>4, LenProperties
<1>6. Ordered(next)
    BY <1>1, <1>2, <1>4, <1>5 DEF Ordered, Ages
<1>7. Splits(next, 0)
    BY <1>1, <1>2, <1>3, <1>4, <1>5, BoundsAssumption DEF Splits, Ages
<1>8. Fresh(next) = next
    <2>1. /\ Fresh(next) \in Seq(Ages) /\ Len(Fresh(next)) = Len(next) - 0
          /\ \A i \in 1..(Len(next) - 0) : Fresh(next)[i] = next[i + 0]
        BY <1>6, <1>7, FreshAt
    <2>2. Len(next) \in Nat
        BY <1>2, <1>4
    <2> QED BY <1>4, <2>1, <2>2, SeqEqual
<1> QED BY <1>4, <1>6, <1>8 DEF next, kept

-----------------------------------------------------------------------------
(* The alert.                                                              *)

\* What the scrubber keeps between two blocks, and what a reader of its log
\* would count: the blocks of the window that no alert has reported.
WindowInv ==
    /\ Ordered(stamps) /\ Ordered(streak)
    /\ streak = Fresh(stamps)
    /\ Len(streak) < Threshold

CountInv ==
    /\ puts \in 0..MaxPuts /\ faults \in 0..MaxFaults
    /\ sole \subseteq Shards

\* The beginning of a call leaves the window alone; a write is counted.
LEMMA CallWindow ==
    ASSUME CountInv, NEW c \in Clients, Call(c)
    PROVE  UNCHANGED <<stamps, streak>> /\ faults' = faults /\ CountInv'
<1> USE DEF rest, guard, CountInv
<1>1. ASSUME NEW s \in Shards, GetBarred(c, s) \/ GetBegin(c, s)
      PROVE  UNCHANGED rest
    BY <1>1 DEF GetBarred, GetBegin, vars
<1>2. CASE SearchBegin(c)
    BY <1>2 DEF SearchBegin
<1>3. ASSUME NEW s \in Shards, NEW text \in Contents, Put(c, s, text) \/ Install(c, s, text)
      PROVE  UNCHANGED <<stamps, streak>> /\ faults' = faults /\ CountInv'
    <2>1. /\ puts < MaxPuts /\ puts' = puts + 1
          /\ UNCHANGED <<guard, faults>>
        BY <1>3 DEF Put, Install, Write
    <2>2. sole' \subseteq Shards
        BY <1>3 DEF Put, Install
    <2> QED BY <2>1, <2>2, BoundsAssumption
<1> QED BY <1>1, <1>2, <1>3 DEF Call

\* What a tick makes of the window.
LEMMA TickWindow ==
    ASSUME WindowInv, Tick
    PROVE  /\ WindowInv'
           /\ stamps # <<>> => stamps' # <<>>
           /\ UNCHANGED <<puts, faults, sole>>
<1>1. /\ stamps' = Aged(stamps) /\ streak' = Fresh(Aged(streak))
      /\ UNCHANGED <<puts, faults, sole>>
    BY DEF Tick
<1>2. Ordered(stamps) /\ Ordered(streak) /\ streak = Fresh(stamps) /\ Len(streak) < Threshold
    BY DEF WindowInv
<1>3. Ordered(Aged(stamps)) /\ Len(Aged(stamps)) = Len(stamps)
    BY <1>2, AgedOrdered
<1>4. Ordered(Aged(streak)) /\ Len(Aged(streak)) = Len(streak)
    BY <1>2, AgedOrdered
<1>5. streak' = Fresh(stamps')
    BY <1>1, <1>2, FreshAged
<1>6. Ordered(stamps') /\ Ordered(streak')
    BY <1>1, <1>3, <1>4, FreshOrdered
<1>7. Len(streak') < Threshold
    <2>1. PICK n \in Nat : Splits(Aged(streak), n)
        BY <1>4, SplitExists
    <2>2. Len(streak') = Len(streak) - n
        BY <1>1, <1>4, <2>1, FreshAt
    <2>3. Len(streak) \in Nat
        BY <1>2, OrderedFacts
    <2> QED BY <1>2, <2>2, <2>3, BoundsAssumption
<1>8. stamps # <<>> => stamps' # <<>>
    <2>1. stamps # <<>> => Len(stamps) \in Nat \ {0}
        BY <1>2, EmptySeq, OrderedFacts
    <2>2. Len(<<>>) = 0
        OBVIOUS
    <2> QED BY <1>1, <1>3, <2>1, <2>2
<1> QED BY <1>1, <1>5, <1>6, <1>7, <1>8 DEF WindowInv

\* An empty window is in order.
LEMMA NothingStamped ==
    /\ Ordered(<<>>) /\ Fresh(<<>>) = <<>> /\ Len(<<>>) < Threshold
<1>1. <<>> \in Seq(Ages) /\ Len(<<>>) = 0 /\ DOMAIN <<>> = 1..0
    BY EmptySeq, LenProperties
<1>2. Ordered(<<>>)
    BY <1>1 DEF Ordered
<1>3. Splits(<<>>, 0)
    BY <1>1 DEF Splits
<1>4. Fresh(<<>>) \in Seq(Ages) /\ Len(Fresh(<<>>)) = Len(<<>>) - 0
    BY <1>2, <1>3, FreshAt
<1>5. Fresh(<<>>) = <<>>
    BY <1>1, <1>4, EmptySeq
<1> QED BY <1>1, <1>2, <1>5, BoundsAssumption

\* A step keeps the window in order, and raises the alert at the threshold.
LEMMA WindowStep ==
    ASSUME WindowInv, CountInv, [Next]_vars
    PROVE  /\ WindowInv' /\ CountInv'
           /\ stamps # <<>> /\ stamps' = <<>> /\ faults' = faults
                => Len(streak) + 1 = Threshold
<1>1. CASE UNCHANGED <<stamps, streak>> /\ CountInv'
    BY <1>1 DEF WindowInv, Ordered
<1>2. CASE UNCHANGED <<puts, faults, sole>> /\ Blocked
    <2>1. Ordered(stamps) /\ streak = Fresh(stamps) /\ Len(streak) \in Nat
        BY OrderedFacts DEF WindowInv
    <2>2. stamps' = Append(Fresh(stamps), 0) /\ streak' = stamps'
        BY <1>2, <2>1 DEF Blocked, Recent
    <2>3. Ordered(stamps') /\ Fresh(stamps') = stamps' /\ Len(stamps') = Len(streak) + 1
        BY <2>1, <2>2, FreshAppend
    <2>4. Len(streak) + 1 < Threshold
        BY <1>2, <2>1, BoundsAssumption DEF Blocked, Spike, Recent
    <2>5. stamps' # <<>>
        <3>1. Len(<<>>) = 0
            OBVIOUS
        <3> QED BY <2>1, <2>3, <3>1
    <2> QED BY <1>2, <2>2, <2>3, <2>4, <2>5 DEF WindowInv, CountInv
<1>3. CASE UNCHANGED <<puts, faults, sole>> /\ Alerted
    <2>1. streak = Fresh(stamps) /\ Len(streak) \in Nat /\ Len(streak) < Threshold
        BY OrderedFacts DEF WindowInv
    <2>2. Len(streak) + 1 = Threshold
        BY <1>3, <2>1, BoundsAssumption DEF Alerted, Spike, Recent
    <2>3. WindowInv'
        BY <1>3, NothingStamped DEF Alerted, WindowInv
    <2> QED BY <1>3, <2>2, <2>3 DEF CountInv
<1>4. ASSUME NEW c \in Clients, Step(c)
      PROVE  \/ UNCHANGED <<stamps, streak>> /\ CountInv'
             \/ UNCHANGED <<puts, faults, sole>> /\ (Blocked \/ Alerted)
    BY <1>4, StepWindow DEF CountInv
<1>5. ASSUME NEW c \in Clients, ClientFault(c)
      PROVE  UNCHANGED <<stamps, streak>> /\ CountInv'
    BY <1>5, BoundsAssumption DEF ClientFault, Fault, guard, CountInv
<1>6. ASSUME (\E s \in Shards : Drop(s)) \/ (\E p \in Places : Prune(p))
      PROVE  UNCHANGED <<stamps, streak>> /\ CountInv'
    <2>1. UNCHANGED <<stamps, streak, puts, faults, sole>>
        BY <1>6 DEF Drop, rest, guard, Prune, ScanL1, ScanL2, Due, DemoteL1, ArchivePut,
                    VectorDelete, CacheDelete, Pruned, Spare
    <2> QED BY <2>1 DEF CountInv
<1>7. CASE Tick
    <2>1. /\ WindowInv' /\ UNCHANGED <<puts, faults, sole>>
          /\ ~(stamps # <<>> /\ stamps' = <<>>)
        BY <1>7, TickWindow
    <2>2. CountInv'
        BY <2>1 DEF CountInv
    <2> QED BY <2>1, <2>2
<1>8. CASE Restart
    <2>1. /\ stamps' = <<>> /\ streak' = <<>> /\ UNCHANGED <<puts, sole>>
          /\ faults < MaxFaults /\ faults' = faults + 1
        BY <1>8 DEF Restart, Fault
    <2>2. faults' \in 0..MaxFaults /\ faults' # faults
        BY <2>1, BoundsAssumption DEF CountInv
    <2> QED BY <2>1, <2>2, NothingStamped DEF WindowInv, CountInv
<1>9. CASE UNCHANGED vars
    BY <1>1, <1>9 DEF vars, CountInv
<1>10. CASE Next
    BY <1>1, <1>2, <1>3, <1>4, <1>5, <1>6, <1>7, <1>8, <1>10, CallWindow DEF Next
<1> QED BY <1>9, <1>10

LEMMA WindowInit == Init => WindowInv /\ CountInv
BY NothingStamped, BoundsAssumption DEF Init, WindowInv, CountInv

\* The stores, the coroutines and the window keep their types.
THEOREM Typing == Spec => []TypeOK
<1>1. Init => (Inv /\ BatchInv) /\ (WindowInv /\ CountInv)
    BY InvInit, BatchInit, WindowInit
<1>2. (Inv /\ BatchInv) /\ (WindowInv /\ CountInv) /\ [Next]_vars
          => (Inv /\ BatchInv)' /\ (WindowInv /\ CountInv)'
    BY InvStep, WindowStep
<1>3. (Inv /\ BatchInv) /\ (WindowInv /\ CountInv) => TypeOK
    BY DEF Inv, BatchInv, TypeInv, WindowInv, Ordered, CountInv, TypeOK
<1> QED BY <1>1, <1>2, <1>3, PTL DEF Spec

\* The alert comes with the very block that makes the threshold within the
\* window, for any threshold and window, whatever calls overlap and however the
\* ticks fall between their blocks; and no number of blocks passes without it.
THEOREM Alert == Spec => SpikeAlert
<1> DEFINE Body ==
        /\ Len(streak') < Threshold
        /\ stamps # <<>> /\ stamps' = <<>> /\ faults' = faults
             => Len(streak) + 1 = Threshold
<1>1. WindowInv /\ CountInv /\ [Next]_vars => (WindowInv /\ CountInv)' /\ [Body]_vars
    BY WindowStep DEF WindowInv
<1>2. Spec => [](WindowInv /\ CountInv)
    BY <1>1, WindowInit, PTL DEF Spec
<1> QED BY <1>1, <1>2, PTL DEF Spec, SpikeAlert
=============================================================================
