-------------------------- MODULE AttestationProofs --------------------------
(***************************************************************************)
(* Theorems about Attestation: whatever is registered, a receipt stays     *)
(* accepted; an undamaged log replays; a log that replays is one that      *)
(* append() made; and its Merkle root commits to its hashes, if their      *)
(* number is known or one is no inner node, for any number of receipts,    *)
(* damages and restarts.                                                   *)
(***************************************************************************)
EXTENDS Attestation, SequenceTheorems, NumberLemmas, TLAPS

-----------------------------------------------------------------------------
(* Shapes of receipts, rows and tables.                                    *)

\* A receipt is a record of five fields, whatever its hashes are.
WellFormed(r) ==
    /\ r = [body |-> r.body, actor |-> r.actor, prev |-> r.prev, hash |-> r.hash,
            signature |-> r.signature]
    /\ IsReceipt(r)

WellFormedRow(x) ==
    /\ x = [hash |-> x.hash, receipt |-> x.receipt]
    /\ WellFormed(x.receipt)

Table(table) == \E S : table \in Seq(S) /\ \A x \in S : WellFormedRow(x)

TypeInv ==
    /\ registry \in [KeyIds -> Keys \union {None}]
    /\ signer \in Signers
    /\ draft = [t \in Tasks |-> draft[t]]
    /\ \A t \in Tasks : draft[t] = None \/ WellFormed(draft[t])
    /\ Table(rows)
    /\ sealed \in 0..MaxReceipts /\ damages \in 0..MaxTroubles
    /\ restarts \in 0..MaxTroubles
    /\ intact \in BOOLEAN

LEMMA TableFacts ==
    ASSUME NEW table, Table(table)
    PROVE  /\ Len(table) \in Nat /\ DOMAIN table = 1..Len(table)
           /\ \A i \in DOMAIN table : WellFormedRow(table[i])
           /\ table = <<>> <=> Len(table) = 0
           /\ table \in Seq({table[i] : i \in DOMAIN table})
<1>1. PICK S : table \in Seq(S) /\ \A x \in S : WellFormedRow(x)
    BY DEF Table
<1>2. Len(table) \in Nat /\ DOMAIN table = 1..Len(table)
    BY <1>1
<1>3. \A i \in DOMAIN table : table[i] \in S
    BY <1>1, <1>2, ElementOfSeq
<1>4. table \in [1..Len(table) -> {table[i] : i \in DOMAIN table}]
    BY <1>1, <1>2
<1> QED BY <1>1, <1>2, <1>3, <1>4, SeqDef

-----------------------------------------------------------------------------
(* What damage makes of the rows.                                          *)

\* x is a row of the table, or one of whose parts the body is replaced or a
\* hash is damaged, or a copy of it under another hash.
Derived(x) ==
    /\ WellFormedRow(x)
    /\ \E i \in DOMAIN rows :
          /\ x.receipt.prev = rows[i].receipt.prev
          /\ x.receipt.signature = rows[i].receipt.signature
          /\ x.hash = rows[i].hash \/ x.hash \in Strays
          /\ \/ x.receipt = rows[i].receipt
             \/ x.receipt.body = 0
             \/ x.receipt.hash = <<"damaged">>

Harm ==
    \/ LoseTail
    \/ \E i, j \in DOMAIN rows :
          \/ LoseRow(i)
          \/ SwapRows(i, j)
          \/ \E rehashed \in BOOLEAN : AlterReceipt(i, rehashed)
          \/ AlterHash(i)
          \/ \E stray \in Strays : AlterColumn(i, stray)
          \/ InsertRow(i, j)
          \/ InsertRow(Len(rows) + 1, j)

\* s with y put in before the p-th element, or after the last.
With(s, y, p) == SubSeq(s, 1, p - 1) \o <<y>> \o SubSeq(s, p, Len(s))

Widened(r, s, y, p) ==
    /\ Len(r) = Len(s) + 1
    /\ \A k \in 1..(p - 1) : r[k] = s[k]
    /\ r[p] = y
    /\ \A k \in (p + 1)..(Len(s) + 1) : r[k] = s[k - 1]

LEMMA Inserted ==
    ASSUME NEW S, NEW s \in Seq(S), NEW y \in S, NEW p \in 1..(Len(s) + 1)
    PROVE  With(s, y, p) \in Seq(S) /\ Widened(With(s, y, p), s, y, p)
<1> DEFINE n == Len(s)
           front == SubSeq(s, 1, p - 1)
           back  == SubSeq(s, p, n)
           start == front \o <<y>>
           r     == With(s, y, p)
<1>1. n \in Nat /\ p \in Int /\ 1 <= p /\ p <= n + 1 /\ \A k \in 1..n : s[k] \in S
    BY LenProperties, ElementOfSeq
<1>2. /\ front \in Seq(S) /\ Len(front) = p - 1
      /\ \A k \in 1..(p - 1) : front[k] = s[k]
    BY <1>1, SubSeqProperties
<1>3. /\ back \in Seq(S) /\ Len(back) = n - p + 1
      /\ \A k \in 1..(n - p + 1) : back[k] = s[p + k - 1]
    BY <1>1, SubSeqProperties
<1> HIDE DEF n, front, back
<1>4. <<y>> \in Seq(S) /\ Len(<<y>>) = 1 /\ <<y>>[1] = y
    OBVIOUS
<1>5. /\ start \in Seq(S) /\ Len(start) = p
      /\ \A k \in 1..p : start[k] = IF k <= p - 1 THEN front[k] ELSE <<y>>[k - (p - 1)]
    <2>1. Len(front) + Len(<<y>>) = p
        BY <1>1, <1>2, <1>4
    <2> QED BY <1>2, <1>4, <2>1, ConcatProperties
<1>6. (\A k \in 1..(p - 1) : start[k] = s[k]) /\ start[p] = y
    <2>1. \A k \in 1..(p - 1) : k \in 1..p /\ k <= p - 1
        BY <1>1
    <2>2. p \in 1..p /\ ~(p <= p - 1) /\ p - (p - 1) = 1
        BY <1>1
    <2> QED BY <1>2, <1>4, <1>5, <2>1, <2>2
<1> HIDE DEF start
<1>7. r = start \o back
    BY DEF start, front, back, n, With
<1> HIDE DEF r
<1>8. /\ r \in Seq(S) /\ Len(r) = n + 1
      /\ \A k \in 1..(n + 1) : r[k] = IF k <= p THEN start[k] ELSE back[k - p]
    <2>1. Len(start) + Len(back) = n + 1
        BY <1>1, <1>3, <1>5
    <2>2. /\ start \o back \in Seq(S)
          /\ Len(start \o back) = Len(start) + Len(back)
          /\ \A k \in 1..(Len(start) + Len(back)) :
                (start \o back)[k] = IF k <= Len(start) THEN start[k]
                                     ELSE back[k - Len(start)]
        BY <1>3, <1>5, ConcatProperties
    <2>3. Len(start) = p
        BY <1>5
    <2> QED BY <1>7, <2>1, <2>2, <2>3
<1>9. \A k \in (p + 1)..(n + 1) : r[k] = s[k - 1]
    <2> TAKE k \in (p + 1)..(n + 1)
    <2>1. /\ k \in 1..(n + 1) /\ ~(k <= p)
          /\ k - p \in 1..(n - p + 1) /\ p + (k - p) - 1 = k - 1
        BY <1>1
    <2> QED BY <1>3, <1>8, <2>1
<1>10. \A k \in 1..p : k \in 1..(n + 1) /\ k <= p
    BY <1>1
<1>11. p \in 1..p /\ \A k \in 1..(p - 1) : k \in 1..p
    BY <1>1
<1>12. r[p] = y /\ \A k \in 1..(p - 1) : r[k] = s[k]
    BY <1>6, <1>8, <1>10, <1>11
<1> QED BY <1>8, <1>9, <1>12 DEF n, r, Widened

\* InsertRow in full.
LEMMA InsertRowFields ==
    ASSUME TypeInv, NEW j \in DOMAIN rows, NEW p \in 1..(Len(rows) + 1), InsertRow(p, j)
    PROVE  \E y : /\ y.hash \in Strays /\ y.receipt = rows[j].receipt
                  /\ y = [hash |-> y.hash, receipt |-> y.receipt]
                  /\ rows' \in Seq({rows[k] : k \in DOMAIN rows} \union {y})
                  /\ Len(rows') = Len(rows) + 1
                  /\ \A k \in 1..(p - 1) : rows'[k] = rows[k]
                  /\ rows'[p] = y
                  /\ \A k \in (p + 1)..(Len(rows) + 1) : rows'[k] = rows[k - 1]
<1> DEFINE y == [rows[j] EXCEPT !.hash = Blue]
           R == {rows[k] : k \in DOMAIN rows}
           S == R \union {y}
<1>1. rows[j] = [hash |-> rows[j].hash, receipt |-> rows[j].receipt]
    BY TableFacts DEF TypeInv, WellFormedRow
<1>2. y.hash = Blue /\ y.receipt = rows[j].receipt
      /\ y = [hash |-> y.hash, receipt |-> y.receipt]
    BY <1>1
<1>3. rows \in Seq(S) /\ y \in S
    <2>1. rows \in Seq(R)
        BY TableFacts DEF TypeInv
    <2> QED BY <2>1, SeqMonotonic
<1>4. rows' = SubSeq(rows, 1, p - 1) \o <<y>> \o SubSeq(rows, p, Len(rows))
      /\ Blue \in Strays
    BY DEF InsertRow, Damage
<1> HIDE DEF y, S
<1>5. /\ rows' \in Seq(S) /\ Len(rows') = Len(rows) + 1
      /\ \A k \in 1..(p - 1) : rows'[k] = rows[k]
      /\ rows'[p] = y
      /\ \A k \in (p + 1)..(Len(rows) + 1) : rows'[k] = rows[k - 1]
    <2> HIDE DEF R
    <2>1. rows' = With(rows, y, p)
        BY <1>4 DEF With
    <2>2. With(rows, y, p) \in Seq(S) /\ Widened(With(rows, y, p), rows, y, p)
        BY <1>3, Inserted
    <2> QED BY <2>1, <2>2 DEF Widened
<1> QED BY <1>2, <1>4, <1>5 DEF S

\* One row is replaced.
LEMMA ReplaceRow ==
    ASSUME Table(rows), NEW i \in DOMAIN rows, NEW x, Derived(x),
           rows' = [rows EXCEPT ![i] = x]
    PROVE  \E S : rows' \in Seq(S) /\ \A y \in S : Derived(y)
<1> DEFINE R == {rows[k] : k \in DOMAIN rows}
           S == R \union {x}
<1>1. rows \in Seq(S)
    <2>1. rows \in Seq(R)
        BY TableFacts
    <2> QED BY <2>1, SeqMonotonic
<1>2. rows' \in Seq(S)
    BY <1>1, TableFacts, ExceptSeq
<1>3. ASSUME NEW k \in DOMAIN rows PROVE Derived(rows[k])
    BY <1>3, TableFacts DEF Derived
<1>4. \A y \in S : Derived(y)
    BY <1>3
<1> QED BY <1>2, <1>4

LEMMA HarmRows ==
    ASSUME TypeInv, Harm
    PROVE  \E S : rows' \in Seq(S) /\ \A y \in S : Derived(y)
<1> DEFINE R == {rows[k] : k \in DOMAIN rows}
<1>1. /\ Len(rows) \in Nat /\ DOMAIN rows = 1..Len(rows) /\ rows \in Seq(R)
      /\ \A i \in DOMAIN rows : WellFormedRow(rows[i])
      /\ Table(rows)
    BY TableFacts DEF TypeInv
<1>2. \A x \in R : Derived(x)
    BY <1>1 DEF Derived
<1>3. CASE LoseTail
    <2>1. rows' = SubSeq(rows, 1, Len(rows) - 1)
        BY <1>3 DEF LoseTail, Damage
    <2>2. rows' \in Seq(R)
        BY <1>1, <2>1, SubSeqProperties
    <2> QED BY <1>2, <2>2
<1>4. ASSUME NEW i \in DOMAIN rows, LoseRow(i)
      PROVE  \E S : rows' \in Seq(S) /\ \A y \in S : Derived(y)
    <2>1. SubSeq(rows, 1, i-1) \in Seq(R) /\ SubSeq(rows, i+1, Len(rows)) \in Seq(R)
        BY <1>1, SubSeqProperties
    <2>2. rows' \in Seq(R)
        BY <1>4, <2>1, ConcatProperties DEF LoseRow, Damage
    <2> QED BY <1>2, <2>2
<1>5. ASSUME NEW i \in DOMAIN rows, NEW j \in DOMAIN rows, SwapRows(i, j)
      PROVE  \E S : rows' \in Seq(S) /\ \A y \in S : Derived(y)
    <2>1. rows' = [rows EXCEPT ![i] = rows[j], ![j] = rows[i]]
        BY <1>5 DEF SwapRows, Damage
    <2>2. rows' \in Seq(R)
        BY <1>1, <2>1
    <2> QED BY <1>2, <2>2
<1>6. ASSUME NEW i \in DOMAIN rows, NEW rehashed \in BOOLEAN, AlterReceipt(i, rehashed)
      PROVE  \E S : rows' \in Seq(S) /\ \A y \in S : Derived(y)
    <2> DEFINE old == rows[i].receipt
               r   == [old EXCEPT !.body = 0]
               new == IF rehashed
                      THEN [r EXCEPT !.hash = Envelope(r.body, r.actor, r.prev)]
                      ELSE r
               x   == [rows[i] EXCEPT !.receipt = new]
    <2>1. /\ rows[i] = [hash |-> rows[i].hash, receipt |-> old]
          /\ WellFormed(old)
        BY <1>1 DEF WellFormedRow
    <2>2. /\ new = [body |-> 0, actor |-> old.actor, prev |-> old.prev,
                    hash |-> new.hash, signature |-> old.signature]
        BY <2>1 DEF WellFormed
    <2>3. WellFormed(new) /\ new.body = 0 /\ new.prev = old.prev
          /\ new.signature = old.signature
        BY <2>1, <2>2, BoundsAssumption DEF WellFormed, IsReceipt, Bodies
    <2>4. rows' = [rows EXCEPT ![i] = x]
        BY <1>1, <1>6 DEF AlterReceipt, Damage
    <2> HIDE DEF new
    <2>5. x.hash = rows[i].hash /\ x.receipt = new /\ x = [hash |-> x.hash, receipt |-> new]
        BY <2>1
    <2> HIDE DEF x
    <2>6. Derived(x)
        BY <2>3, <2>5 DEF Derived, WellFormedRow
    <2> QED BY <1>1, <2>4, <2>6, ReplaceRow
<1>7. ASSUME NEW i \in DOMAIN rows, AlterHash(i)
      PROVE  \E S : rows' \in Seq(S) /\ \A y \in S : Derived(y)
    <2> DEFINE old == rows[i].receipt
               new == [old EXCEPT !.hash = <<"damaged">>]
               x   == [rows[i] EXCEPT !.receipt = new]
    <2>1. /\ rows[i] = [hash |-> rows[i].hash, receipt |-> old]
          /\ WellFormed(old)
        BY <1>1 DEF WellFormedRow
    <2>2. new = [body |-> old.body, actor |-> old.actor, prev |-> old.prev,
                 hash |-> <<"damaged">>, signature |-> old.signature]
        BY <2>1 DEF WellFormed
    <2>3. WellFormed(new) /\ new.hash = <<"damaged">> /\ new.prev = old.prev
          /\ new.signature = old.signature
        BY <2>1, <2>2 DEF WellFormed, IsReceipt
    <2>4. rows' = [rows EXCEPT ![i] = x]
        BY <1>1, <1>7 DEF AlterHash, Damage
    <2> HIDE DEF new
    <2>5. x.hash = rows[i].hash /\ x.receipt = new /\ x = [hash |-> x.hash, receipt |-> new]
        BY <2>1
    <2> HIDE DEF x
    <2>6. Derived(x)
        BY <2>3, <2>5 DEF Derived, WellFormedRow
    <2> QED BY <1>1, <2>4, <2>6, ReplaceRow
<1>8. ASSUME NEW i \in DOMAIN rows, NEW stray \in Strays, AlterColumn(i, stray)
      PROVE  \E S : rows' \in Seq(S) /\ \A y \in S : Derived(y)
    <2> DEFINE x == [rows[i] EXCEPT !.hash = stray]
    <2>1. /\ rows[i] = [hash |-> rows[i].hash, receipt |-> rows[i].receipt]
          /\ WellFormed(rows[i].receipt)
        BY <1>1 DEF WellFormedRow
    <2>2. x = [hash |-> stray, receipt |-> rows[i].receipt]
        BY <2>1
    <2>3. rows' = [rows EXCEPT ![i] = x]
        BY <1>8 DEF AlterColumn, Damage
    <2> HIDE DEF x
    <2>4. Derived(x)
        BY <2>1, <2>2 DEF Derived, WellFormedRow
    <2> QED BY <1>1, <2>3, <2>4, ReplaceRow
<1>9. ASSUME NEW j \in DOMAIN rows, NEW p \in 1..(Len(rows) + 1), InsertRow(p, j)
      PROVE  \E S : rows' \in Seq(S) /\ \A y \in S : Derived(y)
    <2>1. PICK y : /\ y.hash \in Strays /\ y.receipt = rows[j].receipt
                   /\ y = [hash |-> y.hash, receipt |-> y.receipt]
                   /\ rows' \in Seq(R \union {y})
        BY <1>9, InsertRowFields
    <2>2. Derived(y)
        BY <1>1, <2>1 DEF Derived, WellFormedRow
    <2>3. \A z \in R \union {y} : Derived(z)
        BY <1>2, <2>2
    <2> QED BY <2>1, <2>3
<1> HIDE DEF R
<1>10. /\ \A i \in DOMAIN rows : i \in 1..(Len(rows) + 1)
       /\ Len(rows) + 1 \in 1..(Len(rows) + 1)
    BY <1>1
<1> QED BY <1>3, <1>4, <1>5, <1>6, <1>7, <1>8, <1>9, <1>10 DEF Harm

\* What damage leaves alone.
LEMMA DamageFrame ==
    ASSUME TypeInv, NEW table, Damage(table)
    PROVE  /\ UNCHANGED <<registry, signer, draft, sealed, notary, genuine, restarts>>
           /\ damages' \in 0..MaxTroubles
BY BoundsAssumption DEF Damage, TypeInv

LEMMA HarmFrame ==
    ASSUME TypeInv, Harm
    PROVE  /\ UNCHANGED <<registry, signer, draft, sealed, notary, genuine, restarts>>
           /\ damages' \in 0..MaxTroubles /\ intact' \in BOOLEAN
           /\ intact' => LoseTail /\ intact
<1>1. PICK table : Damage(table)
    <2>1. ASSUME LoseTail PROVE \E table : Damage(table)
        BY <2>1 DEF LoseTail
    <2>2. ASSUME NEW i, NEW j, LoseRow(i) \/ SwapRows(i, j)
          PROVE  \E table : Damage(table)
        BY <2>2 DEF LoseRow, SwapRows
    <2>3. ASSUME NEW i, NEW rehashed, AlterReceipt(i, rehashed)
          PROVE  \E table : Damage(table)
        BY <2>3 DEF AlterReceipt
    <2>4. ASSUME NEW i, AlterHash(i) PROVE \E table : Damage(table)
        BY <2>4 DEF AlterHash
    <2>5. ASSUME NEW i, NEW stray, AlterColumn(i, stray) PROVE \E table : Damage(table)
        BY <2>5 DEF AlterColumn
    <2>6. ASSUME NEW i, NEW j, InsertRow(i, j) PROVE \E table : Damage(table)
        BY <2>6 DEF InsertRow
    <2> QED BY <2>1, <2>2, <2>3, <2>4, <2>5, <2>6 DEF Harm
<1>2. (LoseTail /\ intact' = intact) \/ intact' = FALSE
    BY DEF Harm, LoseTail, LoseRow, SwapRows, AlterReceipt, AlterHash, AlterColumn,
           InsertRow
<1>3. /\ UNCHANGED <<registry, signer, draft, sealed, notary, genuine, restarts>>
      /\ damages' \in 0..MaxTroubles
    BY <1>1, DamageFrame
<1>4. intact \in BOOLEAN
    BY DEF TypeInv
<1>5. intact' \in BOOLEAN /\ (intact' => LoseTail /\ intact)
    <2>1. CASE LoseTail /\ intact' = intact
        BY <1>4, <2>1, Zenon
    <2>2. CASE intact' = FALSE
        BY <2>2, Zenon
    <2> QED BY <1>2, <2>1, <2>2
<1> QED BY <1>3, <1>5
-----------------------------------------------------------------------------
(* Types.                                                                  *)

\* What a signer seals is a receipt.
LEMMA SealedReceipt ==
    ASSUME NEW s \in Signers, NEW n \in Bodies, NEW link
    PROVE  /\ WellFormed(SignReceipt(s, n, link))
           /\ SignReceipt(s, n, link).body = n
           /\ SignReceipt(s, n, link).prev = link
           /\ SignReceipt(s, n, link).hash = Envelope(n, s.id, link)
           /\ SignReceipt(s, n, link).actor = s.id
           /\ SignReceipt(s, n, link).signature.of = Envelope(n, s.id, link)
BY DEF SignReceipt, WellFormed, IsReceipt, Signers

LEMMA TypeInit == Init => TypeInv
<1> SUFFICES ASSUME Init PROVE TypeInv
    OBVIOUS
<1>1. Table(rows)
    <2>1. rows \in Seq({})
        BY DEF Init
    <2> QED BY <2>1 DEF Table
<1> QED BY <1>1, BoundsAssumption DEF Init, TypeInv

\* Insert in full.
LEMMA InsertRows ==
    ASSUME TypeInv, NEW t \in Tasks, draft[t] # None, Insert(t)
    PROVE  /\ Table(rows') /\ Len(rows') = Len(rows) + 1
           /\ \A i \in DOMAIN rows : i \in DOMAIN rows' /\ rows'[i] = rows[i]
           /\ rows'[Len(rows) + 1] = Row(draft[t])
           /\ DOMAIN rows' = 1..Len(rows) + 1
<1> DEFINE R == {rows[k] : k \in DOMAIN rows}
           x == Row(draft[t])
           S == R \union {x}
<1>1. /\ Len(rows) \in Nat /\ DOMAIN rows = 1..Len(rows) /\ rows \in Seq(R)
      /\ \A i \in DOMAIN rows : WellFormedRow(rows[i])
    BY TableFacts DEF TypeInv
<1>2. WellFormedRow(x)
    BY DEF Row, WellFormedRow, TypeInv
<1>3. rows' = Append(rows, x)
    BY DEF Insert
<1>4. rows \in Seq(S) /\ x \in S
    BY <1>1, SeqMonotonic
<1>5. \A y \in S : WellFormedRow(y)
    BY <1>1, <1>2
<1> HIDE DEF R, x, S
<1>6. /\ rows' \in Seq(S) /\ Len(rows') = Len(rows) + 1
      /\ \A i \in 1..Len(rows) : rows'[i] = rows[i]
      /\ rows'[Len(rows) + 1] = x
    BY <1>3, <1>4, AppendProperties
<1>7. Table(rows')
    BY <1>5, <1>6 DEF Table
<1> QED BY <1>1, <1>6, <1>7 DEF x

LEMMA TypeStep == TypeInv /\ [Next]_vars => TypeInv'
<1> SUFFICES ASSUME TypeInv, [Next]_vars PROVE TypeInv'
    OBVIOUS
<1> USE BoundsAssumption
<1>1. ASSUME NEW id \in KeyIds, NEW key \in Keys, Register(id, key) PROVE TypeInv'
    BY <1>1 DEF Register, TypeInv
<1>2. ASSUME NEW s \in Signers, Rotate(s) PROVE TypeInv'
    BY <1>2 DEF Rotate, TypeInv
<1>3. ASSUME NEW t \in Tasks, Seal(t) PROVE TypeInv'
    <2>1. sealed + 1 \in Bodies /\ sealed' = sealed + 1 /\ sealed' \in 0..MaxReceipts
        BY <1>3 DEF Seal, Bodies, TypeInv
    <2> DEFINE r == SignReceipt(signer, sealed + 1, Tip)
    <2>2. WellFormed(r)
        BY <2>1, SealedReceipt DEF TypeInv
    <2>3. draft' = [draft EXCEPT ![t] = r]
        BY <1>3 DEF Seal
    <2> HIDE DEF r
    <2>4. /\ draft' = [u \in Tasks |-> draft'[u]]
          /\ \A u \in Tasks : draft'[u] = None \/ WellFormed(draft'[u])
        BY <2>2, <2>3 DEF TypeInv
    <2> QED BY <1>3, <2>1, <2>4 DEF Seal, TypeInv
<1>4. ASSUME NEW t \in Tasks, AppendReceipt(t) PROVE TypeInv'
    <2>1. Table(rows')
        BY <1>4, InsertRows DEF AppendReceipt
    <2> QED BY <1>4, <2>1 DEF AppendReceipt, Insert, TypeInv
<1>5. ASSUME NEW t \in Tasks, Refuse(t) PROVE TypeInv'
    BY <1>5 DEF Refuse, TypeInv
<1>6. CASE Publish
    BY <1>6 DEF Publish, TypeInv
<1>7. CASE Harm
    <2>1. Table(rows')
        BY <1>7, HarmRows DEF Table, Derived
    <2> QED BY <1>7, <2>1, HarmFrame DEF TypeInv
<1>8. CASE Restart
    BY <1>8 DEF Restart, TypeInv
<1>9. CASE UNCHANGED vars
    BY <1>9 DEF vars, TypeInv
<1> QED
    BY <1>1, <1>2, <1>3, <1>4, <1>5, <1>6, <1>7, <1>8, <1>9 DEF Next, Harm

\* Every receipt in flight or in the table stays one, whatever is damaged.
THEOREM Typing == Spec => []TypeOK
<1>1. TypeInv => TypeOK
    BY TableFacts DEF TypeInv, TypeOK, WellFormed, WellFormedRow
<1> QED BY TypeInit, TypeStep, <1>1, PTL DEF Spec

-----------------------------------------------------------------------------
(* Registered keys.                                                        *)

\* register() never takes a key away: what was accepted stays accepted.
LEMMA AcceptedStays ==
    ASSUME TypeInv, NEW id \in KeyIds, NEW key \in Keys, Register(id, key),
           NEW r, r.actor \in KeyIds, Accepts(registry, r)
    PROVE  Accepts(registry', r)
<1>1. registry[r.actor] # None
    BY DEF Accepts
<1>2. registry'[r.actor] = registry[r.actor]
    BY <1>1 DEF Register, TypeInv
<1> QED BY <1>2 DEF Accepts

\* A receipt that verifies goes on verifying, across every registration, key
\* rotation, collision of ids and damage to other rows, until a restart.
THEOREM Rotation == Spec => RotationKeeps
<1> DEFINE Body ==
        restarts' = restarts
         => \A i \in DOMAIN rows :
               Accepts(registry, rows[i].receipt) => Accepts(registry', rows[i].receipt)
<1>1. ASSUME TypeInv, [Next]_vars, restarts' = restarts PROVE Body
    <2>1. CASE registry' = registry
        BY <2>1 DEF Accepts
    <2>2. ASSUME NEW id \in KeyIds, NEW key \in Keys, Register(id, key) PROVE Body
        <3>1. \A i \in DOMAIN rows : rows[i].receipt.actor \in KeyIds
            BY <1>1, TableFacts DEF TypeInv, WellFormedRow, WellFormed, IsReceipt
        <3> QED BY <1>1, <2>2, <3>1, AcceptedStays
    <2>3. ~Restart
        BY <1>1 DEF Restart, TypeInv
    <2>4. Harm => registry' = registry
        BY <1>1, HarmFrame
    <2>5. registry' = registry \/ \E id \in KeyIds, key \in Keys : Register(id, key)
        BY <1>1, <2>3, <2>4
           DEF Next, Harm, Rotate, Seal, AppendReceipt, Insert, Refuse, Publish, vars
    <2> QED BY <2>1, <2>2, <2>5
<1>2. TypeInv /\ [Next]_vars => [Body]_vars
    BY <1>1
<1>3. Spec => []TypeInv
    BY TypeInit, TypeStep, PTL DEF Spec
<1> QED BY <1>2, <1>3, PTL DEF Spec, RotationKeeps
-----------------------------------------------------------------------------
(* No false alarm.                                                         *)

\* Row i links, is accepted, and its hash column is its receipt's hash.
RowReplays(i) ==
    /\ rows[i].hash = rows[i].receipt.hash
    /\ rows[i].receipt.prev = LinkAt(i)
    /\ Accepts(registry, rows[i].receipt)

CompleteInv == intact /\ restarts = 0 => \A i \in DOMAIN rows : RowReplays(i)

\* The tip of a log that replays is the link its next row has to have.
LEMMA TipLinks ==
    ASSUME TypeInv, \A i \in DOMAIN rows : RowReplays(i)
    PROVE  Tip = LinkAt(Len(rows) + 1)
BY TableFacts DEF TypeInv, Tip, LinkAt, RowReplays

LEMMA NoRestart == TypeInv /\ restarts' = 0 => ~Restart
BY BoundsAssumption DEF Restart, TypeInv

LEMMA CompleteStep == TypeInv /\ CompleteInv /\ [Next]_vars => CompleteInv'
<1> SUFFICES ASSUME TypeInv, CompleteInv, [Next]_vars, intact', restarts' = 0,
                    NEW i \in DOMAIN rows'
             PROVE  RowReplays(i)'
    BY DEF CompleteInv
<1>1. /\ Len(rows) \in Nat /\ DOMAIN rows = 1..Len(rows)
      /\ \A k \in DOMAIN rows : rows[k].receipt.actor \in KeyIds
    BY TableFacts DEF TypeInv, WellFormedRow, WellFormed, IsReceipt
<1>2. intact /\ restarts = 0 => \A k \in DOMAIN rows : RowReplays(k)
    BY DEF CompleteInv
<1>3. ASSUME NEW id \in KeyIds, NEW key \in Keys, Register(id, key) PROVE RowReplays(i)'
    <2>1. rows' = rows /\ intact /\ restarts = 0
        BY <1>3 DEF Register
    <2>2. RowReplays(i)
        BY <1>2, <2>1
    <2>3. Accepts(registry', rows[i].receipt)
        BY <1>1, <1>3, <2>1, <2>2, AcceptedStays DEF RowReplays
    <2> QED BY <2>1, <2>2, <2>3 DEF RowReplays, LinkAt
<1>4. ASSUME NEW t \in Tasks, AppendReceipt(t) PROVE RowReplays(i)'
    <2>1. intact /\ restarts = 0 /\ registry' = registry
        BY <1>4 DEF AppendReceipt, Insert
    <2>2. /\ \A k \in DOMAIN rows : k \in DOMAIN rows' /\ rows'[k] = rows[k]
          /\ rows'[Len(rows) + 1] = Row(draft[t])
          /\ DOMAIN rows' = 1..Len(rows) + 1
        BY <1>4, InsertRows DEF AppendReceipt
    <2>3. CASE i \in DOMAIN rows
        <3>1. RowReplays(i)
            BY <1>2, <2>1, <2>3
        <3> QED BY <1>1, <2>1, <2>2, <2>3, <3>1 DEF RowReplays, LinkAt
    <2>4. CASE i = Len(rows) + 1
        <3>1. Accepts(registry, draft[t]) /\ draft[t].prev = Tip
            BY <1>4 DEF AppendReceipt
        <3>2. Tip = LinkAt(Len(rows) + 1)
            BY <1>2, <2>1, TipLinks
        <3>3. LinkAt(i)' = LinkAt(i)
            BY <1>1, <2>2, <2>4 DEF LinkAt
        <3> QED BY <2>1, <2>2, <2>4, <3>1, <3>2, <3>3 DEF RowReplays, Row
    <2> QED BY <1>1, <2>2, <2>3, <2>4
<1>5. CASE Harm
    <2>1. /\ LoseTail /\ intact /\ restarts = 0 /\ registry' = registry
        BY <1>5, HarmFrame
    <2>2. rows' = SubSeq(rows, 1, Len(rows) - 1) /\ rows # <<>>
        BY <2>1 DEF LoseTail, Damage
    <2>3. Len(rows) > 0
        BY <1>1, <2>2, TableFacts DEF TypeInv
    <2>4. /\ DOMAIN rows' = 1..(Len(rows) - 1)
          /\ \A k \in 1..(Len(rows) - 1) : rows'[k] = rows[k]
        <3> DEFINE R == {rows[k] : k \in DOMAIN rows}
        <3>1. \A k \in 1..(Len(rows) - 1) : rows[k] \in R
            BY <1>1
        <3>2. /\ rows' \in Seq(R)
              /\ Len(rows') = Len(rows) - 1
              /\ \A k \in 1..(Len(rows) - 1) : rows'[k] = rows[k]
            <4> HIDE DEF R
            <4> QED BY <1>1, <2>2, <2>3, <3>1, SubSeqProperties
        <3> QED BY <3>2
    <2>5. RowReplays(i)
        BY <1>1, <1>2, <2>1, <2>4
    <2> QED BY <1>1, <2>1, <2>4, <2>5 DEF RowReplays, LinkAt
<1>6. ASSUME UNCHANGED <<rows, registry, intact, restarts>> PROVE RowReplays(i)'
    BY <1>2, <1>6 DEF RowReplays, LinkAt
<1>7. ~Restart
    BY NoRestart
<1>8. \/ Harm
      \/ \E id \in KeyIds, key \in Keys : Register(id, key)
      \/ \E t \in Tasks : AppendReceipt(t)
      \/ UNCHANGED <<rows, registry, intact, restarts>>
    BY <1>7 DEF Next, Harm, Rotate, Seal, Refuse, Publish, vars
<1> QED BY <1>3, <1>4, <1>5, <1>6, <1>8

\* verify_chain() raises no false alarm over a log that only append() wrote,
\* whatever was rotated, refused or cut off at the end.
THEOREM Complete == Spec => []ReplayComplete
<1>1. Init => CompleteInv
    BY DEF Init, CompleteInv
<1>2. CompleteInv => ReplayComplete
    BY DEF CompleteInv, ReplayComplete, Replays, RowReplays
<1> QED BY <1>1, <1>2, TypeInit, TypeStep, CompleteStep, PTL DEF Spec

-----------------------------------------------------------------------------
(* A log that replays was made by append().                                *)

\* The link of the first receipt is not the hash of any.
NotAHash == \A body, actor, link : None # Envelope(body, actor, link)

\* h is not the hash of a receipt with a number beyond n.
NotYet(h, n) ==
    \A m \in Nat : \A actor, link : m > n => h # Envelope(m, actor, link)

\* The hash and the signature are those of the receipt's own envelope.
Authentic(r) ==
    r.hash = Envelope(r.body, r.actor, r.prev) /\ r.signature.of = r.hash

\* On top of every one of the logs that r links to, it makes another.
Closed(r, logs) ==
    Authentic(r) => \A g \in logs : LastHash(g) = r.prev => Append(g, r) \in logs

IsSeq(g) == \E S : g \in Seq(S)

\* A row, after n receipts, with these logs genuine and these drafts in flight.
RowSound(x, n, logs, drafts) ==
    /\ \A actor, link : x.receipt.signature.of # Envelope(0, actor, link)
    /\ NotYet(x.hash, n) /\ NotYet(x.receipt.prev, n)
    /\ \A t \in Tasks : drafts[t] # None =>
          x.hash # drafts[t].hash /\ x.receipt.prev # drafts[t].hash
    /\ Closed(x.receipt, logs)

\* The draft of t among those in flight, after n receipts.
DraftSound(t, n, drafts) ==
    /\ drafts[t].body \in 1..n
    /\ Authentic(drafts[t])
    /\ NotYet(drafts[t].prev, n)
    /\ \A u \in Tasks : drafts[u] # None =>
          /\ u # t => drafts[u].body # drafts[t].body
          /\ drafts[u].prev # drafts[t].hash

\* A hash that is none of a receipt in flight or to come.
OldHash(h, n, drafts) ==
    NotYet(h, n) /\ \A t \in Tasks : drafts[t] # None => h # drafts[t].hash

SoundInv ==
    /\ <<>> \in genuine
    /\ \A g \in genuine : IsSeq(g)
    /\ \A i \in DOMAIN rows : RowSound(rows[i], sealed, genuine, draft)
    /\ \A t \in Tasks : draft[t] # None => DraftSound(t, sealed, draft)
    /\ \A h \in Published : OldHash(h, sealed, draft)

\* An envelope is of one receipt, and no damaged hash is one.
LEMMA Injective ==
    /\ \A n, a, p, m, b, q : Envelope(n, a, p) = Envelope(m, b, q) => n = m
    /\ \A n, a, p : Envelope(n, a, p) # <<"damaged">>
    /\ \A n, a, p, k : Envelope(n, a, p) # <<"damaged", k>>
    /\ \A n, a, p, x, y : Envelope(n, a, p) # <<"node", x, y>>
BY DEF Envelope

\* The genuine logs that append() adds end with the receipt appended.
LEMMA GenuineGrows ==
    ASSUME SoundInv, NEW t \in Tasks, Insert(t), NEW g \in genuine', g \notin genuine
    PROVE  IsSeq(g) /\ LastHash(g) = draft[t].hash
<1>1. PICK h \in genuine : g = Append(h, draft[t])
    BY DEF Insert
<1>2. PICK S : h \in Seq(S)
    BY DEF SoundInv, IsSeq
<1>3. h \in Seq(S \union {draft[t]})
    BY <1>2, SeqMonotonic
<1>4. /\ g \in Seq(S \union {draft[t]}) /\ g # <<>> /\ Len(g) = Len(h) + 1
      /\ g[Len(h) + 1] = draft[t]
    BY <1>1, <1>3, AppendProperties
<1> QED BY <1>4 DEF IsSeq, LastHash

\* The link that a receipt gets is not the hash of one in flight or to come.
LEMMA TipOld ==
    ASSUME NotAHash, TypeInv, SoundInv
    PROVE  /\ NotYet(Tip, sealed)
           /\ \A t \in Tasks : draft[t] # None => Tip # draft[t].hash
<1>1. CASE rows = <<>>
    BY <1>1 DEF Tip, NotYet, NotAHash, SoundInv, DraftSound, Authentic
<1>2. CASE rows # <<>>
    <2>1. Len(rows) \in DOMAIN rows /\ Tip = rows[Len(rows)].hash
        BY <1>2, TableFacts DEF Tip, TypeInv
    <2> QED BY <2>1 DEF SoundInv, RowSound
<1> QED BY <1>1, <1>2

LEMMA SoundSeal ==
    ASSUME NotAHash, TypeInv, SoundInv, NEW t \in Tasks, Seal(t)
    PROVE  SoundInv'
<1> DEFINE d == SignReceipt(signer, sealed + 1, Tip)
<1>1. /\ sealed \in Nat /\ sealed' = sealed + 1 /\ sealed + 1 \in Bodies
      /\ rows' = rows /\ genuine' = genuine /\ draft' = [draft EXCEPT ![t] = d]
      /\ draft[t] = None
    BY BoundsAssumption DEF Seal, TypeInv, Bodies
<1>2. /\ d.body = sealed + 1 /\ d.prev = Tip /\ Authentic(d)
      /\ d.hash = Envelope(sealed + 1, d.actor, d.prev)
    BY <1>1, SealedReceipt DEF Authentic, TypeInv
<1> HIDE DEF d
<1>3. draft'[t] = d /\ \A u \in Tasks : u # t => draft'[u] = draft[u]
    BY <1>1 DEF TypeInv
<1>4. \A h : NotYet(h, sealed) => NotYet(h, sealed') /\ h # d.hash
    BY <1>1, <1>2 DEF NotYet
<1>5. ASSUME NEW i \in DOMAIN rows PROVE RowSound(rows[i], sealed', genuine', draft')
    <2>1. RowSound(rows[i], sealed, genuine, draft)
        BY DEF SoundInv
    <2>2. NotYet(rows[i].hash, sealed') /\ NotYet(rows[i].receipt.prev, sealed')
        BY <1>4, <2>1 DEF RowSound
    <2>3. \A u \in Tasks : draft'[u] # None =>
              rows[i].hash # draft'[u].hash /\ rows[i].receipt.prev # draft'[u].hash
        BY <1>3, <1>4, <2>1 DEF RowSound
    <2> QED BY <1>1, <2>1, <2>2, <2>3 DEF RowSound
<1>6. ASSUME NEW u \in Tasks, draft'[u] # None PROVE DraftSound(u, sealed', draft')
    <2>1. CASE u = t
        <3>1. NotYet(Tip, sealed') /\ Tip # d.hash
            BY <1>4, TipOld
        <3>2. \A w \in Tasks : w # t /\ draft[w] # None =>
                  draft[w].body # d.body /\ draft[w].prev # d.hash
            BY <1>1, <1>2, <1>4 DEF SoundInv, DraftSound
        <3>3. \A w \in Tasks : draft'[w] # None =>
                  (w # t => draft'[w].body # d.body) /\ draft'[w].prev # d.hash
            BY <1>2, <1>3, <3>1, <3>2
        <3> QED BY <1>1, <1>2, <1>3, <2>1, <3>1, <3>3 DEF DraftSound
    <2>2. CASE u # t
        <3>1. DraftSound(u, sealed, draft) /\ draft'[u] = draft[u] /\ draft[u] # None
            BY <1>3, <1>6, <2>2 DEF SoundInv
        <3>2. NotYet(draft[u].prev, sealed')
            BY <1>4, <3>1 DEF DraftSound
        <3>3. d.body # draft[u].body /\ d.prev # draft[u].hash
            BY <1>1, <1>2, <3>1, TipOld DEF DraftSound
        <3>4. \A w \in Tasks : draft'[w] # None =>
                  (w # u => draft'[w].body # draft[u].body) /\ draft'[w].prev # draft[u].hash
            BY <1>3, <2>2, <3>1, <3>3 DEF DraftSound
        <3> QED BY <1>1, <3>1, <3>2, <3>4 DEF DraftSound
    <2> QED BY <2>1, <2>2
<1>7. \A h \in Published : OldHash(h, sealed', draft')
    BY <1>3, <1>4 DEF SoundInv, OldHash
<1>8. Published' = Published
    BY DEF Seal, Published
<1> QED BY <1>1, <1>5, <1>6, <1>7, <1>8 DEF SoundInv

LEMMA SoundAppend ==
    ASSUME TypeInv, SoundInv, NEW t \in Tasks, AppendReceipt(t)
    PROVE  SoundInv'
<1> DEFINE d == draft[t]
<1>1. /\ Insert(t) /\ d # None /\ sealed' = sealed /\ DraftSound(t, sealed, draft)
      /\ draft'[t] = None /\ \A u \in Tasks : u # t => draft'[u] = draft[u]
    BY DEF AppendReceipt, Insert, SoundInv, TypeInv
<1>2. /\ \A k \in DOMAIN rows : k \in DOMAIN rows' /\ rows'[k] = rows[k]
      /\ rows'[Len(rows) + 1] = Row(d)
      /\ DOMAIN rows' = 1..Len(rows) + 1
      /\ DOMAIN rows = 1..Len(rows) /\ Len(rows) \in Nat
    BY <1>1, InsertRows, TableFacts DEF AppendReceipt, TypeInv
<1>3. genuine \subseteq genuine'
    BY <1>1 DEF Insert
<1>4. \A g \in genuine' : g \notin genuine => IsSeq(g) /\ LastHash(g) = d.hash
    BY <1>1, GenuineGrows
\* What links to no receipt in flight stays closed.
<1>5. ASSUME NEW r, Closed(r, genuine), r.prev # d.hash PROVE Closed(r, genuine')
    BY <1>3, <1>4, <1>5 DEF Closed, Authentic
<1>6. Closed(d, genuine')
    <2>1. d.prev # d.hash
        BY <1>1 DEF DraftSound
    <2>2. \A g \in genuine : LastHash(g) = d.prev => Append(g, d) \in genuine'
        BY <1>1 DEF Insert
    <2> QED BY <1>4, <2>1, <2>2 DEF Closed, Authentic
<1>7. ASSUME NEW i \in DOMAIN rows' PROVE RowSound(rows'[i], sealed', genuine', draft')
    <2>1. CASE i \in DOMAIN rows
        <3>1. RowSound(rows[i], sealed, genuine, draft) /\ rows'[i] = rows[i]
            BY <1>2, <2>1 DEF SoundInv
        <3>2. Closed(rows[i].receipt, genuine')
            BY <1>1, <1>5, <3>1 DEF RowSound
        <3> QED BY <1>1, <3>1, <3>2 DEF RowSound
    <2>2. CASE i = Len(rows) + 1
        <3>1. rows'[i].hash = d.hash /\ rows'[i].receipt = d
            BY <1>2, <2>2 DEF Row
        <3>2. /\ d.hash = Envelope(d.body, d.actor, d.prev) /\ d.signature.of = d.hash
              /\ d.body \in 1..sealed /\ NotYet(d.prev, sealed) /\ sealed \in Nat
            BY <1>1, BoundsAssumption DEF DraftSound, Authentic, TypeInv
        <3>3. NotYet(d.hash, sealed) /\ \A actor, link : d.signature.of # Envelope(0, actor, link)
            BY <3>2, Injective DEF NotYet
        <3>4. \A u \in Tasks : u # t /\ draft[u] # None =>
                  d.hash # draft[u].hash /\ d.prev # draft[u].hash
            BY <1>1, <3>2, Injective DEF SoundInv, DraftSound, Authentic
        <3> QED BY <1>1, <1>6, <3>1, <3>2, <3>3, <3>4 DEF RowSound
    <2> QED BY <1>2, <2>1, <2>2
<1>8. ASSUME NEW u \in Tasks, draft'[u] # None PROVE DraftSound(u, sealed', draft')
    BY <1>1, <1>8 DEF SoundInv, DraftSound
<1>9. \A h \in Published : OldHash(h, sealed', draft')
    BY <1>1 DEF SoundInv, OldHash
<1>10. Published' = Published
    BY <1>1 DEF Insert, Published
<1> QED BY <1>3, <1>4, <1>7, <1>8, <1>9, <1>10 DEF SoundInv

LEMMA SoundHarm ==
    ASSUME TypeInv, SoundInv, Harm
    PROVE  SoundInv'
<1>1. UNCHANGED <<draft, sealed, genuine>> /\ Published' = Published
    BY HarmFrame DEF Published
<1>2. PICK S : rows' \in Seq(S) /\ \A y \in S : Derived(y)
    BY HarmRows
<1>5. ASSUME NEW h \in Strays PROVE OldHash(h, sealed, draft)
    <2>1. CASE h \in Seen
        BY <2>1 DEF Seen, Column, SoundInv, RowSound, OldHash
    <2>2. CASE (\E x, y : h = <<"node", x, y>>) \/ (\E k : h = <<"damaged", k>>)
        <3>1. \A n, a, p : h # Envelope(n, a, p)
            BY <2>2, Injective
        <3> QED BY <3>1 DEF SoundInv, DraftSound, Authentic, OldHash, NotYet
    <2> QED BY <2>1, <2>2 DEF Strays, Blue
<1>3. ASSUME NEW x, Derived(x) PROVE RowSound(x, sealed, genuine, draft)
    <2>1. PICK i \in DOMAIN rows :
              /\ x.receipt.prev = rows[i].receipt.prev
              /\ x.receipt.signature = rows[i].receipt.signature
              /\ x.hash = rows[i].hash \/ x.hash \in Strays
              /\ \/ x.receipt = rows[i].receipt
                 \/ x.receipt.body = 0
                 \/ x.receipt.hash = <<"damaged">>
        BY <1>3 DEF Derived
    <2>2. RowSound(rows[i], sealed, genuine, draft)
        BY DEF SoundInv
    <2>3. Closed(x.receipt, genuine)
        <3>1. CASE x.receipt = rows[i].receipt
            BY <2>2, <3>1 DEF RowSound
        <3>2. CASE x.receipt.body = 0
            BY <2>1, <2>2, <3>2 DEF RowSound, Closed, Authentic
        <3>3. CASE x.receipt.hash = <<"damaged">>
            BY <3>3, Injective DEF Closed, Authentic
        <3> QED BY <2>1, <3>1, <3>2, <3>3
    <2>4. OldHash(x.hash, sealed, draft)
        BY <1>5, <2>1, <2>2 DEF RowSound, OldHash
    <2> QED BY <2>1, <2>2, <2>3, <2>4 DEF RowSound, OldHash
<1>4. \A i \in DOMAIN rows' : RowSound(rows'[i], sealed, genuine, draft)
    <2>1. \A i \in DOMAIN rows' : rows'[i] \in S
        BY <1>2, ElementOfSeq
    <2> QED BY <1>2, <1>3, <2>1
<1> QED BY <1>1, <1>4 DEF SoundInv

LEMMA SoundStep ==
    ASSUME NotAHash
    PROVE  TypeInv /\ SoundInv /\ [Next]_vars => SoundInv'
<1> SUFFICES ASSUME TypeInv, SoundInv, [Next]_vars PROVE SoundInv'
    OBVIOUS
<1>1. CASE UNCHANGED <<rows, draft, genuine, sealed, notary>>
    BY <1>1 DEF SoundInv, Published
<1>2. ASSUME NEW t \in Tasks, Refuse(t) PROVE SoundInv'
    <2>1. /\ UNCHANGED <<rows, genuine, sealed, notary>>
          /\ \A u \in Tasks : draft'[u] # None => draft'[u] = draft[u] /\ draft[u] # None
        BY <1>2 DEF Refuse, TypeInv
    <2>2. \A x : RowSound(x, sealed, genuine, draft) => RowSound(x, sealed, genuine, draft')
        BY <2>1 DEF RowSound
    <2>3. \A u \in Tasks : draft'[u] # None /\ DraftSound(u, sealed, draft)
                               => DraftSound(u, sealed, draft')
        BY <2>1 DEF DraftSound
    <2>4. \A h : OldHash(h, sealed, draft) => OldHash(h, sealed, draft')
        BY <2>1 DEF OldHash
    <2>5. Published' = Published
        BY <2>1 DEF Published
    <2> QED BY <2>1, <2>2, <2>3, <2>4, <2>5 DEF SoundInv
<1>3. CASE Restart
    BY <1>3 DEF Restart, SoundInv, RowSound, DraftSound, OldHash, Published
<1>5. CASE Publish
    <2>1. UNCHANGED <<rows, draft, genuine, sealed>>
        BY <1>5 DEF Publish
    <2>2. Published' \subseteq Column
        BY <1>5 DEF Publish, Published, Column, Hashes
    <2>3. \A h \in Column : OldHash(h, sealed, draft)
        BY DEF Column, SoundInv, RowSound, OldHash
    <2> QED BY <2>1, <2>2, <2>3 DEF SoundInv
<1>4. \/ UNCHANGED <<rows, draft, genuine, sealed, notary>>
      \/ Restart \/ Harm \/ Publish
      \/ \E t \in Tasks : Seal(t) \/ AppendReceipt(t) \/ Refuse(t)
    BY DEF Next, Harm, Register, Rotate, vars
<1> QED BY <1>1, <1>2, <1>3, <1>4, <1>5, SoundSeal, SoundAppend, SoundHarm

\* The first n receipts of the table.
Prefix(n) == [i \in 1..n |-> rows[i].receipt]

\* In a log that replays, every prefix is genuine.
LEMMA PrefixGenuine ==
    ASSUME TypeInv, SoundInv, Replays, NEW n \in 1..Len(rows), Prefix(n - 1) \in genuine
    PROVE  Prefix(n) \in genuine
<1> DEFINE g == Prefix(n - 1)
           r == rows[n].receipt
           R == {rows[i].receipt : i \in DOMAIN rows}
<1>1. Len(rows) \in Nat /\ DOMAIN rows = 1..Len(rows) /\ n \in DOMAIN rows
    BY TableFacts DEF TypeInv
<1>2. Authentic(r) /\ r.prev = LinkAt(n)
    <2>1. r.prev = LinkAt(n) /\ Accepts(registry, r)
        BY <1>1 DEF Replays
    <2> QED BY <2>1 DEF Accepts, VerifyReceipt, Authentic
<1>3. g \in Seq(R) /\ Len(g) = n - 1 /\ \A i \in 1..n-1 : g[i] = rows[i].receipt
    BY <1>1 DEF Prefix
<1>4. Prefix(n) \in Seq(R) /\ Len(Prefix(n)) = n
      /\ \A i \in 1..n : Prefix(n)[i] = rows[i].receipt
    BY <1>1 DEF Prefix
<1> HIDE DEF g
<1>5. LastHash(g) = LinkAt(n)
    <2>1. g = <<>> <=> n = 1
        BY <1>3, EmptySeq
    <2> QED BY <1>3, <2>1 DEF LastHash, LinkAt
<1>6. Append(g, r) \in genuine
    <2>1. Closed(r, genuine)
        BY <1>1 DEF SoundInv, RowSound
    <2>2. g \in genuine
        BY DEF g
    <2> QED BY <1>2, <1>5, <2>1, <2>2 DEF Closed
<1>7. /\ Append(g, r) \in Seq(R) /\ Len(Append(g, r)) = n
      /\ \A i \in 1..n : Append(g, r)[i] = rows[i].receipt
    <2>1. r \in R
        BY <1>1
    <2> HIDE DEF R
    <2> QED BY <1>3, <2>1, AppendProperties
<1>8. Append(g, r) = Prefix(n)
    <2> HIDE DEF R
    <2>1. PICK p : p = Prefix(n)
        OBVIOUS
    <2>2. PICK q : q = Append(g, r)
        OBVIOUS
    <2>3. p = q
        BY <1>4, <1>7, <2>1, <2>2, SeqEqual
    <2> QED BY <2>1, <2>2, <2>3
<1> QED BY <1>6, <1>8

\* Tamper evidence: whatever was lost, moved or altered, and however often, a
\* log that verify_chain() lets pass is one that append() made.
THEOREM Sound ==
    ASSUME NotAHash
    PROVE  Spec => []ReplaySound
<1>1. Init => SoundInv
    BY DEF Init, SoundInv, IsSeq, Published
<1>2. TypeInv /\ SoundInv => ReplaySound
    <2> SUFFICES ASSUME TypeInv, SoundInv, Replays PROVE Payloads \in genuine
        BY DEF ReplaySound
    <2>1. Len(rows) \in Nat /\ DOMAIN rows = 1..Len(rows)
        BY TableFacts DEF TypeInv
    <2> DEFINE T == {n \in 0..Len(rows) : Prefix(n) \in genuine}
    <2>2. 0 \in T
        BY <2>1 DEF Prefix, SoundInv
    <2>3. \A n \in 1..Len(rows) : n - 1 \in T => n \in T
        BY <2>1, PrefixGenuine
    <2>4. Len(rows) \in T
        <3> HIDE DEF T
        <3> QED BY <2>1, <2>2, <2>3, UpTo
    <2> QED BY <2>1, <2>4 DEF Payloads, Prefix
<1> QED BY <1>1, <1>2, TypeInit, TypeStep, SoundStep, PTL DEF Spec

-----------------------------------------------------------------------------
(* What a Merkle root commits to.                                          *)

\* A hash that a row may have, and one that is computed from two others.
Leaf(x) ==
    \/ \E k : x = <<"damaged", k>>
    \/ \E body, actor, link : x = Envelope(body, actor, link)
Node(x) == \E y, z : x = <<"node", y, z>>
Hash(x) == Leaf(x) \/ Node(x)

\* A layer of n hashes.
Layer(x, n) == n \in Nat /\ Len(x) = n /\ x = [i \in 1..n |-> x[i]]

Distinct(x) == \A i, j \in DOMAIN x : x[i] = x[j] => i = j

LEMMA LayerOf ==
    ASSUME NEW n \in Nat, NEW x, x = [i \in 1..n |-> x[i]]
    PROVE  Layer(x, n)
<1>1. x \in [1..n -> {x[i] : i \in 1..n}]
    OBVIOUS
<1>2. x \in Seq({x[i] : i \in 1..n})
    BY <1>1, SeqDef
<1>3. Len(x) = n
    BY <1>1, <1>2, LenProperties
<1> QED BY <1>3 DEF Layer

LEMMA LayerEqual ==
    ASSUME NEW n, NEW x, NEW y, Layer(x, n), Layer(y, n),
           \A i \in 1..n : x[i] = y[i]
    PROVE  x = y
<1>1. [i \in 1..n |-> x[i]] = [i \in 1..n |-> y[i]]
    OBVIOUS
<1> QED BY <1>1 DEF Layer

\* The layer above one of at least two hashes: half as long, and of nodes.
LEMMA ParentsFacts ==
    ASSUME NEW n, NEW x, Layer(x, n), n > 1
    PROVE  /\ Layer(Parents(x), (n + 1) \div 2)
           /\ (n + 1) \div 2 \in 1..(n - 1)
           /\ \A i \in 1..((n + 1) \div 2) :
                 Parents(x)[i] = <<"node", x[2*i-1], x[IF 2*i <= n THEN 2*i ELSE 2*i-1]>>
<1> DEFINE r == (n + 1) \div 2
<1>1. n \in Nat /\ Len(x) = n
    BY DEF Layer
<1>2. r \in 1..(n - 1)
    BY <1>1
<1>3. Parents(x) = [i \in 1..r |-> <<"node", x[2*i-1],
                                      x[IF 2*i <= n THEN 2*i ELSE 2*i-1]>>]
    BY <1>1 DEF Parents
<1> HIDE DEF r
<1>4. Parents(x) = [i \in 1..r |-> Parents(x)[i]]
    BY <1>3
<1>5. Layer(Parents(x), r)
    BY <1>2, <1>4, LayerOf
<1>6. \A i \in 1..r :
         Parents(x)[i] = <<"node", x[2*i-1], x[IF 2*i <= n THEN 2*i ELSE 2*i-1]>>
    BY <1>3
<1> QED BY <1>2, <1>5, <1>6 DEF r

\* Distinct hashes have distinct parents ...
LEMMA ParentsDistinct ==
    ASSUME NEW n, NEW x, Layer(x, n), n > 1, Distinct(x)
    PROVE  Distinct(Parents(x))
<1> DEFINE r == (n + 1) \div 2
<1>1. /\ n \in Nat /\ DOMAIN x = 1..n
    BY DEF Layer
<1>2. /\ DOMAIN Parents(x) = 1..r /\ r \in Nat
      /\ \A i \in 1..r : 2*i - 1 \in 1..n
    BY <1>1, ParentsFacts DEF Layer
<1> SUFFICES ASSUME NEW i \in 1..r, NEW j \in 1..r, Parents(x)[i] = Parents(x)[j]
             PROVE  i = j
    BY <1>2 DEF Distinct
<1>3. x[2*i-1] = x[2*j-1]
    BY ParentsFacts
<1>4. 2*i - 1 = 2*j - 1
    BY <1>1, <1>2, <1>3 DEF Distinct
<1> QED BY <1>2, <1>4

\* ... and are told by them, for all that an odd last hash is taken twice: a
\* layer that really had it twice would not be distinct.
LEMMA ParentsTell ==
    ASSUME NEW m, NEW x, Layer(x, m), m > 1, Distinct(x),
           NEW n, NEW y, Layer(y, n), n > 1, Distinct(y),
           Parents(x) = Parents(y)
    PROVE  x = y
<1> DEFINE r == (m + 1) \div 2
           q == (n + 1) \div 2
           right(i, k) == IF 2*i <= k THEN 2*i ELSE 2*i-1
<1>1. m \in Nat /\ n \in Nat /\ DOMAIN x = 1..m /\ DOMAIN y = 1..n
    BY DEF Layer
<1>2. Layer(Parents(x), r) /\ Layer(Parents(y), q)
    BY ParentsFacts
<1>3. r = q /\ r \in Nat
    BY <1>2 DEF Layer
<1>4. /\ \A i \in 1..r : Parents(x)[i] = <<"node", x[2*i-1], x[right(i, m)]>>
      /\ \A i \in 1..q : Parents(y)[i] = <<"node", y[2*i-1], y[right(i, n)]>>
    BY ParentsFacts
<1>5. \A i \in 1..r : x[2*i-1] = y[2*i-1] /\ x[right(i, m)] = y[right(i, n)]
    <2> TAKE i \in 1..r
    <2>1. <<"node", x[2*i-1], x[right(i, m)]>> = <<"node", y[2*i-1], y[right(i, n)]>>
        BY <1>3, <1>4
    <2> QED BY <2>1
<1>6. m = n
    <2>1. m \in {2*r - 1, 2*r} /\ n \in {2*r - 1, 2*r} /\ r \in 1..r
        BY <1>1, <1>3
    <2>2. x[2*r-1] = y[2*r-1] /\ x[right(r, m)] = y[right(r, n)]
        BY <1>5, <2>1
    <2>3. ~(m = 2*r - 1 /\ n = 2*r)
        <3> SUFFICES ASSUME m = 2*r - 1, n = 2*r PROVE FALSE
            OBVIOUS
        <3>1. y[2*r-1] = y[2*r]
            BY <1>3, <2>2
        <3> QED BY <1>1, <1>3, <3>1 DEF Distinct
    <2>4. ~(m = 2*r /\ n = 2*r - 1)
        <3> SUFFICES ASSUME m = 2*r, n = 2*r - 1 PROVE FALSE
            OBVIOUS
        <3>1. x[2*r-1] = x[2*r]
            BY <1>3, <2>2
        <3> QED BY <1>1, <1>3, <3>1 DEF Distinct
    <2> QED BY <2>1, <2>3, <2>4
<1>7. ASSUME NEW j \in 1..m PROVE x[j] = y[j]
    <2>1. CASE j % 2 = 1
        <3>1. (j + 1) \div 2 \in 1..r /\ 2 * ((j + 1) \div 2) - 1 = j
            BY <1>1, <2>1
        <3> QED BY <1>5, <3>1
    <2>2. CASE j % 2 = 0
        <3>1. j \div 2 \in 1..r /\ 2 * (j \div 2) = j
            BY <1>1, <2>2
        <3>2. right(j \div 2, m) = j /\ right(j \div 2, n) = j
            BY <1>1, <1>6, <3>1
        <3> QED BY <1>5, <3>1, <3>2
    <2>3. j % 2 \in {0, 1}
        BY <1>1
    <2> QED BY <2>1, <2>2, <2>3
<1> QED BY <1>6, <1>7, LayerEqual

\* The layers over h, up to the top.
Layers(f, h, top) == f = [k \in 0..top |-> IF k = 0 THEN h ELSE Parents(f[k-1])]

LEMMA LayersExist == ASSUME NEW h, NEW top \in Nat PROVE \E f : Layers(f, h, top)
<1> DEFINE T == {n \in Nat : \E f : Layers(f, h, n)}
<1>1. 0 \in T
    <2>1. Layers([k \in 0..0 |-> h], h, 0)
        BY DEF Layers
    <2> QED BY <2>1
<1>2. ASSUME NEW n \in 1..top, n - 1 \in T PROVE n \in T
    <2>1. PICK f : Layers(f, h, n - 1)
        BY <1>2
    <2> DEFINE g == [k \in 0..n |-> IF k < n THEN f[k] ELSE Parents(f[n-1])]
    <2>2. f = [k \in 0..(n-1) |-> IF k = 0 THEN h ELSE Parents(f[k-1])]
        BY <2>1 DEF Layers
    <2>3. ASSUME NEW k \in 0..n
          PROVE  g[k] = IF k = 0 THEN h ELSE Parents(g[k-1])
        <3>1. CASE k = n
            <4>1. k # 0 /\ g[k] = Parents(f[n-1]) /\ g[k-1] = f[n-1]
                BY <3>1
            <4> QED BY <4>1
        <3>2. CASE k # n
            <4>1. k \in 0..(n-1) /\ g[k] = f[k]
                BY <3>2
            <4>2. f[k] = IF k = 0 THEN h ELSE Parents(f[k-1])
                BY <2>2, <4>1
            <4>3. k # 0 => g[k-1] = f[k-1]
                BY <4>1
            <4> HIDE DEF g
            <4> QED BY <4>1, <4>2, <4>3
        <3> QED BY <3>1, <3>2
    <2>4. g = [k \in 0..n |-> g[k]]
        OBVIOUS
    <2> HIDE DEF g
    <2>5. [k \in 0..n |-> g[k]] = [k \in 0..n |-> IF k = 0 THEN h ELSE Parents(g[k-1])]
        BY <2>3
    <2>6. Layers(g, h, n)
        BY <2>4, <2>5 DEF Layers
    <2> QED BY <2>6
<1> HIDE DEF T
<1>3. top \in T
    BY <1>1, <1>2, UpTo
<1> QED BY <1>3 DEF T

\* merkle_root() of some hashes is the one hash of the last layer.
LEMMA RootOfLayers ==
    ASSUME NEW h, Len(h) \in Nat, h # <<>>
    PROVE  \E f : Layers(f, h, Len(h)) /\ MerkleRoot(h) = f[Len(h)][1]
<1> DEFINE layer[k \in 0..Len(h)] == IF k = 0 THEN h ELSE Parents(layer[k-1])
<1>1. MerkleRoot(h) = layer[Len(h)][1]
    BY DEF MerkleRoot
<1>2. layer = CHOOSE f : Layers(f, h, Len(h))
    BY DEF Layers
<1> HIDE DEF layer
<1>3. Layers(layer, h, Len(h))
    BY <1>2, LayersExist
<1> QED BY <1>1, <1>3

\* A tower: the layers up to the first that has one hash.
Tower(f, h, d) ==
    /\ d \in Nat /\ f[0] = h
    /\ \A k \in 1..d : f[k] = Parents(f[k-1])
    /\ \A k \in 0..d : \E n : Layer(f[k], n) /\ (k < d => n > 1) /\ (k = d => n = 1)
    /\ f[d][1] = MerkleRoot(h)

\* Every layer is shorter than the one below it until there is one hash, and
\* from there on nothing changes.
LEMMA TowerExists ==
    ASSUME NEW n, NEW h, Layer(h, n), n # 0
    PROVE  \E f, d : Tower(f, h, d)
<1>1. n \in Nat /\ Len(h) = n /\ h # <<>>
    BY DEF Layer
<1>2. PICK f : Layers(f, h, n) /\ MerkleRoot(h) = f[n][1]
    BY <1>1, RootOfLayers
<1>3. f[0] = h /\ \A k \in 1..n : f[k] = Parents(f[k-1])
    <2>1. \A k \in 0..n : f[k] = IF k = 0 THEN h ELSE Parents(f[k-1])
        BY <1>2 DEF Layers
    <2> QED BY <1>1, <2>1
<1> DEFINE Sized(k) == \E p : Layer(f[k], p) /\ p # 0 /\ (p = 1 \/ p <= n - k)
           S == {k \in 0..n : Sized(k)}
<1>4. 0 \in S
    BY <1>1, <1>3
<1>5. ASSUME NEW k \in 1..n, k - 1 \in S PROVE k \in S
    <2>1. PICK p : Layer(f[k-1], p) /\ p # 0 /\ (p = 1 \/ p <= n - (k - 1))
        BY <1>5
    <2>2. p \in Nat /\ Len(f[k-1]) = p /\ f[k] = Parents(f[k-1])
        BY <1>3, <2>1 DEF Layer
    <2>3. CASE p = 1
        <3>1. Layer(f[k], 1)
            BY <2>1, <2>2, <2>3 DEF Parents
        <3> QED BY <3>1
    <2>4. CASE p > 1
        <3> DEFINE r == (p + 1) \div 2
        <3>1. Layer(f[k], r) /\ r \in 1..(p - 1)
            BY <2>1, <2>2, <2>4, ParentsFacts
        <3> HIDE DEF r
        <3>2. r # 0 /\ r <= n - k
            BY <1>1, <2>1, <2>2, <2>4, <3>1
        <3> QED BY <3>1, <3>2
    <2> QED BY <2>1, <2>2, <2>3, <2>4
<1>6. \A k \in 0..n : Sized(k)
    <2> TAKE k \in 0..n
    <2> HIDE DEF S
    <2>1. \A j \in 1..k : j - 1 \in S => j \in S
        BY <1>1, <1>5
    <2>2. k \in S
        BY <1>1, <1>4, <2>1, UpTo
    <2> QED BY <2>2 DEF S
<1> HIDE DEF S
<1> DEFINE D == {k \in 0..n : Len(f[k]) = 1}
<1>7. n \in D
    <2>1. PICK p : Layer(f[n], p) /\ p # 0 /\ (p = 1 \/ p <= n - n)
        BY <1>1, <1>6
    <2>2. p \in Nat /\ Len(f[n]) = p
        BY <2>1 DEF Layer
    <2>3. p = 1
        BY <1>1, <2>1, <2>2
    <2> QED BY <1>1, <2>2, <2>3
<1>8. PICK d \in D : \A k \in D : d <= k
    <2>1. D \in SUBSET Nat /\ D # {}
        BY <1>7
    <2> HIDE DEF D
    <2> QED BY <2>1, Least
<1> d \in 0..n /\ Len(f[d]) = 1
    OBVIOUS
<1>9. ASSUME NEW k \in 0..d
      PROVE  \E p : Layer(f[k], p) /\ (k < d => p > 1) /\ (k = d => p = 1)
    <2>0. k \in 0..n
        BY <1>1
    <2>1. PICK p : Layer(f[k], p) /\ p # 0
        BY <1>6, <2>0
    <2>2. p \in Nat /\ Len(f[k]) = p
        BY <2>1 DEF Layer
    <2>3. k < d => p # 1
        <3>1. k < d => k \notin D
            BY <1>1, <1>8, <2>0
        <3> QED BY <2>0, <2>2, <3>1
    <2>4. k = d => p = 1
        BY <1>8, <2>2
    <2> QED BY <2>1, <2>2, <2>3, <2>4
<1> DEFINE E == {j \in Nat : d + j <= n => f[d+j] = f[d]}
<1>10. n - d \in Nat /\ 0 \in E
    BY <1>1
<1>11. ASSUME NEW j \in 1..(n - d), j - 1 \in E PROVE j \in E
    <2>1. f[d + (j - 1)] = f[d] /\ d + j \in 1..n /\ (d + j) - 1 = d + (j - 1)
        BY <1>1, <1>11
    <2>2. f[d+j] = Parents(f[d])
        BY <1>3, <2>1
    <2>3. Parents(f[d]) = f[d]
        BY DEF Parents
    <2> QED BY <2>2, <2>3
<1>12. f[n] = f[d]
    <2> HIDE DEF E
    <2>1. n - d \in E
        BY <1>10, <1>11, UpTo
    <2>2. d + (n - d) = n /\ d + (n - d) <= n
        BY <1>1
    <2> QED BY <2>1, <2>2 DEF E
<1>13. Tower(f, h, d)
    <2>1. d \in Nat /\ \A k \in 1..d : k \in 1..n
        BY <1>1
    <2> QED BY <1>2, <1>3, <1>9, <1>12, <2>1 DEF Tower
<1> QED BY <1>13

\* All layers over distinct hashes are distinct, and all but the lowest are of
\* nodes.
LEMMA TowerDistinct ==
    ASSUME NEW f, NEW h, NEW d, Tower(f, h, d), Distinct(h)
    PROVE  \A k \in 0..d : Distinct(f[k])
<1> DEFINE S == {k \in 0..d : Distinct(f[k])}
<1>1. d \in Nat /\ 0 \in S
    BY DEF Tower
<1>2. ASSUME NEW k \in 1..d, k - 1 \in S PROVE k \in S
    <2>1. PICK n : Layer(f[k-1], n) /\ n > 1
        <3>1. k - 1 \in 0..d /\ k - 1 < d
            BY <1>1
        <3> QED BY <3>1 DEF Tower
    <2>2. f[k] = Parents(f[k-1])
        BY DEF Tower
    <2> QED BY <1>1, <1>2, <2>1, <2>2, ParentsDistinct
<1> HIDE DEF S
<1>3. ASSUME NEW k \in 0..d PROVE k \in S
    <2>1. \A j \in 1..k : j - 1 \in S => j \in S
        BY <1>1, <1>2
    <2> QED BY <1>1, <2>1, UpTo
<1> QED BY <1>3 DEF S

LEMMA TowerNodes ==
    ASSUME NEW f, NEW h, NEW d, Tower(f, h, d), NEW k \in 1..d
    PROVE  \A i \in DOMAIN f[k] : Node(f[k][i])
<1>1. PICK n : Layer(f[k-1], n) /\ n > 1
    <2>1. d \in Nat /\ k - 1 \in 0..d /\ k - 1 < d
        BY DEF Tower
    <2> QED BY <2>1 DEF Tower
<1>2. f[k] = Parents(f[k-1])
    BY DEF Tower
<1>3. /\ Layer(f[k], (n + 1) \div 2)
      /\ \A i \in 1..((n + 1) \div 2) : Node(f[k][i])
    BY <1>1, <1>2, ParentsFacts DEF Node
<1> QED BY <1>3 DEF Layer

\* Every layer above the lowest is shorter than it.
LEMMA TowerShrinks ==
    ASSUME NEW f, NEW h, NEW d, Tower(f, h, d), NEW k \in 1..d
    PROVE  Len(f[k]) < Len(h)
<1> DEFINE S == {j \in 0..d : Len(f[j]) <= Len(h) - j}
<1>1. d \in Nat /\ f[0] = h /\ \A j \in 0..d : Len(f[j]) \in Nat
    BY DEF Tower, Layer
<1>2. 0 \in 0..d /\ Len(h) \in Nat
    BY <1>1
<1>3. 0 \in S
    BY <1>1, <1>2
<1>4. ASSUME NEW j \in 1..d, j - 1 \in S PROVE j \in S
    <2>1. PICK n : Layer(f[j-1], n) /\ n > 1
        <3>1. j - 1 \in 0..d /\ j - 1 < d
            BY <1>1
        <3> QED BY <3>1 DEF Tower
    <2>2. f[j] = Parents(f[j-1])
        BY DEF Tower
    <2>3. Layer(f[j], (n + 1) \div 2) /\ (n + 1) \div 2 \in 1..(n - 1)
        BY <2>1, <2>2, ParentsFacts
    <2>4. Len(f[j]) <= Len(f[j-1]) - 1 /\ Len(f[j]) \in Nat /\ Len(f[j-1]) \in Nat
        BY <2>1, <2>3 DEF Layer
    <2> QED BY <1>1, <1>2, <1>4, <2>4
<1>5. k \in S
    <2> HIDE DEF S
    <2>1. k \in Nat /\ \A j \in 1..k : j - 1 \in S => j \in S
        BY <1>1, <1>4
    <2> QED BY <1>3, <2>1, UpTo
<1>6. Len(f[k]) \in Nat /\ Len(f[k]) <= Len(h) - k /\ k >= 1
    BY <1>1, <1>5
<1> QED BY <1>1, <1>2, <1>6

\* Under one root, the lower of two towers over distinct hashes is the upper part
\* of the higher one.
LEMMA TowerOnTower ==
    ASSUME NEW x, Distinct(x), NEW f, NEW d, Tower(f, x, d),
           NEW y, Distinct(y), NEW g, NEW e, Tower(g, y, e),
           MerkleRoot(x) = MerkleRoot(y), d <= e
    PROVE  x = g[e-d]
<1>1. d \in Nat /\ e \in Nat /\ f[0] = x /\ g[0] = y
    BY DEF Tower
\* From the top of both towers down.
<1> DEFINE S == {k \in Nat : f[d-k] = g[e-k]}
<1>2. 0 \in S
    <2>1. d \in 0..d /\ e \in 0..e
        BY <1>1
    <2>2. Layer(f[d], 1) /\ Layer(g[e], 1) /\ f[d][1] = g[e][1]
        BY <2>1 DEF Tower
    <2>3. f[d] = g[e]
        BY <2>2, LayerEqual
    <2> QED BY <1>1, <2>3
<1>3. ASSUME NEW k \in 1..d, k - 1 \in S PROVE k \in S
    <2> DEFINE i == d - (k - 1)
               j == e - (k - 1)
    <2>1. i \in 1..d /\ j \in 1..e /\ f[i] = g[j] /\ k \in Nat
          /\ i - 1 = d - k /\ j - 1 = e - k
        BY <1>1, <1>3
    <2> HIDE DEF i, j
    <2>2. i - 1 \in 0..d /\ i - 1 < d /\ j - 1 \in 0..e /\ j - 1 < e
        BY <1>1, <2>1
    <2>3. f[i] = Parents(f[i-1]) /\ g[j] = Parents(g[j-1])
        BY <2>1 DEF Tower
    <2>4. PICK p : Layer(f[i-1], p) /\ p > 1
        BY <2>2 DEF Tower
    <2>5. PICK q : Layer(g[j-1], q) /\ q > 1
        BY <2>2 DEF Tower
    <2>6. Distinct(f[i-1]) /\ Distinct(g[j-1])
        BY <2>2, TowerDistinct
    <2>7. f[i-1] = g[j-1]
        <3>1. Parents(f[i-1]) = Parents(g[j-1])
            BY <2>1, <2>3
        <3> QED BY <2>4, <2>5, <2>6, <3>1, ParentsTell
    <2> QED BY <2>1, <2>7
<1>4. d \in S
    <2> HIDE DEF S
    <2> QED BY <1>1, <1>2, <1>3, UpTo
<1> QED BY <1>1, <1>4

\* So its hashes are those of the other, or all of them are nodes.
LEMMA LowerTower ==
    ASSUME NEW x, Distinct(x), NEW f, NEW d, Tower(f, x, d),
           NEW y, Distinct(y), NEW g, NEW e, Tower(g, y, e),
           MerkleRoot(x) = MerkleRoot(y), d <= e
    PROVE  x = y \/ (Len(x) < Len(y) /\ \A i \in DOMAIN x : Node(x[i]))
<1>1. x = g[e-d] /\ d \in Nat /\ e \in Nat /\ g[0] = y
    <2>1. x = g[e-d]
        BY TowerOnTower
    <2>2. d \in Nat /\ e \in Nat /\ g[0] = y
        BY DEF Tower
    <2> QED BY <2>1, <2>2
<1>2. CASE e = d
    BY <1>1, <1>2
<1>3. CASE e # d
    <2>1. e - d \in 1..e
        BY <1>1, <1>3
    <2>2. Len(g[e-d]) < Len(y) /\ \A i \in DOMAIN g[e-d] : Node(g[e-d][i])
        BY <2>1, TowerNodes, TowerShrinks
    <2> QED BY <1>1, <2>2
<1> QED BY <1>2, <1>3

\* Distinct hashes of rows under one root are the same, in the same order, or
\* the fewer are inner nodes over the more.
LEMMA RootTells ==
    ASSUME NEW m, NEW x, Layer(x, m), m # 0, Distinct(x),
           NEW n, NEW y, Layer(y, n), n # 0, Distinct(y),
           MerkleRoot(x) = MerkleRoot(y)
    PROVE  \/ x = y
           \/ Len(x) < Len(y) /\ \A i \in DOMAIN x : Node(x[i])
           \/ Len(y) < Len(x) /\ \A i \in DOMAIN y : Node(y[i])
<1>1. PICK f, d : Tower(f, x, d)
    BY TowerExists
<1>2. PICK g, e : Tower(g, y, e)
    BY TowerExists
<1>3. d <= e \/ e <= d
    BY <1>1, <1>2 DEF Tower
<1>4. CASE d <= e
    BY <1>1, <1>2, <1>4, LowerTower
<1>5. CASE e <= d
    <2>1. y = x \/ (Len(y) < Len(x) /\ \A i \in DOMAIN y : Node(y[i]))
        BY <1>1, <1>2, <1>5, LowerTower
    <2> QED BY <2>1
<1> QED BY <1>3, <1>4, <1>5

\* The root over some hashes of rows is a hash.
LEMMA RootIsHash ==
    ASSUME NEW n, NEW x, Layer(x, n), n # 0, Hash(x[1])
    PROVE  Hash(MerkleRoot(x))
<1>1. PICK f, d : Tower(f, x, d)
    BY TowerExists
<1>2. d \in Nat /\ f[0] = x /\ f[d][1] = MerkleRoot(x)
    BY <1>1 DEF Tower
<1>3. CASE d = 0
    BY <1>2, <1>3
<1>4. CASE d # 0
    <2>1. d \in 1..d /\ d \in 0..d
        BY <1>2, <1>4
    <2>2. Layer(f[d], 1)
        BY <1>1, <2>1 DEF Tower
    <2>3. 1 \in DOMAIN f[d]
        BY <2>2 DEF Layer
    <2> QED BY <1>1, <1>2, <2>1, <2>3, TowerNodes DEF Hash
<1> QED BY <1>3, <1>4

-----------------------------------------------------------------------------
(* The hashes of the rows stay distinct.                                   *)

\* "No receipt" is no hash.
NoneIsNoHash == \A x : Hash(x) => x # None

\* What can be published: hashes of rows, no two the same.
Hashed(x) == \E n : Layer(x, n) /\ Distinct(x) /\ \A i \in 1..n : Hash(x[i])

HashInv ==
    /\ \A i \in DOMAIN rows : Hash(rows[i].hash)
    /\ \A i, j \in DOMAIN rows : rows[i].hash = rows[j].hash => i = j

NotaryInv ==
    notary # None => notary.root = MerkleRoot(notary.hashes) /\ Hashed(notary.hashes)

LEMMA RootsTell ==
    ASSUME NoneIsNoHash, NEW x, Hashed(x), NEW y, Hashed(y),
           MerkleRoot(x) = MerkleRoot(y)
    PROVE  x = y \/ Folded(x, y) \/ Folded(y, x)
<1>1. PICK m : Layer(x, m) /\ Distinct(x) /\ \A i \in 1..m : Hash(x[i])
    BY DEF Hashed
<1>2. PICK n : Layer(y, n) /\ Distinct(y) /\ \A i \in 1..n : Hash(y[i])
    BY DEF Hashed
<1>3. m \in Nat /\ n \in Nat /\ (m # 0 => Hash(x[1])) /\ (n # 0 => Hash(y[1]))
    <2>1. m \in Nat /\ n \in Nat
        BY <1>1, <1>2 DEF Layer
    <2>2. (m # 0 => 1 \in 1..m) /\ (n # 0 => 1 \in 1..n)
        BY <2>1
    <2> QED BY <1>1, <1>2, <2>1, <2>2
<1>4. \A z : Layer(z, 0) => z = <<>>
    <2> SUFFICES ASSUME NEW z, Layer(z, 0) PROVE z = <<>>
        OBVIOUS
    <2>1. Layer(<<>>, 0)
        <3>1. <<>> = [i \in 1..0 |-> <<>>[i]] /\ Len(<<>>) = 0
            OBVIOUS
        <3> QED BY <3>1 DEF Layer
    <2> QED BY <2>1, LayerEqual
<1>5. MerkleRoot(<<>>) = None
    BY DEF MerkleRoot
<1>6. m # 0 => MerkleRoot(x) # None
    BY <1>1, <1>3, RootIsHash DEF NoneIsNoHash
<1>7. n # 0 => MerkleRoot(y) # None
    BY <1>2, <1>3, RootIsHash DEF NoneIsNoHash
<1>8. CASE m = 0 \/ n = 0
    BY <1>1, <1>2, <1>4, <1>5, <1>6, <1>7, <1>8
<1>9. CASE m # 0 /\ n # 0
    <2>1. x # <<>> /\ y # <<>>
        <3>1. Len(x) # 0 /\ Len(y) # 0
            BY <1>1, <1>2, <1>9 DEF Layer
        <3> QED BY <3>1
    <2>2. \A z : Node(z) => z[1] = "node"
        BY DEF Node
    <2>3. \/ x = y
          \/ Len(x) < Len(y) /\ \A i \in DOMAIN x : Node(x[i])
          \/ Len(y) < Len(x) /\ \A i \in DOMAIN y : Node(y[i])
        BY <1>1, <1>2, <1>9, RootTells
    <2> QED BY <2>1, <2>2, <2>3 DEF Folded
<1> QED BY <1>8, <1>9

\* The hash columns form a layer.
LEMMA HashesHashed == ASSUME TypeInv, HashInv PROVE Hashed(Hashes)
<1>1. Len(rows) \in Nat /\ DOMAIN rows = 1..Len(rows)
    BY TableFacts DEF TypeInv
<1>2. /\ Hashes = [i \in 1..Len(rows) |-> Hashes[i]]
      /\ \A i \in 1..Len(rows) : Hashes[i] = rows[i].hash
      /\ DOMAIN Hashes = 1..Len(rows)
    BY <1>1 DEF Hashes
<1>3. Layer(Hashes, Len(rows))
    BY <1>1, <1>2, LayerOf
<1>4. Distinct(Hashes) /\ \A i \in 1..Len(rows) : Hash(Hashes[i])
    BY <1>1, <1>2 DEF HashInv, Distinct
<1> QED BY <1>3, <1>4 DEF Hashed

\* Rows that each have the hash of another row than the others.
LEMMA HashMoved ==
    ASSUME HashInv, NEW from \in [DOMAIN rows' -> DOMAIN rows],
           \A k, l \in DOMAIN rows' : from[k] = from[l] => k = l,
           \A k \in DOMAIN rows' : rows'[k].hash = rows[from[k]].hash
    PROVE  HashInv'
<1>1. \A k \in DOMAIN rows' : Hash(rows'[k].hash)
    BY DEF HashInv
<1>2. ASSUME NEW k \in DOMAIN rows', NEW l \in DOMAIN rows', rows'[k].hash = rows'[l].hash
      PROVE  k = l
    BY <1>2 DEF HashInv
<1> QED BY <1>1, <1>2 DEF HashInv

\* What damage puts into the column is a hash, and in no row so far.
LEMMA StrayHash ==
    ASSUME HashInv, NotaryInv, NEW h \in Strays
    PROVE  Hash(h) /\ \A i \in DOMAIN rows : rows[i].hash # h
<1>1. \A x \in Published : Hash(x)
    <2>1. \A i \in DOMAIN notary.hashes : notary # None => Hash(notary.hashes[i])
        BY DEF NotaryInv, Hashed, Layer
    <2> QED BY <2>1 DEF Published
<1>2. \A x \in Seen : Hash(x)
    BY <1>1 DEF Seen, Column, HashInv
<1> QED BY <1>2 DEF Strays, Column, Blue, Hash, Leaf, Node

\* Damage loses, moves or keeps the hashes, or puts a new one among them.
LEMMA HashHarm == ASSUME TypeInv, HashInv, NotaryInv, Harm PROVE HashInv'
<1> DEFINE R == {rows[k] : k \in DOMAIN rows}
           n == Len(rows)
<1>1. n \in Nat /\ DOMAIN rows = 1..n /\ rows \in Seq(R)
    BY TableFacts DEF TypeInv
<1>2. \A k \in 1..n : rows[k] \in R
    BY <1>1
<1> HIDE DEF R, n
<1>3. CASE LoseTail
    <2>1. rows' = SubSeq(rows, 1, n - 1) /\ n # 0
        BY <1>1, <1>3, TableFacts DEF LoseTail, Damage, n, TypeInv
    <2>2. /\ rows' \in Seq(R) /\ Len(rows') = n - 1
          /\ \A k \in 1..(n - 1) : rows'[k] = rows[k]
        BY <1>1, <1>2, <2>1, SubSeqProperties
    <2>3. DOMAIN rows' = 1..(n - 1)
        BY <2>2, LenProperties
    <2> DEFINE from == [k \in DOMAIN rows' |-> k]
    <2>4. /\ from \in [DOMAIN rows' -> DOMAIN rows]
          /\ \A k, l \in DOMAIN rows' : from[k] = from[l] => k = l
          /\ \A k \in DOMAIN rows' : rows'[k].hash = rows[from[k]].hash
        BY <1>1, <2>2, <2>3
    <2> HIDE DEF from
    <2> QED BY <2>4, HashMoved
<1>4. ASSUME NEW i \in DOMAIN rows, LoseRow(i) PROVE HashInv'
    <2>1. rows' = SubSeq(rows, 1, i - 1) \o SubSeq(rows, i + 1, n) /\ i < n
        BY <1>4 DEF LoseRow, Damage, n
    <2> DEFINE front == SubSeq(rows, 1, i - 1)
               back  == SubSeq(rows, i + 1, n)
    <2>2. /\ front \in Seq(R) /\ Len(front) = i - 1
          /\ \A k \in 1..(i - 1) : front[k] = rows[k]
        BY <1>1, <1>2, <2>1, SubSeqProperties
    <2>3. /\ back \in Seq(R) /\ Len(back) = n - i
          /\ \A k \in 1..(n - i) : back[k] = rows[k + i]
        <3>1. i + 1 \in Int /\ n \in Int /\ i \in 1..n
            BY <1>1
        <3>2. \A k \in (i + 1)..n : rows[k] \in R
            BY <1>2, <3>1
        <3>3. /\ back \in Seq(R)
              /\ Len(back) = IF i + 1 <= n THEN n - (i + 1) + 1 ELSE 0
              /\ \A k \in 1..(n - (i + 1) + 1) : back[k] = rows[(i + 1) + k - 1]
            BY <1>1, <3>1, <3>2, SubSeqProperties
        <3> HIDE DEF back
        <3>4. i + 1 <= n /\ n - (i + 1) + 1 = n - i
            BY <2>1, <3>1
        <3>5. \A k \in 1..(n - i) : (i + 1) + k - 1 = k + i
            BY <3>1
        <3> QED BY <3>3, <3>4, <3>5
    <2> HIDE DEF front, back
    <2>4. rows' = front \o back
        BY <2>1 DEF front, back
    <2>5. /\ rows' \in Seq(R) /\ Len(rows') = (i - 1) + (n - i)
          /\ \A k \in 1..((i - 1) + (n - i)) :
                rows'[k] = IF k <= i - 1 THEN front[k] ELSE back[k - (i - 1)]
        <3>1. /\ front \o back \in Seq(R)
              /\ Len(front \o back) = Len(front) + Len(back)
              /\ \A k \in 1..(Len(front) + Len(back)) :
                    (front \o back)[k] = IF k <= Len(front) THEN front[k]
                                         ELSE back[k - Len(front)]
            BY <2>2, <2>3, ConcatProperties
        <3>2. Len(front) = i - 1 /\ Len(back) = n - i
            BY <2>2, <2>3
        <3> QED BY <2>4, <3>1, <3>2
    <2>6. DOMAIN rows' = 1..(n - 1) /\ (i - 1) + (n - i) = n - 1
        BY <1>1, <2>1, <2>5, LenProperties
    <2> DEFINE from == [k \in DOMAIN rows' |-> IF k <= i - 1 THEN k ELSE k + 1]
    <2>7. from \in [DOMAIN rows' -> DOMAIN rows]
        <3>1. n \in Nat /\ i \in 1..n
            BY <1>1
        <3>2. \A k \in 1..(n - 1) : (IF k <= i - 1 THEN k ELSE k + 1) \in 1..n
            BY <3>1
        <3> QED BY <1>1, <2>6, <3>2
    <2>8. \A k, l \in DOMAIN rows' : from[k] = from[l] => k = l
        <3>1. i \in Int /\ \A k \in DOMAIN rows' : k \in Int
            BY <1>1, <2>6
        <3>2. \A k, l \in Int :
                  (IF k <= i - 1 THEN k ELSE k + 1) = (IF l <= i - 1 THEN l ELSE l + 1)
                      => k = l
            BY <3>1
        <3> QED BY <3>1, <3>2
    <2>9. ASSUME NEW k \in DOMAIN rows' PROVE rows'[k].hash = rows[from[k]].hash
        <3>1. CASE k <= i - 1
            <4>1. k \in 1..(i - 1)
                BY <1>1, <2>6, <3>1
            <4>2. rows'[k] = rows[k]
                BY <2>2, <2>5, <2>6, <3>1, <4>1
            <4> QED BY <3>1, <4>2
        <3>2. CASE ~(k <= i - 1)
            <4>1. k - (i - 1) \in 1..(n - i) /\ (k - (i - 1)) + i = k + 1
                <5>1. k \in 1..(n - 1) /\ i \in 1..n /\ n \in Nat
                    BY <1>1, <2>6
                <5> QED BY <3>2, <5>1
            <4>2. rows'[k] = rows[k + 1]
                BY <2>3, <2>5, <2>6, <3>2, <4>1
            <4> QED BY <3>2, <4>2
        <3> QED BY <3>1, <3>2
    <2> HIDE DEF from
    <2> QED BY <2>7, <2>8, <2>9, HashMoved
<1>5. ASSUME NEW i \in DOMAIN rows, NEW j \in DOMAIN rows, SwapRows(i, j) PROVE HashInv'
    <2>1. rows' = [rows EXCEPT ![i] = rows[j], ![j] = rows[i]]
        BY <1>5 DEF SwapRows, Damage
    <2> DEFINE from == [k \in DOMAIN rows' |-> IF k = i THEN j ELSE IF k = j THEN i ELSE k]
    <2>2. /\ from \in [DOMAIN rows' -> DOMAIN rows]
          /\ \A k, l \in DOMAIN rows' : from[k] = from[l] => k = l
          /\ \A k \in DOMAIN rows' : rows'[k].hash = rows[from[k]].hash
        BY <1>1, <2>1
    <2> HIDE DEF from
    <2> QED BY <2>2, HashMoved
<1>6. ASSUME NEW i \in DOMAIN rows,
             (\E rehashed \in BOOLEAN : AlterReceipt(i, rehashed)) \/ AlterHash(i)
      PROVE  HashInv'
    <2>1. WellFormedRow(rows[i])
        BY TableFacts DEF TypeInv
    <2>2. PICK r : rows' = [rows EXCEPT ![i] = [rows[i] EXCEPT !.receipt = r]]
        <3>1. CASE AlterHash(i)
            BY <1>1, <3>1 DEF AlterHash, Damage
        <3>2. ASSUME NEW rehashed \in BOOLEAN, AlterReceipt(i, rehashed)
              PROVE  \E r : rows' = [rows EXCEPT ![i] = [rows[i] EXCEPT !.receipt = r]]
            BY <1>1, <3>2 DEF AlterReceipt, Damage
        <3> QED BY <1>6, <3>1, <3>2
    <2>3. [rows[i] EXCEPT !.receipt = r].hash = rows[i].hash
        BY <2>1 DEF WellFormedRow
    <2>4. DOMAIN rows' = DOMAIN rows /\ \A k \in DOMAIN rows : rows'[k].hash = rows[k].hash
        BY <1>1, <2>2, <2>3
    <2> QED BY <2>4 DEF HashInv
<1>7. ASSUME NEW i \in DOMAIN rows, NEW stray \in Strays, AlterColumn(i, stray)
      PROVE  HashInv'
    <2>1. rows' = [rows EXCEPT ![i] = [rows[i] EXCEPT !.hash = stray]]
        BY <1>7 DEF AlterColumn, Damage
    <2>2. [rows[i] EXCEPT !.hash = stray].hash = stray
        <3>1. WellFormedRow(rows[i])
            BY TableFacts DEF TypeInv
        <3> QED BY <3>1 DEF WellFormedRow
    <2>3. /\ DOMAIN rows' = DOMAIN rows /\ rows'[i].hash = stray
          /\ \A l \in DOMAIN rows : l # i => rows'[l].hash = rows[l].hash
        BY <1>1, <2>1, <2>2
    <2> QED BY <2>3, StrayHash DEF HashInv
<1>8. ASSUME NEW j \in DOMAIN rows, NEW p \in 1..(n + 1), InsertRow(p, j) PROVE HashInv'
    <2>1. PICK y : /\ y.hash \in Strays
                   /\ rows' \in Seq({rows[k] : k \in DOMAIN rows} \union {y})
                   /\ Len(rows') = n + 1
                   /\ \A k \in 1..(p - 1) : rows'[k] = rows[k]
                   /\ rows'[p] = y
                   /\ \A k \in (p + 1)..(n + 1) : rows'[k] = rows[k - 1]
        BY <1>8, InsertRowFields DEF n
    <2>2. DOMAIN rows' = 1..(n + 1)
        BY <2>1, LenProperties
    <2> DEFINE from(k) == IF k < p THEN k ELSE k - 1
    <2>3. ASSUME NEW k \in 1..(n + 1), k # p
          PROVE  from(k) \in DOMAIN rows /\ rows'[k] = rows[from(k)]
        <3>1. from(k) \in 1..n
            BY <1>1, <2>3
        <3>2. k < p => k \in 1..(p - 1)
            BY <1>1
        <3>3. ~(k < p) => k \in (p + 1)..(n + 1)
            BY <1>1, <2>3
        <3> QED BY <1>1, <2>1, <3>1, <3>2, <3>3
    <2>4. \A k, l \in 1..(n + 1) : k # p /\ l # p /\ from(k) = from(l) => k = l
        BY <1>1
    <2> HIDE DEF from
    <2>5. \A k \in DOMAIN rows' : Hash(rows'[k].hash)
        BY <2>1, <2>2, <2>3, StrayHash DEF HashInv
    <2>6. ASSUME NEW k \in DOMAIN rows', NEW l \in DOMAIN rows',
                 rows'[k].hash = rows'[l].hash
          PROVE  k = l
        <3>1. CASE k # p /\ l # p
            BY <2>2, <2>3, <2>4, <2>6, <3>1 DEF HashInv
        <3>2. CASE k = p \/ l = p
            BY <2>1, <2>2, <2>3, <2>6, <3>2, StrayHash
        <3> QED BY <3>1, <3>2
    <2> QED BY <2>5, <2>6 DEF HashInv
<1>9. (\A i \in DOMAIN rows : i \in 1..(n + 1)) /\ Len(rows) + 1 \in 1..(n + 1)
    BY <1>1 DEF n
<1> QED BY <1>3, <1>4, <1>5, <1>6, <1>7, <1>8, <1>9 DEF Harm

\* A receipt that append() lets in has a hash of its own.
LEMMA HashAppend ==
    ASSUME TypeInv, SoundInv, HashInv, NEW t \in Tasks, AppendReceipt(t)
    PROVE  HashInv'
<1>1. /\ DOMAIN rows' = 1..Len(rows) + 1 /\ rows'[Len(rows) + 1] = Row(draft[t])
      /\ \A k \in DOMAIN rows : rows'[k] = rows[k]
      /\ DOMAIN rows = 1..Len(rows) /\ Len(rows) \in Nat
    BY InsertRows, TableFacts DEF AppendReceipt, TypeInv
<1>2. rows'[Len(rows) + 1].hash = draft[t].hash
    BY <1>1 DEF Row
<1>3. Hash(draft[t].hash)
    BY DEF AppendReceipt, SoundInv, DraftSound, Authentic, Hash, Leaf
<1>4. \A k \in DOMAIN rows : rows[k].hash # draft[t].hash
    BY DEF AppendReceipt, SoundInv, RowSound
<1> QED BY <1>1, <1>2, <1>3, <1>4 DEF HashInv

LEMMA HashStep ==
    ASSUME TypeInv, SoundInv, HashInv, NotaryInv, [Next]_vars
    PROVE  HashInv' /\ NotaryInv'
<1>1. CASE UNCHANGED <<rows, notary>>
    BY <1>1 DEF HashInv, NotaryInv
<1>2. CASE Harm
    BY <1>2, HarmFrame, HashHarm DEF NotaryInv
<1>3. ASSUME NEW t \in Tasks, AppendReceipt(t) PROVE HashInv' /\ NotaryInv'
    BY <1>3, HashAppend DEF AppendReceipt, Insert, NotaryInv
<1>4. CASE Publish
    <2>1. /\ notary' = [root |-> MerkleRoot(Hashes), hashes |-> Hashes]
          /\ rows' = rows
        BY <1>4 DEF Publish
    <2>2. notary'.root = MerkleRoot(notary'.hashes) /\ Hashed(notary'.hashes)
        BY <2>1, HashesHashed
    <2> QED BY <2>1, <2>2 DEF HashInv, NotaryInv
<1>5. \/ UNCHANGED <<rows, notary>>
      \/ Publish \/ Harm
      \/ \E t \in Tasks : AppendReceipt(t)
    BY DEF Next, Harm, Register, Rotate, Seal, Refuse, Restart, vars
<1> QED BY <1>1, <1>2, <1>3, <1>4, <1>5

\* Whatever was lost, inserted, moved or altered since a root was published, and
\* however long the logs, another log of as many rows does not have the same
\* root: because append() and the UNIQUE column keep the hashes distinct, the last
\* node of an odd layer, which is paired with itself, is no loophole.  A shorter
\* or longer log has it only where all hashes of the shorter are inner nodes.
THEOREM Commitment ==
    ASSUME NoneIsNoHash
    PROVE  Spec => []MerkleCommits
<1>1. NotAHash
    BY DEF NoneIsNoHash, NotAHash, Hash, Leaf
<1>2. Init => SoundInv /\ HashInv /\ NotaryInv
    BY DEF Init, SoundInv, IsSeq, Published, HashInv, NotaryInv
<1>3. TypeInv /\ (SoundInv /\ HashInv /\ NotaryInv) /\ [Next]_vars
        => (SoundInv /\ HashInv /\ NotaryInv)'
    BY <1>1, SoundStep, HashStep
<1>4. TypeInv /\ (SoundInv /\ HashInv /\ NotaryInv) => MerkleCommits
    <2> SUFFICES ASSUME TypeInv, HashInv, NotaryInv, notary # None,
                        notary.root = MerkleRoot(Hashes)
                 PROVE  \/ notary.hashes = Hashes
                        \/ Folded(Hashes, notary.hashes)
                        \/ Folded(notary.hashes, Hashes)
        BY DEF MerkleCommits
    <2> QED BY HashesHashed, RootsTell DEF NotaryInv
<1> QED BY <1>2, <1>3, <1>4, TypeInit, TypeStep, PTL DEF Spec
=============================================================================
