---------------------------- MODULE Attestation ----------------------------
(***************************************************************************)
(* security/signing.py, security/keys.py and the integrity side of         *)
(* security/audit_log.py: receipts are sealed with the controller's signer,*)
(* appended if the process's KeyRegistry knows the key and the link is the *)
(* tip, replayed by verify_chain() and committed to by merkle_root().      *)
(* Signers come and go, the registry is lost with the process, and what is *)
(* on disk may suffer damage.                                              *)
(*                                                                         *)
(* blake2b and the canonical JSON are taken to be injective and Ed25519 to *)
(* verify what was signed and nothing else, so a hash is the term it was   *)
(* computed from and a signature names its key and its payload.  Locks and *)
(* races are in AuditLog.                                                  *)
(***************************************************************************)
EXTENDS Naturals, Sequences

CONSTANTS
    Tasks,        \* tasks that emit receipts
    Keys,         \* Ed25519 key pairs
    KeyIds,       \* key ids
    MaxReceipts,  \* bound on receipts sealed
    MaxTroubles,  \* bound on damages to the table and restarts of the process
    None          \* "no receipt", "no key"

ASSUME BoundsAssumption ==
    MaxReceipts \in Nat /\ MaxTroubles \in Nat
ASSUME NoneAssumption == None \notin Keys

VARIABLES
    registry,  \* KeyRegistry._by_id: the key under each id, or None
    signer,    \* the controller's signer
    draft,     \* the receipt each task has sealed and not yet appended
    rows,      \* the audit_log table, in sequence order
    sealed,    \* how many receipts were sealed
    notary,    \* a published Merkle root, with the hashes it was taken from
    genuine,   \* history: the logs made of receipts that append() let in,
               \* each on top of the one before it
    damages,   \* how many damages the table has suffered
    intact,    \* history: no damage but the loss of the last rows
    restarts   \* how many restarts there were

vars == <<registry, signer, draft, rows, sealed, notary, genuine, damages,
          intact, restarts>>

Signers == [id : KeyIds, key : Keys]
Bodies  == 0..MaxReceipts  \* 0: what no receipt was ever sealed for

-----------------------------------------------------------------------------
(* signing.py                                                              *)

\* What is hashed and signed: the fields of a receipt, the signer's id and
\* the link among them.  The body stands for shard, action, tiers and time.
Envelope(body, actor, link) == <<"receipt", body, actor, link>>

\* sign_receipt(): the hash of the envelope, and a signature of it.
SignReceipt(s, body, link) ==
    LET payload == Envelope(body, s.id, link)
    IN  [body |-> body, actor |-> s.id, prev |-> link, hash |-> payload,
         signature |-> [key |-> s.key, of |-> payload]]

\* Mutant: the stored hash is checked, the signature is not.
VerifyHashOnly(r, v) ==
    r.actor = v.id /\ r.hash = Envelope(r.body, r.actor, r.prev)

\* verify_receipt() with the verifier v: key id, hash, signature.
VerifyReceipt(r, v) ==
    LET payload == Envelope(r.body, r.actor, r.prev)
    IN  /\ r.actor = v.id
        /\ r.hash = payload
        /\ r.signature = [key |-> v.key, of |-> payload]

\* KeyRegistry.get() raises for an unknown id, else its verifier decides.
Accepts(keys, r) ==
    keys[r.actor] # None /\ VerifyReceipt(r, [id |-> r.actor, key |-> keys[r.actor]])

-----------------------------------------------------------------------------
(* The table: a row has the receipt and, in a column of its own, its hash. *)

Row(r)   == [hash |-> r.hash, receipt |-> r]
Payloads == [i \in DOMAIN rows |-> rows[i].receipt]
Hashes   == [i \in DOMAIN rows |-> rows[i].hash]

\* The link that row i has to have.
LinkAt(i) == IF i = 1 THEN None ELSE rows[i-1].receipt.hash

\* verify_chain() does not raise: from the first receipt on, each links to the
\* one before it and is accepted by itself.
Replays ==
    \A i \in DOMAIN rows :
        rows[i].receipt.prev = LinkAt(i) /\ Accepts(registry, rows[i].receipt)

\* SELECT receipt_hash ... ORDER BY sequence DESC LIMIT 1
Tip == IF rows = <<>> THEN None ELSE rows[Len(rows)].hash

\* The hash of the last receipt of a log.
LastHash(log) == IF log = <<>> THEN None ELSE log[Len(log)].hash

\* Mutant: the last node of a layer of odd length is dropped.
ParentsEven(layer) ==
    IF Len(layer) <= 1 THEN layer
    ELSE [i \in 1..(Len(layer) \div 2) |-> <<"node", layer[2*i-1], layer[2*i]>>]

\* The layer above: pairs hashed together, an odd last node with itself.
Parents(layer) ==
    IF Len(layer) <= 1 THEN layer
    ELSE [i \in 1..((Len(layer) + 1) \div 2) |->
             <<"node", layer[2*i-1],
                       layer[IF 2*i <= Len(layer) THEN 2*i ELSE 2*i-1]>>]

\* merkle_root(): layer upon layer until one node is left.
MerkleRoot(hashes) ==
    LET layer[k \in 0..Len(hashes)] ==
            IF k = 0 THEN hashes ELSE Parents(layer[k-1])
    IN  IF hashes = <<>> THEN None ELSE layer[Len(hashes)][1]

-----------------------------------------------------------------------------
IsReceipt(r) ==
    /\ r.body \in Bodies /\ r.actor \in KeyIds
    /\ r.signature.key \in Keys

TypeOK ==
    /\ registry \in [KeyIds -> Keys \union {None}]
    /\ signer \in Signers
    /\ \A t \in Tasks : draft[t] = None \/ IsReceipt(draft[t])
    /\ \A i \in DOMAIN rows : IsReceipt(rows[i].receipt)
    /\ sealed \in 0..MaxReceipts
    /\ damages \in 0..MaxTroubles /\ restarts \in 0..MaxTroubles
    /\ intact \in BOOLEAN

Init ==
    /\ registry = [id \in KeyIds |-> None]
    /\ signer \in Signers
    /\ draft = [t \in Tasks |-> None]
    /\ rows = <<>> /\ sealed = 0
    /\ notary = None
    /\ genuine = {<<>>}
    /\ damages = 0 /\ intact = TRUE /\ restarts = 0

-----------------------------------------------------------------------------
(* keys.py                                                                 *)

\* Mutant: the key registered last is the one that counts.
RegisterReplaces(id, key) ==
    /\ registry' = [registry EXCEPT ![id] = key]
    /\ UNCHANGED <<signer, draft, rows, sealed, notary, genuine, damages,
                   intact, restarts>>

\* register(): a new id, or the same key again.  Another key under a known id
\* raises and changes nothing.
Register(id, key) ==
    /\ registry[id] \in {None, key}
    /\ registry' = [registry EXCEPT ![id] = key]
    /\ UNCHANGED <<signer, draft, rows, sealed, notary, genuine, damages,
                   intact, restarts>>

\* The deployment goes over to another signer; nothing registers it for it.
Rotate(s) ==
    /\ signer' = s
    /\ UNCHANGED <<registry, draft, rows, sealed, notary, genuine, damages,
                   intact, restarts>>

-----------------------------------------------------------------------------
(* _emit_receipt(): seal a receipt that links to the tip, then append it.  *)

\* Mutant: the receipt is signed by its id.
SealById(t) ==
    /\ draft[t] = None /\ sealed < MaxReceipts
    /\ sealed' = sealed + 1
    /\ draft' = [draft EXCEPT ![t] =
                    SignReceipt([signer EXCEPT !.key = signer.id], sealed + 1, Tip)]
    /\ UNCHANGED <<registry, signer, rows, notary, genuine, damages, intact, restarts>>

Seal(t) ==
    /\ draft[t] = None /\ sealed < MaxReceipts
    /\ sealed' = sealed + 1
    /\ draft' = [draft EXCEPT ![t] = SignReceipt(signer, sealed + 1, Tip)]
    /\ UNCHANGED <<registry, signer, rows, notary, genuine, damages, intact, restarts>>

Insert(t) ==
    /\ rows' = Append(rows, Row(draft[t]))
    /\ genuine' = genuine \union
          {Append(g, draft[t]) : g \in {h \in genuine : LastHash(h) = draft[t].prev}}
    /\ draft' = [draft EXCEPT ![t] = None]
    /\ UNCHANGED <<registry, signer, sealed, notary, damages, intact, restarts>>

\* Mutant: append() trusts the signer, who is its own controller's.
AppendUnverified(t) ==
    /\ draft[t] # None
    /\ draft[t].prev = Tip
    /\ Insert(t)

\* append() verifies receipt and link, and inserts.
AppendReceipt(t) ==
    /\ draft[t] # None
    /\ Accepts(registry, draft[t]) /\ draft[t].prev = Tip
    /\ Insert(t)

\* append() raises: unknown key id, wrong key, or a tip that has moved.
Refuse(t) ==
    /\ draft[t] # None
    /\ ~(Accepts(registry, draft[t]) /\ draft[t].prev = Tip)
    /\ draft' = [draft EXCEPT ![t] = None]
    /\ UNCHANGED <<registry, signer, rows, sealed, notary, genuine, damages,
                   intact, restarts>>

\* The root is given to an outside notary.
Publish ==
    /\ notary' = [root |-> MerkleRoot(Hashes), hashes |-> Hashes]
    /\ UNCHANGED <<registry, signer, draft, rows, sealed, genuine, damages,
                   intact, restarts>>

-----------------------------------------------------------------------------
(* The environment.                                                        *)

Damage(table) ==
    /\ damages + restarts < MaxTroubles
    /\ damages' = damages + 1
    /\ rows' = table
    /\ UNCHANGED <<registry, signer, draft, sealed, notary, genuine, restarts>>

\* The table is restored from a copy that lacks its last row.
LoseTail ==
    /\ rows # <<>>
    /\ Damage(SubSeq(rows, 1, Len(rows) - 1))
    /\ UNCHANGED intact

\* A row before the last is gone, or two rows have changed places.
LoseRow(i) ==
    /\ i < Len(rows)
    /\ Damage(SubSeq(rows, 1, i-1) \o SubSeq(rows, i+1, Len(rows)))
    /\ intact' = FALSE

SwapRows(i, j) ==
    /\ i < j
    /\ Damage([rows EXCEPT ![i] = rows[j], ![j] = rows[i]])
    /\ intact' = FALSE

\* A stored receipt says something else, with its old hash or the right one.
AlterReceipt(i, rehashed) ==
    /\ LET r == [rows[i].receipt EXCEPT !.body = 0]
       IN  Damage([rows EXCEPT ![i].receipt =
                      IF rehashed
                      THEN [r EXCEPT !.hash = Envelope(r.body, r.actor, r.prev)]
                      ELSE r])
    /\ intact' = FALSE

\* A stored receipt carries another hash than its own.
AlterHash(i) ==
    /\ Damage([rows EXCEPT ![i].receipt.hash = <<"damaged">>])
    /\ intact' = FALSE

\* The hashes that the published root was taken from, and all that are about.
Published ==
    IF notary = None THEN {} ELSE {notary.hashes[i] : i \in DOMAIN notary.hashes}

Column == {rows[i].hash : i \in DOMAIN rows}
Seen   == Column \union Published

\* A value out of the blue.
Blue == <<"damaged", damages>>

\* What damage may put into the hash column, which is UNIQUE, whoever writes it:
\* a value that no row has, be it out of the blue, a hash seen elsewhere, or the
\* hash of two that were seen, as the nodes above the leaves of a tree are.
Strays ==
    ({Blue} \union Seen \union {<<"node", x, y>> : x, y \in Seen}) \ Column

\* The hash column of a row is damaged: verify_chain() does not read it.
AlterColumn(i, stray) ==
    /\ Damage([rows EXCEPT ![i].hash = stray])
    /\ intact' = FALSE

\* A copy of row j is inserted before the i-th or after the last, under another
\* value in the UNIQUE column.
InsertRow(i, j) ==
    /\ Blue \in Strays
    /\ Damage(SubSeq(rows, 1, i-1) \o <<[rows[j] EXCEPT !.hash = Blue]>>
                  \o SubSeq(rows, i, Len(rows)))
    /\ intact' = FALSE

\* The registry and the receipts in flight are in memory.
Restart ==
    /\ damages + restarts < MaxTroubles
    /\ restarts' = restarts + 1
    /\ registry' = [id \in KeyIds |-> None]
    /\ draft' = [t \in Tasks |-> None]
    /\ UNCHANGED <<signer, rows, sealed, notary, genuine, damages, intact>>

Next ==
    \/ \E id \in KeyIds, key \in Keys : Register(id, key)
    \/ \E s \in Signers : Rotate(s)
    \/ \E t \in Tasks : Seal(t) \/ AppendReceipt(t) \/ Refuse(t)
    \/ Publish
    \/ LoseTail
    \/ \E i, j \in DOMAIN rows :
          \/ LoseRow(i)
          \/ SwapRows(i, j)
          \/ \E rehashed \in BOOLEAN : AlterReceipt(i, rehashed)
          \/ AlterHash(i)
          \/ \E stray \in Strays : AlterColumn(i, stray)
          \/ InsertRow(i, j)
          \/ InsertRow(Len(rows) + 1, j)
    \/ Restart

Spec == Init /\ [][Next]_vars

-----------------------------------------------------------------------------
(* Properties.                                                             *)

\* "Insertions, deletions, and reorderings are all caught": a log that replays
\* is one that append() made receipt by receipt, whatever was lost, moved or
\* altered since, under whatever keys.  The loss of the last rows is not caught,
\* and then the log is an earlier one.
ReplaySound == Replays => Payloads \in genuine

\* No false alarm: until the process restarts, a log without damage replays,
\* across any rotation, collision of key ids and interleaving of emissions.
ReplayComplete == intact /\ restarts = 0 => Replays

\* "Old receipts stay verifiable": a receipt that the process accepts it keeps
\* accepting for as long as it lives, whatever is registered later.
RotationKeeps ==
    [][restarts' = restarts
         => \A i \in DOMAIN rows :
               Accepts(registry, rows[i].receipt) => Accepts(registry', rows[i].receipt)]_vars

\* Each hash of the shorter log is an inner node of the tree of the longer one.
Folded(short, long) ==
    /\ short # <<>> /\ Len(short) < Len(long)
    /\ \A i \in DOMAIN short : short[i][1] = "node"

\* A published Merkle root and the number of rows commit to the log, although an
\* odd layer pairs its last node with itself.  The root alone does so unless
\* every hash of the shorter log is the hash of two others: merkle_root() does
\* not tell a leaf from an inner node.
MerkleCommits ==
    notary # None /\ notary.root = MerkleRoot(Hashes)
        => \/ notary.hashes = Hashes
           \/ Folded(Hashes, notary.hashes)
           \/ Folded(notary.hashes, Hashes)
=============================================================================
