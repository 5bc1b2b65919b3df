------------------------ MODULE EvidenceVaultProofs ------------------------
(***************************************************************************)
(* Proofs about the vault, for any number of threads, identities, keys and *)
(* rows.  VaultInv is inductive together with TypeOK; the chain's          *)
(* integrity, the absence of uniqueness conflicts, the pins' being         *)
(* write-once and the detection of a corrupted row follow from it.         *)
(***************************************************************************)
EXTENDS EvidenceVault, SequenceTheorems, TLAPS

\* A digest extended by one row is a digest.
LEMMA DigestExtends ==
  ASSUME NEW d \in Digest, NEW n \in Nat, NEW b \in Bodies
  PROVE  ComputeRowHash(d, n, b) \in Digest
BY AppendProperties DEF Digest, ComputeRowHash

\* The end of a table: append_event's read of the last row yields a number and
\* a digest, the genesis value for an empty table.
LEMMA LastTyped ==
  ASSUME NEW rows \in Seq(Row)
  PROVE  LastHash(rows) \in Digest /\ LastSeq(rows) \in Nat
<1>1. CASE rows = <<>>
  BY <1>1, EmptySeq DEF LastHash, LastSeq, GenesisPrevHash, Digest
<1>2. CASE rows # <<>>
  <2>1. Len(rows) \in 1..Len(rows)
    BY <1>2, EmptySeq, LenProperties
  <2>2. rows[Len(rows)] \in Row
    BY <2>1, ElementOfSeq
  <2>3. QED
    BY <1>2, <2>2 DEF LastHash, LastSeq, Row
<1>3. QED BY <1>1, <1>2

\* NextRow builds a row of the table.
LEMMA NextRowTyped ==
  ASSUME NEW rows \in Seq(Row), NEW b \in Bodies,
         NEW s \in Identities \cup {Nobody}, NEW k \in Keys \cup {NoKey}
  PROVE  NextRow(rows, b, s, k) \in Row
<1>1. LastHash(rows) \in Digest /\ LastSeq(rows) \in Nat
  BY LastTyped
<1>2. LastSeq(rows) + 1 \in Nat
  BY <1>1
<1>3. ComputeRowHash(LastHash(rows), LastSeq(rows) + 1, b) \in Digest
  BY <1>1, <1>2, DigestExtends
<1>4. QED BY <1>1, <1>2, <1>3 DEF NextRow, Row

\* Every step keeps the types of the tables, the lock and the open transactions.
LEMMA VaultTypeStep == TypeOK /\ [Next]_vars => TypeOK'
<1> SUFFICES ASSUME TypeOK, [Next]_vars PROVE TypeOK'
  OBVIOUS
<1> USE DEF TypeOK
<1>1. ASSUME NEW w \in Workers, NEW i \in Identities, NEW k \in Keys, BindRead(w, i, k)
      PROVE  TypeOK'
  <2>1. [op |-> "bind", ident |-> i, key |-> k, found |-> pins[i]] \in BindTxn
    BY DEF BindTxn, Pins
  <2>2. txn' \in [Workers -> {NoTxn} \cup BindTxn \cup AppendTxn]
    BY <1>1, <2>1 DEF BindRead
  <2>3. QED BY <1>1, <2>2 DEF BindRead, tables
<1>2. ASSUME NEW w \in Workers, BindWrite(w)
      PROVE  TypeOK'
  <2>1. txn[w] \in BindTxn
    BY <1>2 DEF BindWrite, NoTxn, BindTxn, AppendTxn
  <2>2. pins' \in Pins
    BY <1>2, <2>1 DEF BindWrite, BindTxn, Pins
  <2>3. BindOutcome(txn[w]) \in Results
    BY DEF BindOutcome, Results
  <2>4. result' \in [Workers -> Results]
    BY <1>2, <2>3 DEF BindWrite, Return
  <2>5. lock' \in Workers \cup {Nobody} /\ txn' \in [Workers -> {NoTxn} \cup BindTxn \cup AppendTxn]
    BY <1>2 DEF BindWrite, Release
  <2>6. QED BY <1>2, <2>2, <2>4, <2>5 DEF BindWrite
<1>3. ASSUME NEW w \in Workers, NEW b \in Bodies, NEW s \in Identities \cup {Nobody},
             NEW k \in Keys \cup {NoKey}, AppendRead(w, b, s, k)
      PROVE  TypeOK'
  <2>1. [op |-> "append", row |-> NextRow(events, b, s, k)] \in AppendTxn
    BY NextRowTyped DEF AppendTxn
  <2>2. txn' \in [Workers -> {NoTxn} \cup BindTxn \cup AppendTxn]
    BY <1>3, <2>1 DEF AppendRead
  <2>3. QED BY <1>3, <2>2 DEF AppendRead, tables
<1>4. ASSUME NEW w \in Workers, AppendCommit(w)
      PROVE  TypeOK'
  <2>1. txn[w] \in AppendTxn
    BY <1>4 DEF AppendCommit, NoTxn, BindTxn, AppendTxn
  <2>2. txn[w].row \in Row
    BY <2>1 DEF AppendTxn
  <2>3. events' \in Seq(Row)
    BY <1>4, <2>2, AppendProperties DEF AppendCommit
  <2>4. result' \in [Workers -> Results]
    BY <1>4 DEF AppendCommit, Return, Results
  <2>5. lock' \in Workers \cup {Nobody} /\ txn' \in [Workers -> {NoTxn} \cup BindTxn \cup AppendTxn]
    BY <1>4 DEF AppendCommit, Release
  <2>6. QED BY <1>4, <2>3, <2>4, <2>5 DEF AppendCommit
<1>5. ASSUME NEW w \in Workers, WriteFails(w)
      PROVE  TypeOK'
  BY <1>5 DEF WriteFails, Return, Release, tables, Results
<1>6. ASSUME NEW w \in Workers, NEW s \in Signatures, NEW c \in SUBSET (1..Len(events)),
             RecordIncident(w, s, c)
      PROVE  TypeOK'
  <2>1. [signature |-> s, cites |-> c] \in Incident
    BY LenProperties DEF Incident
  <2>2. incidents' \in Seq(Incident)
    BY <1>6, <2>1, AppendProperties DEF RecordIncident
  <2>3. result' \in [Workers -> Results]
    BY <1>6 DEF RecordIncident, Return, Results
  <2>4. QED BY <1>6, <2>2, <2>3 DEF RecordIncident
<1>7. ASSUME NEW w \in Workers, RecordFails(w)
      PROVE  TypeOK'
  BY <1>7 DEF RecordFails, Return, tables, Results
<1>8. CASE Checkpoint
  BY <1>8 DEF Checkpoint, tables
<1>9. CASE Crash
  BY <1>9 DEF Crash, Restart, tables, Results
<1>10. CASE PowerLoss
  BY <1>10 DEF PowerLoss, Restart, Results
<1>11. CASE UNCHANGED vars
  BY <1>11 DEF vars
<1>12. QED
  BY <1>1, <1>2, <1>3, <1>4, <1>5, <1>6, <1>7, <1>8, <1>9, <1>10, <1>11 DEF Next, WorkerStep

\* The vault's variables keep their types (tables, lock, open transactions).
THEOREM VaultTypeCorrect == Spec => []TypeOK
<1>1. Init => TypeOK
  BY EmptySeq DEF Init, TypeOK, Pins, Results
<1>2. QED BY <1>1, VaultTypeStep, PTL DEF Spec
-----------------------------------------------------------------------------
\* On a table that verifies, the newest row carries the table's length.
LEMMA LastSeqIsLength ==
  ASSUME NEW rows \in Seq(Row), VerifyChain(rows)
  PROVE  LastSeq(rows) = Len(rows)
<1>1. CASE rows = <<>>
  BY <1>1, EmptySeq DEF LastSeq
<1>2. CASE rows # <<>>
  <2>1. Len(rows) \in 1..Len(rows)
    BY <1>2, EmptySeq, LenProperties
  <2>2. QED BY <1>2, <2>1 DEF LastSeq, VerifyChain
<1>3. QED BY <1>1, <1>2

\* On a table that verifies, the next number is free: UNIQUE(seq) has nothing
\* to refuse.
LEMMA NextSeqFree ==
  ASSUME TypeOK, VerifyChain(events), NEW b, NEW s, NEW k
  PROVE  ~SeqTaken(NextRow(events, b, s, k).seq)
<1>1. NextRow(events, b, s, k).seq = Len(events) + 1
  BY LastSeqIsLength DEF NextRow, TypeOK
<1>2. Len(events) \in Nat
  BY LenProperties DEF TypeOK
<1>3. QED BY <1>1, <1>2 DEF SeqTaken, VerifyChain

\* Appending the next row to a table that verifies gives one that verifies.
LEMMA ChainExtends ==
  ASSUME NEW rows \in Seq(Row), VerifyChain(rows), NEW b \in Bodies,
         NEW s \in Identities \cup {Nobody}, NEW k \in Keys \cup {NoKey}
  PROVE  VerifyChain(Append(rows, NextRow(rows, b, s, k)))
<1> DEFINE r == NextRow(rows, b, s, k)
           longer == Append(rows, r)
<1>1. r \in Row
  BY NextRowTyped
<1>2. /\ Len(rows) \in Nat
      /\ Len(longer) = Len(rows) + 1
      /\ longer[Len(rows) + 1] = r
      /\ \A i \in 1..Len(rows) : longer[i] = rows[i]
  BY <1>1, AppendProperties, LenProperties
<1>3. LastSeq(rows) = Len(rows)
  BY LastSeqIsLength
<1>4. r.seq = Len(rows) + 1 /\ r.prev_hash = LastHash(rows)
      /\ r.row_hash = ComputeRowHash(r.prev_hash, r.seq, r.body)
  BY <1>3 DEF NextRow
<1>5. LastHash(rows) = IF Len(rows) + 1 = 1 THEN GenesisPrevHash ELSE rows[Len(rows)].row_hash
  BY <1>2, EmptySeq DEF LastHash
<1> HIDE DEF r, longer
<1>6. SUFFICES ASSUME NEW i \in 1..Len(longer)
               PROVE  /\ longer[i].seq = i
                      /\ longer[i].prev_hash = IF i = 1 THEN GenesisPrevHash ELSE longer[i-1].row_hash
                      /\ longer[i].row_hash = ComputeRowHash(longer[i].prev_hash, longer[i].seq, longer[i].body)
  BY DEF VerifyChain, longer, r
<1>7. CASE i \in 1..Len(rows)
  <2>1. longer[i] = rows[i] /\ (i # 1 => longer[i-1] = rows[i-1])
    BY <1>2, <1>7
  <2>2. QED BY <2>1, <1>7 DEF VerifyChain
<1>8. CASE i = Len(rows) + 1
  <2>1. longer[i] = r
    BY <1>2, <1>8
  <2>2. i # 1 => Len(rows) \in 1..Len(rows) /\ i - 1 = Len(rows)
    BY <1>2, <1>8
  <2>3. i # 1 => longer[i-1] = rows[Len(rows)]
    BY <1>2, <2>2
  <2>4. QED BY <2>1, <2>3, <1>4, <1>5, <1>8
<1>9. QED BY <1>2, <1>6, <1>7, <1>8
-----------------------------------------------------------------------------
\* The initial tables satisfy the invariant.
LEMMA VaultInvInit == Init => VaultInv
<1> SUFFICES ASSUME Init PROVE VaultInv
  OBVIOUS
<1>1. Len(events) = 0 /\ Len(disk.events) = 0
  BY EmptySeq DEF Init
<1>2. VerifyChain(events) /\ VerifyChain(disk.events)
  BY <1>1 DEF VerifyChain
<1>3. QED
  BY <1>1, <1>2 DEF Init, VaultInv, LockHeld, ReadsCurrent, DurablePast, ChainVerifies,
                    NoConflict, NoTxn

\* Every step of every thread, and every failure, preserves it.
LEMMA VaultInvStep == TypeOK /\ VaultInv /\ [Next]_vars => VaultInv'
<1> SUFFICES ASSUME TypeOK, VaultInv, [Next]_vars PROVE VaultInv'
  OBVIOUS
<1> USE DEF VaultInv
<1>1. ASSUME NEW w \in Workers, NEW i \in Identities, NEW k \in Keys, BindRead(w, i, k)
      PROVE  VaultInv'
  <2>1. txn' = [txn EXCEPT ![w] =
                  [op |-> "bind", ident |-> i, key |-> k, found |-> pins[i]]]
        /\ pins' = pins /\ lock' = w /\ \A v \in Workers : txn[v] = NoTxn
    BY <1>1, VaultAssumption DEF BindRead, tables, LockHeld, LockFree
  <2>2. LockHeld' /\ ReadsCurrent'
    BY <2>1 DEF LockHeld, ReadsCurrent, TypeOK, NoTxn
  <2>3. DurablePast' /\ ChainVerifies' /\ NoConflict'
    BY <1>1 DEF BindRead, DurablePast, ChainVerifies, NoConflict, tables, VerifyChain
  <2>4. QED BY <2>2, <2>3
<1>2. ASSUME NEW w \in Workers, BindWrite(w)
      PROVE  VaultInv'
  <2>1. txn[w] \in BindTxn /\ lock = w /\ pins[txn[w].ident] = txn[w].found
    BY <1>2 DEF BindWrite, TypeOK, NoTxn, BindTxn, AppendTxn, LockHeld, ReadsCurrent
  <2>2. BindOutcome(txn[w]) # "conflict"
    BY <2>1 DEF BindOutcome
  <2>3. NoConflict'
    BY <1>2, <2>2 DEF BindWrite, Return, NoConflict, TypeOK
  <2>4. \A v \in Workers : txn'[v] = NoTxn
    BY <1>2, <2>1 DEF BindWrite, Release, LockHeld, TypeOK
  <2>5. LockHeld' /\ ReadsCurrent'
    BY <2>4 DEF LockHeld, ReadsCurrent, NoTxn
  <2>6. \A i \in Identities : pins[i] # NoKey => pins'[i] = pins[i]
    BY <1>2, <2>1 DEF BindWrite, BindOutcome, TypeOK, Pins, BindTxn
  <2>7. DurablePast' /\ ChainVerifies'
    BY <1>2, <2>6 DEF BindWrite, DurablePast, ChainVerifies, VerifyChain
  <2>8. QED BY <2>3, <2>5, <2>7
<1>3. ASSUME NEW w \in Workers, NEW b \in Bodies, NEW s \in Identities \cup {Nobody},
             NEW k \in Keys \cup {NoKey}, AppendRead(w, b, s, k)
      PROVE  VaultInv'
  <2>1. txn' = [txn EXCEPT ![w] = [op |-> "append", row |-> NextRow(events, b, s, k)]]
        /\ events' = events /\ pins' = pins /\ lock' = w /\ \A v \in Workers : txn[v] = NoTxn
    BY <1>3, VaultAssumption DEF AppendRead, tables, LockHeld, LockFree
  <2>2. NextRow(events, b, s, k) = NextRow(events, NextRow(events, b, s, k).body,
            NextRow(events, b, s, k).signer, NextRow(events, b, s, k).pubkey)
    BY DEF NextRow
  <2>3. LockHeld' /\ ReadsCurrent'
    BY <2>1, <2>2 DEF LockHeld, ReadsCurrent, TypeOK, NoTxn, NextRow, LastHash, LastSeq
  <2>4. DurablePast' /\ ChainVerifies' /\ NoConflict'
    BY <1>3 DEF AppendRead, DurablePast, ChainVerifies, NoConflict, tables, VerifyChain
  <2>5. QED BY <2>3, <2>4
<1>4. ASSUME NEW w \in Workers, AppendCommit(w)
      PROVE  VaultInv'
  <2> DEFINE r == txn[w].row
  <2>1. txn[w] \in AppendTxn /\ lock = w /\ r = NextRow(events, r.body, r.signer, r.pubkey)
    BY <1>4 DEF AppendCommit, TypeOK, NoTxn, BindTxn, AppendTxn, LockHeld, ReadsCurrent
  <2>2. r \in Row /\ ~SeqTaken(r.seq)
    BY <2>1, NextSeqFree DEF AppendTxn, ChainVerifies
  <2>3. events' = Append(events, r) /\ result' = [result EXCEPT ![w] = "stored"]
    BY <1>4, <2>2 DEF AppendCommit, Return
  <2>4. NoConflict'
    BY <2>3 DEF NoConflict, TypeOK
  <2>5. VerifyChain(events')
    BY <2>1, <2>2, <2>3, ChainExtends DEF TypeOK, ChainVerifies, Row
  <2>6. ChainVerifies'
    BY <1>4, <2>5 DEF AppendCommit, ChainVerifies, VerifyChain
  <2>7. \A v \in Workers : txn'[v] = NoTxn
    BY <1>4, <2>1 DEF AppendCommit, Release, LockHeld, TypeOK
  <2>8. LockHeld' /\ ReadsCurrent'
    BY <2>7 DEF LockHeld, ReadsCurrent, NoTxn
  <2>9. Len(events) \in Nat /\ Len(disk.events) \in Nat /\ Len(events') = Len(events) + 1
        /\ \A i \in 1..Len(events) : events'[i] = events[i]
    BY <2>2, <2>3, AppendProperties, LenProperties DEF TypeOK
  <2>10. DurablePast'
    BY <1>4, <2>9 DEF AppendCommit, DurablePast
  <2>11. QED BY <2>4, <2>6, <2>8, <2>10
<1>5. ASSUME NEW w \in Workers, WriteFails(w)
      PROVE  VaultInv'
  <2>1. \A v \in Workers : txn'[v] = NoTxn
    BY <1>5 DEF WriteFails, Release, LockHeld, TypeOK, NoTxn
  <2>2. LockHeld' /\ ReadsCurrent'
    BY <2>1 DEF LockHeld, ReadsCurrent, NoTxn
  <2>3. DurablePast' /\ ChainVerifies' /\ NoConflict'
    BY <1>5 DEF WriteFails, Return, tables, DurablePast, ChainVerifies, VerifyChain, NoConflict, TypeOK
  <2>4. QED BY <2>2, <2>3
<1>6. ASSUME NEW w \in Workers, NEW s \in Signatures, NEW c \in SUBSET (1..Len(events)),
             RecordIncident(w, s, c)
      PROVE  VaultInv'
  <2>1. LockHeld' /\ ReadsCurrent'
    BY <1>6 DEF RecordIncident, LockHeld, ReadsCurrent, NextRow, LastHash, LastSeq
  <2>2. DurablePast' /\ ChainVerifies' /\ NoConflict'
    BY <1>6 DEF RecordIncident, Return, DurablePast, ChainVerifies, VerifyChain, NoConflict, TypeOK
  <2>3. QED BY <2>1, <2>2
<1>7. CASE Checkpoint
  <2>1. LockHeld' /\ ReadsCurrent' /\ NoConflict'
    BY <1>7 DEF Checkpoint, tables, LockHeld, ReadsCurrent, NoConflict, NextRow, LastHash, LastSeq
  <2>2. DurablePast' /\ ChainVerifies'
    BY <1>7, LenProperties DEF Checkpoint, tables, DurablePast, ChainVerifies, VerifyChain, TypeOK
  <2>3. QED BY <2>1, <2>2
<1>8. CASE Crash
  BY <1>8 DEF Crash, Restart, tables, LockHeld, ReadsCurrent, NoConflict, DurablePast,
              ChainVerifies, VerifyChain, NoTxn
<1>9. CASE PowerLoss
  <2>1. LockHeld' /\ ReadsCurrent' /\ NoConflict'
    BY <1>9 DEF PowerLoss, Restart, LockHeld, ReadsCurrent, NoConflict, NoTxn
  <2>2. DurablePast' /\ ChainVerifies'
    BY <1>9, LenProperties DEF PowerLoss, DurablePast, ChainVerifies, VerifyChain, TypeOK
  <2>3. QED BY <2>1, <2>2
<1>10. CASE UNCHANGED vars
  BY <1>10 DEF vars, LockHeld, ReadsCurrent, NoConflict, DurablePast, ChainVerifies, VerifyChain,
               NextRow, LastHash, LastSeq
<1>11. ASSUME NEW w \in Workers, RecordFails(w)
       PROVE  VaultInv'
  <2>1. LockHeld' /\ ReadsCurrent'
    BY <1>11 DEF RecordFails, tables, LockHeld, ReadsCurrent, NextRow, LastHash, LastSeq
  <2>2. DurablePast' /\ ChainVerifies' /\ NoConflict'
    BY <1>11 DEF RecordFails, tables, Return, DurablePast, ChainVerifies, VerifyChain, NoConflict, TypeOK
  <2>3. QED BY <2>1, <2>2
<1>12. QED
  BY <1>1, <1>2, <1>3, <1>4, <1>5, <1>6, <1>7, <1>8, <1>9, <1>10, <1>11 DEF Next, WorkerStep

\* Interleaved bind_key and append_event calls never act on a stale read, and
\* the durable tables stay a past of the live ones (db._append_lock).
THEOREM VaultInvariant == Spec => []VaultInv
<1>1. Init => VaultInv
  BY VaultInvInit
<1>2. TypeOK /\ VaultInv /\ [Next]_vars => VaultInv'
  BY VaultInvStep
<1>3. QED BY <1>1, <1>2, VaultTypeCorrect, PTL DEF Spec

\* verify_chain.py passes on the vault at every moment, before and after any
\* crash: no interleaving forks, skips or unlinks a row.
THEOREM ChainAlwaysVerifies == Spec => []ChainVerifies
<1>1. VaultInv => ChainVerifies
  BY DEF VaultInv
<1>2. QED BY <1>1, VaultInvariant, PTL

\* No append or first pin is ever refused by a uniqueness constraint.
THEOREM NeverConflicts == Spec => []NoConflict
<1>1. VaultInv => NoConflict
  BY DEF VaultInv
<1>2. QED BY <1>1, VaultInvariant, PTL

\* bind_key's trust-on-first-use: a pin is never replaced, and only a power
\* failure can take one back that was not durable yet.
THEOREM PinsAreWriteOnce == Spec => PinsWriteOnce
<1> DEFINE Kept == \A i \in Identities :
              \/ pins[i] = NoKey
              \/ pins'[i] = pins[i]
              \/ pins'[i] = NoKey /\ disk.pins[i] = NoKey
<1>1. TypeOK /\ VaultInv /\ [Next]_vars => [Kept]_vars
  <2> SUFFICES ASSUME TypeOK, VaultInv, Next PROVE Kept
    OBVIOUS
  <2>1. ASSUME NEW w \in Workers, BindWrite(w) PROVE Kept
    BY <2>1 DEF BindWrite, BindOutcome, VaultInv, ReadsCurrent, TypeOK, Pins
  <2>2. CASE PowerLoss
    BY <2>2 DEF PowerLoss, VaultInv, DurablePast, TypeOK, Pins
  <2>3. CASE UNCHANGED pins
    BY <2>3
  <2>4. QED
    BY <2>1, <2>2, <2>3 DEF Next, WorkerStep, BindRead, AppendRead, AppendCommit, WriteFails,
                            RecordIncident, RecordFails, Checkpoint, Crash, tables
<1>2. QED BY <1>1, VaultTypeCorrect, VaultInvariant, PTL DEF Spec, PinsWriteOnce
-----------------------------------------------------------------------------
(* The verifier notices what is done to the table behind the vault's back. *)

\* A digest commits to the body: another body, or another digest in its place,
\* is noticed at the row itself.
LEMMA ForgedRowDetected ==
  ASSUME NEW rows \in Seq(Row), VerifyChain(rows), NEW i \in 1..Len(rows)
  PROVE  /\ \A b \in Bodies \ {rows[i].body} : ~VerifyChain([rows EXCEPT ![i].body = b])
         /\ \A h : h # rows[i].row_hash => ~VerifyChain([rows EXCEPT ![i].row_hash = h])
<1>1. rows[i] \in Row /\ i \in DOMAIN rows
  BY ElementOfSeq, LenProperties
<1>2. /\ rows[i].prev_hash \in Digest /\ rows[i].seq \in Nat /\ rows[i].body \in Bodies
      /\ rows[i].row_hash = ComputeRowHash(rows[i].prev_hash, rows[i].seq, rows[i].body)
  BY <1>1 DEF VerifyChain, Row
<1>3. ASSUME NEW b \in Bodies \ {rows[i].body} PROVE ~VerifyChain([rows EXCEPT ![i].body = b])
  <2> DEFINE forged == [rows EXCEPT ![i] = [rows[i] EXCEPT !.body = b]]
  <2>1. ComputeRowHash(rows[i].prev_hash, rows[i].seq, b) # rows[i].row_hash
    <3>1. PICK d \in Seq(Nat \X Bodies) : d = rows[i].prev_hash
      BY <1>2 DEF Digest
    <3>2. PICK x \in Nat \X Bodies : x = <<rows[i].seq, rows[i].body>>
      BY <1>2
    <3>3. PICK y \in Nat \X Bodies : y = <<rows[i].seq, b>>
      BY <1>2
    <3>4. Append(d, x)[Len(d) + 1] = x /\ Append(d, y)[Len(d) + 1] = y
      BY AppendProperties
    <3>5. x # y
      BY <1>3, <3>2, <3>3
    <3>6. Append(d, x) # Append(d, y)
      BY <3>4, <3>5
    <3>7. QED
      BY <1>2, <3>1, <3>2, <3>3, <3>6 DEF ComputeRowHash
  <2>2. Len(forged) = Len(rows) /\ forged[i] = [rows[i] EXCEPT !.body = b]
    BY <1>1, LenProperties
  <2>3. /\ forged[i].prev_hash = rows[i].prev_hash /\ forged[i].seq = rows[i].seq
        /\ forged[i].body = b /\ forged[i].row_hash = rows[i].row_hash
    BY <1>1, <2>2 DEF Row
  <2> HIDE DEF forged
  <2>4. ~VerifyChain(forged)
    BY <2>1, <2>2, <2>3 DEF VerifyChain
  <2>5. QED
    BY <2>4 DEF forged
<1>4. ASSUME NEW h, h # rows[i].row_hash PROVE ~VerifyChain([rows EXCEPT ![i].row_hash = h])
  <2> DEFINE forged == [rows EXCEPT ![i] = [rows[i] EXCEPT !.row_hash = h]]
  <2>1. Len(forged) = Len(rows) /\ forged[i] = [rows[i] EXCEPT !.row_hash = h]
    BY <1>1, LenProperties
  <2>2. /\ forged[i].prev_hash = rows[i].prev_hash /\ forged[i].seq = rows[i].seq
        /\ forged[i].body = rows[i].body /\ forged[i].row_hash = h
    BY <1>1, <2>1 DEF Row
  <2> HIDE DEF forged
  <2>3. ComputeRowHash(forged[i].prev_hash, forged[i].seq, forged[i].body) # forged[i].row_hash
    BY <1>2, <1>4, <2>2
  <2>4. ~VerifyChain(forged)
    BY <2>1, <2>3 DEF VerifyChain
  <2>5. QED
    BY <2>4 DEF forged
<1>5. QED
  BY <1>3, <1>4

\* A row missing before the end is noticed by the number of the row after it.
LEMMA MissingRowDetected ==
  ASSUME NEW rows \in Seq(Row), VerifyChain(rows), NEW i \in 1..Len(rows), i < Len(rows)
  PROVE  ~VerifyChain(SubSeq(rows, 1, i - 1) \o SubSeq(rows, i + 1, Len(rows)))
<1>1. PICK n \in Nat : n = Len(rows)
  BY LenProperties
<1>2. \A j \in 1..n : rows[j] \in Row
  BY <1>1, ElementOfSeq
<1>3. PICK s \in Seq(Row) : s = SubSeq(rows, 1, i - 1) /\ Len(s) = i - 1
  <2>1. \A j \in 1..i - 1 : rows[j] \in Row
    BY <1>1, <1>2
  <2>2. i - 1 \in Int /\ 1 \in Int
    BY <1>1
  <2>3. SubSeq(rows, 1, i - 1) \in Seq(Row)
        /\ Len(SubSeq(rows, 1, i - 1)) = IF 1 <= i - 1 THEN i - 1 - 1 + 1 ELSE 0
    BY <2>1, <2>2, SubSeqProperties
  <2>4. (IF 1 <= i - 1 THEN i - 1 - 1 + 1 ELSE 0) = i - 1
    BY <1>1
  <2>5. Len(SubSeq(rows, 1, i - 1)) = i - 1
    BY <2>3, <2>4
  <2>6. QED
    BY <2>3, <2>5
<1>4. PICK t \in Seq(Row) : t = SubSeq(rows, i + 1, n) /\ Len(t) = n - i /\ t[1] = rows[i + 1]
  <2>1. \A j \in i + 1..n : rows[j] \in Row
    BY <1>1, <1>2
  <2>2. i + 1 \in Int /\ n \in Int
    BY <1>1
  <2>3. /\ SubSeq(rows, i + 1, n) \in Seq(Row)
        /\ Len(SubSeq(rows, i + 1, n)) = IF i + 1 <= n THEN n - (i + 1) + 1 ELSE 0
        /\ \A j \in 1..(n - (i + 1) + 1) : SubSeq(rows, i + 1, n)[j] = rows[i + 1 + j - 1]
    BY <2>1, <2>2, SubSeqProperties
  <2>4. 1 \in 1..(n - (i + 1) + 1) /\ i + 1 <= n
    BY <1>1
  <2>5. n - (i + 1) + 1 = n - i /\ i + 1 + 1 - 1 = i + 1
    BY <1>1
  <2>6. Len(SubSeq(rows, i + 1, n)) = n - i /\ SubSeq(rows, i + 1, n)[1] = rows[i + 1]
    BY <2>3, <2>4, <2>5
  <2>7. QED
    BY <2>3, <2>6
<1>5. Len(s \o t) = n - 1 /\ (s \o t)[i] = rows[i + 1]
  <2>1. Len(s \o t) = Len(s) + Len(t) /\ \A j \in 1..Len(t) : (s \o t)[Len(s) + j] = t[j]
    BY ConcatProperties
  <2>2. 1 \in 1..Len(t) /\ Len(s) + 1 = i /\ Len(s) + Len(t) = n - 1
    <3>1. i \in 1..n /\ i < n
      BY <1>1
    <3>2. Len(s) = i - 1 /\ Len(t) = n - i
      BY <1>3, <1>4
    <3>3. 1 \in 1..n - i /\ i - 1 + 1 = i /\ i - 1 + (n - i) = n - 1
      BY ONLY <3>1, n \in Nat
    <3>4. QED
      BY <3>2, <3>3
  <2>3. (s \o t)[i] = t[1]
    BY <2>1, <2>2
  <2>4. QED
    BY <1>4, <2>1, <2>2, <2>3
<1>6. i \in 1..n - 1 /\ i + 1 \in 1..n /\ i + 1 # i
  BY <1>1
<1>7. rows[i + 1].seq = i + 1
  BY <1>1, <1>6 DEF VerifyChain
<1>8. (s \o t)[i].seq # i
  BY <1>5, <1>6, <1>7
<1>9. ~VerifyChain(s \o t)
  BY <1>5, <1>6, <1>8 DEF VerifyChain
<1>10. QED
  BY <1>1, <1>3, <1>4, <1>9

\* Whatever tables the vault gets to, changing the content or the digest of one
\* stored row, or removing one before the last, makes verify_chain.py fail.
THEOREM CorruptionAlwaysDetected == Spec => []CorruptionDetected
<1>1. TypeOK /\ VaultInv => CorruptionDetected
  <2> SUFFICES ASSUME TypeOK, VaultInv, NEW i \in 1..Len(events)
               PROVE  /\ \A b \in Bodies \ {events[i].body} : ~VerifyChain([events EXCEPT ![i].body = b])
                      /\ \A h \in {events[j].prev_hash : j \in 1..Len(events)} \ {events[i].row_hash} :
                           ~VerifyChain([events EXCEPT ![i].row_hash = h])
                      /\ i < Len(events) =>
                           ~VerifyChain(SubSeq(events, 1, i - 1) \o SubSeq(events, i + 1, Len(events)))
    BY DEF CorruptionDetected
  <2>1. events \in Seq(Row) /\ VerifyChain(events)
    BY DEF TypeOK, VaultInv, ChainVerifies
  <2>2. QED
    BY <2>1, ForgedRowDetected, MissingRowDetected
<1>2. QED
  BY <1>1, VaultTypeCorrect, VaultInvariant, PTL

-----------------------------------------------------------------------------
(* The vault implements EvidenceLog.                                       *)

BodiesOf(rows) == [i \in 1..Len(rows) |-> rows[i].body]

\* The bodies of a table are a sequence, as long as the table.
LEMMA BodiesSeq ==
  ASSUME NEW rows \in Seq(Row)
  PROVE  /\ BodiesOf(rows) \in Seq(Bodies)
         /\ Len(BodiesOf(rows)) = Len(rows)
         /\ \A i \in 1..Len(rows) : BodiesOf(rows)[i] = rows[i].body
<1>1. Len(rows) \in Nat
  BY LenProperties
<1>2. ASSUME NEW i \in 1..Len(rows) PROVE rows[i].body \in Bodies
  <2>1. rows[i] \in Row
    BY ElementOfSeq
  <2>2. QED BY <2>1 DEF Row
<1>3. BodiesOf(rows) \in [1..Len(rows) -> Bodies]
  BY <1>2 DEF BodiesOf
<1>4. BodiesOf(rows) \in Seq(Bodies)
  BY <1>1, <1>3, SeqDef
<1>5. DOMAIN BodiesOf(rows) = 1..Len(rows)
  BY DEF BodiesOf
<1>6. QED BY <1>1, <1>4, <1>5, LenProperties DEF BodiesOf

\* Appending a row appends its body.
LEMMA BodiesExtend ==
  ASSUME NEW rows \in Seq(Row), NEW r \in Row
  PROVE  BodiesOf(Append(rows, r)) = Append(BodiesOf(rows), r.body)
<1> DEFINE longer == Append(rows, r)
<1>1. /\ longer \in Seq(Row)
      /\ Len(rows) \in Nat
      /\ Len(longer) = Len(rows) + 1
      /\ longer[Len(rows) + 1] = r
      /\ \A i \in 1..Len(rows) : longer[i] = rows[i]
  BY AppendProperties, LenProperties
<1>2. r.body \in Bodies
  BY DEF Row
<1>3. /\ BodiesOf(rows) \in Seq(Bodies)
      /\ Len(BodiesOf(rows)) = Len(rows)
      /\ \A i \in 1..Len(rows) : BodiesOf(rows)[i] = rows[i].body
  BY BodiesSeq
<1>4. /\ Append(BodiesOf(rows), r.body) \in Seq(Bodies)
      /\ Len(Append(BodiesOf(rows), r.body)) = Len(rows) + 1
      /\ Append(BodiesOf(rows), r.body)[Len(rows) + 1] = r.body
      /\ \A i \in 1..Len(rows) : Append(BodiesOf(rows), r.body)[i] = rows[i].body
  BY <1>2, <1>3, AppendProperties
<1> HIDE DEF longer
<1>5. /\ BodiesOf(longer) \in Seq(Bodies)
      /\ Len(BodiesOf(longer)) = Len(longer)
      /\ \A i \in 1..Len(longer) : BodiesOf(longer)[i] = longer[i].body
  BY <1>1, BodiesSeq
<1>6. ASSUME NEW i \in 1..Len(longer)
      PROVE  BodiesOf(longer)[i] = Append(BodiesOf(rows), r.body)[i]
  <2>1. CASE i \in 1..Len(rows)
    BY <2>1, <1>1, <1>4, <1>5
  <2>2. CASE i = Len(rows) + 1
    <3>1. BodiesOf(longer)[i] = longer[i].body
      BY <1>5
    <3>2. longer[i] = r
      BY <2>2, <1>1
    <3>3. Append(BodiesOf(rows), r.body)[i] = r.body
      BY <2>2, <1>4
    <3>4. QED BY <3>1, <3>2, <3>3
  <2>3. i \in 1..Len(rows) \/ i = Len(rows) + 1
    BY <1>1
  <2>4. QED BY <2>1, <2>2, <2>3
<1>7. BodiesOf(longer) = Append(BodiesOf(rows), r.body)
  BY <1>1, <1>4, <1>5, <1>6, SeqEqual
<1>8. QED BY <1>7 DEF longer

\* A durable past of the table is the log cut at the durable length.
LEMMA DurableCut ==
  ASSUME NEW rows \in Seq(Row), NEW past \in Seq(Row), Len(past) <= Len(rows),
         \A i \in 1..Len(past) : past[i] = rows[i]
  PROVE  BodiesOf(past) = SubSeq(BodiesOf(rows), 1, Len(past))
<1>1. Len(past) \in Nat /\ Len(rows) \in Nat
  BY LenProperties
<1>2. /\ BodiesOf(rows) \in Seq(Bodies)
      /\ Len(BodiesOf(rows)) = Len(rows)
      /\ \A i \in 1..Len(rows) : BodiesOf(rows)[i] = rows[i].body
  BY BodiesSeq
<1>3. /\ BodiesOf(past) \in Seq(Bodies)
      /\ Len(BodiesOf(past)) = Len(past)
      /\ \A i \in 1..Len(past) : BodiesOf(past)[i] = past[i].body
  BY BodiesSeq
<1> DEFINE cut == SubSeq(BodiesOf(rows), 1, Len(past))
<1>4. \A i \in 1..Len(past) : BodiesOf(rows)[i] = rows[i].body
  BY <1>1, <1>2
<1>5. ASSUME NEW i \in 1..Len(past) PROVE BodiesOf(rows)[i] \in Bodies
  <2>1. i \in 1..Len(BodiesOf(rows))
    BY <1>1, <1>2
  <2>2. QED BY <1>2, <2>1, ElementOfSeq
<1>6. /\ cut \in Seq(Bodies)
      /\ Len(cut) = IF 1 <= Len(past) THEN Len(past) - 1 + 1 ELSE 0
      /\ \A i \in 1..(Len(past) - 1 + 1) : cut[i] = BodiesOf(rows)[1 + i - 1]
  BY <1>1, <1>5, SubSeqProperties
<1>7. Len(cut) = Len(past) /\ \A i \in 1..Len(past) : cut[i] = BodiesOf(rows)[i]
  BY <1>1, <1>6
<1> HIDE DEF cut
<1>8. BodiesOf(past) = cut
  BY <1>3, <1>4, <1>6, <1>7, SeqEqual
<1>9. QED BY <1>8 DEF cut

\* The vault implements the append-only log and the write-once book of keys:
\* each step of a thread, and each failure, is one step of the log or none.
THEOREM VaultImplementsLog == Spec => LogSpec
<1>1. Init => Log!Init
  <2> SUFFICES ASSUME Init PROVE Log!Init
    OBVIOUS
  <2>1. Len(events) = 0 /\ Len(disk.events) = 0
    BY EmptySeq DEF Init
  <2>2. [i \in 1..Len(events) |-> events[i].body] = <<>>
    BY <2>1
  <2>3. QED BY <2>1, <2>2 DEF Init, Log!Init
<1>2. TypeOK /\ VaultInv /\ [Next]_vars => [Log!Next]_(Log!vars)
  <2> SUFFICES ASSUME TypeOK, VaultInv, [Next]_vars PROVE [Log!Next]_(Log!vars)
    OBVIOUS
  <2>1. ASSUME UNCHANGED <<events, pins, disk>> PROVE UNCHANGED Log!vars
    BY <2>1 DEF Log!vars
  <2>2. ASSUME NEW w \in Workers, BindWrite(w) PROVE [Log!Next]_(Log!vars)
    <3>1. txn[w] \in BindTxn /\ UNCHANGED <<events, disk>>
      BY <2>2 DEF BindWrite, TypeOK, NoTxn, BindTxn, AppendTxn
    <3>2. CASE BindOutcome(txn[w]) = "bound-new"
      <4>1. pins' = [pins EXCEPT ![txn[w].ident] = txn[w].key] /\ pins[txn[w].ident] = NoKey
        BY <2>2, <3>2 DEF BindWrite, BindOutcome, VaultInv, ReadsCurrent
      <4>2. Log!Pin(txn[w].ident, txn[w].key)
        BY <3>1, <4>1 DEF Log!Pin
      <4>3. QED BY <3>1, <4>2 DEF BindTxn, Log!Next
    <3>3. CASE BindOutcome(txn[w]) # "bound-new"
      BY <2>1, <2>2, <3>1, <3>3 DEF BindWrite
    <3>4. QED BY <3>2, <3>3
  <2>3. ASSUME NEW w \in Workers, AppendCommit(w) PROVE [Log!Next]_(Log!vars)
    <3> DEFINE r == txn[w].row
    <3>1. txn[w] \in AppendTxn /\ r = NextRow(events, r.body, r.signer, r.pubkey)
      BY <2>3 DEF AppendCommit, TypeOK, NoTxn, BindTxn, AppendTxn, VaultInv, ReadsCurrent
    <3>2. r \in Row /\ ~SeqTaken(r.seq)
      BY <3>1, NextSeqFree DEF AppendTxn, VaultInv, ChainVerifies
    <3>3. events' = Append(events, r) /\ UNCHANGED <<pins, disk>>
      BY <2>3, <3>2 DEF AppendCommit
    <3>4. BodiesOf(events') = Append(BodiesOf(events), r.body)
      BY <3>2, <3>3, BodiesExtend DEF TypeOK
    <3>5. r.body \in Bodies
      BY <3>2 DEF Row
    <3>6. \E body \in Bodies : Log!Accept(body)
      BY <3>3, <3>4, <3>5 DEF Log!Accept, BodiesOf
    <3>7. QED BY <3>6 DEF Log!Next
  <2>4. CASE Checkpoint
    <3>1. Len(events) = Len([i \in 1..Len(events) |-> events[i].body])
      BY BodiesSeq DEF BodiesOf, TypeOK
    <3>2. Log!Sync
      BY <2>4, <3>1 DEF Checkpoint, tables, Log!Sync
    <3>3. QED BY <3>2 DEF Log!Next
  <2>5. CASE PowerLoss
    <3>1. BodiesOf(disk.events) = SubSeq(BodiesOf(events), 1, Len(disk.events))
      BY DurableCut DEF VaultInv, DurablePast, TypeOK
    <3>2. events' = disk.events /\ pins' = disk.pins /\ disk' = disk
      BY <2>5 DEF PowerLoss
    <3>3. BodiesOf(events') = SubSeq(BodiesOf(events), 1, Len(disk.events))
      BY <3>1, <3>2
    <3>4. Log!Lose
      BY <3>2, <3>3 DEF Log!Lose, BodiesOf
    <3>5. QED BY <3>4 DEF Log!Next
  <2>6. QED
    BY <2>1, <2>2, <2>3, <2>4, <2>5
       DEF Next, WorkerStep, BindRead, AppendRead, WriteFails, RecordIncident, RecordFails, Crash, tables, vars
<1>3. QED BY <1>1, <1>2, VaultTypeCorrect, VaultInvariant, PTL DEF Spec, LogSpec, Log!Spec
=============================================================================
