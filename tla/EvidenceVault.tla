--------------------------- MODULE EvidenceVault ---------------------------
(***************************************************************************)
(* Sentry's SQLite vault: sentry/app/db.py, the hash chain of              *)
(* sentry/app/hashchain.py and the verifier of scripts/verify_chain.py.    *)
(*                                                                         *)
(* Every request handler runs on a thread of the server's pool with its    *)
(* own connection.  bind_key and append_event take the process-wide        *)
(* _append_lock, read, write and commit; record_incident inserts without   *)
(* the lock.  A transaction is two steps here, the read and the write, so  *)
(* that the other threads can run between them.                            *)
(*                                                                         *)
(* A SHA-256 digest is represented by what it commits to: the sequence of  *)
(* the <<seq, body>> pairs hashed so far, the empty sequence standing for  *)
(* the all-zero genesis value.  Distinct preimages have distinct digests.  *)
(* A body stands for received_at together with the canonical event bytes.  *)
(***************************************************************************)
EXTENDS Naturals, Sequences

CONSTANTS
  Workers,      \* the threads that serve requests
  Identities,   \* the mTLS identities of the agents
  Keys,         \* the Ed25519 public keys
  Bodies,       \* what the chain preimage says of an event
  Signatures,   \* the incidents' dedup signatures
  Nobody,       \* the lock's holder when it is free, the signer of an unsigned row
  NoKey,        \* the pin of an identity without a row in agent_keys
  MaxRows,      \* bound: rows of the events table
  MaxIncidents  \* bound: rows of the incidents table

ASSUME VaultAssumption ==
  /\ Nobody \notin Workers \cup Identities
  /\ NoKey \notin Keys
  /\ MaxRows \in Nat
  /\ MaxIncidents \in Nat

VARIABLES
  events,     \* the events table, ordered by seq
  pins,       \* the agent_keys table
  incidents,  \* the incidents table, ordered by id
  disk,       \* the tables as the last WAL checkpoint left them
  lock,       \* holder of db._append_lock
  txn,        \* what each worker read under the lock and is about to write
  result      \* what each worker's last database call returned or raised

tables == <<events, pins, incidents>>
vars == <<events, pins, incidents, disk, lock, txn, result>>
-----------------------------------------------------------------------------
(* The hash chain.                                                         *)

Digest == Seq(Nat \X Bodies)

GenesisPrevHash == <<>>

\* Seeded fault: the body is left out of the preimage.
ComputeRowHash_NoBody(prev_hash, seq, body) ==
  Append(prev_hash, <<seq, CHOOSE b \in Bodies : TRUE>>)

ComputeRowHash(prev_hash, seq, body) == Append(prev_hash, <<seq, body>>)

Row == [seq: Nat, prev_hash: Digest, row_hash: Digest, body: Bodies,
        signer: Identities \cup {Nobody}, pubkey: Keys \cup {NoKey}]

\* Seeded fault: the wrong column of the last row is read.
LastHash_PrevColumn(rows) ==
  IF rows = <<>> THEN GenesisPrevHash ELSE rows[Len(rows)].prev_hash

\* What append_event takes from "ORDER BY seq DESC LIMIT 1".
LastHash(rows) ==
  IF rows = <<>> THEN GenesisPrevHash ELSE rows[Len(rows)].row_hash

LastSeq(rows) == IF rows = <<>> THEN 0 ELSE rows[Len(rows)].seq

NextRow(rows, body, signer, pubkey) ==
  [seq       |-> LastSeq(rows) + 1,
   prev_hash |-> LastHash(rows),
   row_hash  |-> ComputeRowHash(LastHash(rows), LastSeq(rows) + 1, body),
   body      |-> body,
   signer    |-> signer,
   pubkey    |-> pubkey]

\* verify(): contiguous numbers, each row linked to the one before it, and
\* each stored digest equal to the recomputed one.
VerifyChain(rows) ==
  \A i \in 1..Len(rows) :
    /\ rows[i].seq = i
    /\ rows[i].prev_hash = IF i = 1 THEN GenesisPrevHash ELSE rows[i-1].row_hash
    /\ rows[i].row_hash = ComputeRowHash(rows[i].prev_hash, rows[i].seq, rows[i].body)
-----------------------------------------------------------------------------
NoTxn == [op |-> "none"]

BindTxn == [op: {"bind"}, ident: Identities, key: Keys, found: Keys \cup {NoKey}]

AppendTxn == [op: {"append"}, row: Row]

Incident == [signature: Signatures, cites: SUBSET Nat]

Results == {"none", "bound-new", "bound-match", "mismatch", "stored",
            "recorded", "duplicate", "conflict", "error"}

Pins == [Identities -> Keys \cup {NoKey}]

TypeOK ==
  /\ events \in Seq(Row)
  /\ pins \in Pins
  /\ incidents \in Seq(Incident)
  /\ disk \in [events: Seq(Row), pins: Pins, incidents: Seq(Incident)]
  /\ lock \in Workers \cup {Nobody}
  /\ txn \in [Workers -> {NoTxn} \cup BindTxn \cup AppendTxn]
  /\ result \in [Workers -> Results]

Init ==
  /\ events = <<>>
  /\ pins = [i \in Identities |-> NoKey]
  /\ incidents = <<>>
  /\ disk = [events |-> <<>>, pins |-> [i \in Identities |-> NoKey], incidents |-> <<>>]
  /\ lock = Nobody
  /\ txn = [w \in Workers |-> NoTxn]
  /\ result = [w \in Workers |-> "none"]
-----------------------------------------------------------------------------
(* Transactions under the lock.                                            *)

Idle(w) == txn[w] = NoTxn

\* Seeded fault: the transactions do not exclude each other.
LockFree_Absent == TRUE

LockFree == lock = Nobody

Return(w, r) == result' = [result EXCEPT ![w] = r]

\* The "with _append_lock" block is left, its transaction committed or not.
Release(w) ==
  /\ lock' = Nobody
  /\ txn' = [txn EXCEPT ![w] = NoTxn]

BindRead(w, ident, key) ==
  /\ Idle(w) /\ LockFree
  /\ lock' = w
  /\ txn' = [txn EXCEPT ![w] =
               [op |-> "bind", ident |-> ident, key |-> key, found |-> pins[ident]]]
  /\ UNCHANGED <<tables, disk, result>>

\* Seeded fault: INSERT OR REPLACE, the last key wins.
BindOutcome_Repins(t) == IF t.found = t.key THEN "bound-match" ELSE "bound-new"

BindOutcome(t) ==
  CASE t.found = t.key -> "bound-match"
    [] t.found # NoKey /\ t.found # t.key -> "mismatch"
    [] t.found = NoKey /\ pins[t.ident] = NoKey -> "bound-new"
    [] OTHER -> "conflict"   \* the primary key of agent_keys refuses a second row

BindWrite(w) ==
  LET t == txn[w] IN
  /\ t.op = "bind"
  /\ pins' = IF BindOutcome(t) = "bound-new" THEN [pins EXCEPT ![t.ident] = t.key] ELSE pins
  /\ Return(w, BindOutcome(t))
  /\ Release(w)
  /\ UNCHANGED <<events, incidents, disk>>

AppendRead(w, body, signer, pubkey) ==
  /\ Idle(w) /\ LockFree
  /\ Len(events) < MaxRows
  /\ lock' = w
  /\ txn' = [txn EXCEPT ![w] = [op |-> "append", row |-> NextRow(events, body, signer, pubkey)]]
  /\ UNCHANGED <<tables, disk, result>>

\* The UNIQUE constraint on events.seq.
SeqTaken(n) == \E i \in 1..Len(events) : events[i].seq = n

AppendCommit(w) ==
  LET t == txn[w] IN
  /\ t.op = "append"
  /\ events' = IF SeqTaken(t.row.seq) THEN events ELSE Append(events, t.row)
  /\ Return(w, IF SeqTaken(t.row.seq) THEN "conflict" ELSE "stored")
  /\ Release(w)
  /\ UNCHANGED <<pins, incidents, disk>>

\* Seeded fault: acquire() and release() without try/finally.
WriteFails_KeepsLock(w) ==
  /\ txn[w].op # "none"
  /\ Return(w, "error")
  /\ txn' = [txn EXCEPT ![w] = NoTxn]
  /\ UNCHANGED <<tables, disk, lock>>

\* The INSERT or the commit raises (a busy or full disk): the exception leaves
\* the "with" block and closing the connection rolls the transaction back.
WriteFails(w) ==
  /\ txn[w].op # "none"
  /\ Return(w, "error")
  /\ Release(w)
  /\ UNCHANGED <<tables, disk>>
-----------------------------------------------------------------------------
(* record_incident does not take the lock: SQLite serialises the insert.   *)

Recorded(signature) == \E i \in 1..Len(incidents) : incidents[i].signature = signature

RecordIncident(w, signature, cites) ==
  /\ Idle(w)
  /\ Len(incidents) < MaxIncidents
  /\ UNCHANGED <<events, pins, disk, lock, txn>>
  /\ Return(w, IF Recorded(signature) THEN "duplicate" ELSE "recorded")
  /\ incidents' = IF Recorded(signature) THEN incidents
                  ELSE Append(incidents, [signature |-> signature, cites |-> cites])

\* Only IntegrityError is caught: a busy or full disk reaches the caller, here
\* and in get_event.
RecordFails(w) ==
  /\ Idle(w)
  /\ Return(w, "error")
  /\ UNCHANGED <<tables, disk, lock, txn>>
-----------------------------------------------------------------------------
(* Failures.  connect() asks for journal_mode=WAL and synchronous=NORMAL:  *)
(* a commit survives the end of the process, and a power failure keeps the *)
(* commits up to some moment since the last checkpoint.                    *)

Checkpoint ==
  /\ disk' = [events |-> events, pins |-> pins, incidents |-> incidents]
  /\ UNCHANGED <<tables, lock, txn, result>>

Restart ==
  /\ lock' = Nobody
  /\ txn' = [w \in Workers |-> NoTxn]
  /\ result' = [w \in Workers |-> "none"]

Crash == Restart /\ UNCHANGED <<tables, disk>>

PowerLoss ==
  /\ events' = disk.events
  /\ pins' = disk.pins
  /\ incidents' = disk.incidents
  /\ Restart
  /\ UNCHANGED disk
-----------------------------------------------------------------------------
WorkerStep(w) ==
  \/ \E ident \in Identities, key \in Keys : BindRead(w, ident, key)
  \/ BindWrite(w)
  \/ \E body \in Bodies : AppendRead(w, body, Nobody, NoKey)
  \/ \E body \in Bodies, ident \in Identities, key \in Keys : AppendRead(w, body, ident, key)
  \/ AppendCommit(w)
  \/ WriteFails(w)
  \/ \E signature \in Signatures, cites \in SUBSET (1..Len(events)) :
       RecordIncident(w, signature, cites)
  \/ RecordFails(w)

Next ==
  \/ \E w \in Workers : WorkerStep(w)
  \/ Checkpoint
  \/ Crash
  \/ PowerLoss

Spec == Init /\ [][Next]_vars
-----------------------------------------------------------------------------
(* Properties.                                                             *)

\* The verifier passes on the table at every moment, and on what a power
\* failure would leave: concurrent appends, failed inserts and restarts never
\* fork, skip or unlink a row (verify_chain.py's "contiguous sequence | chain intact").
ChainVerifies == VerifyChain(events) /\ VerifyChain(disk.events)

\* The lock makes the uniqueness constraints idle: no request of a well-behaved
\* agent is refused because two threads computed the same seq or first pin.
NoConflict == \A w \in Workers : result[w] # "conflict"

\* Pins are trust-on-first-use: no step replaces or drops a pin, except that a
\* power failure may drop one it had not yet made durable, and never changes one.
PinsWriteOnce ==
  [][\A i \in Identities :
       \/ pins[i] = NoKey
       \/ pins'[i] = pins[i]
       \/ pins'[i] = NoKey /\ disk.pins[i] = NoKey]_vars

\* Every corruption of one stored row (its content or its digest changed, or
\* the row removed from before the end of the table) makes the verifier fail.
\* Dropping the newest rows is not among them: nothing outside the table says
\* how long it was.
CorruptionDetected ==
  \A i \in 1..Len(events) :
    /\ \A b \in Bodies \ {events[i].body} : ~VerifyChain([events EXCEPT ![i].body = b])
    /\ \A h \in {events[j].prev_hash : j \in 1..Len(events)} \ {events[i].row_hash} :
         ~VerifyChain([events EXCEPT ![i].row_hash = h])
    /\ i < Len(events) =>
         ~VerifyChain(SubSeq(events, 1, i - 1) \o SubSeq(events, i + 1, Len(events)))
-----------------------------------------------------------------------------
(* The inductive invariant, in named parts.                                *)

\* Only the holder of the lock has a transaction open.
LockHeld == \A w \in Workers : txn[w] # NoTxn => lock = w

\* What a worker read under the lock is still what the tables say: the row it
\* is about to insert is the next row, the pin it found is the pin.
ReadsCurrent ==
  \A w \in Workers :
    /\ txn[w].op = "bind" => pins[txn[w].ident] = txn[w].found
    /\ txn[w].op = "append" =>
         txn[w].row = NextRow(events, txn[w].row.body, txn[w].row.signer, txn[w].row.pubkey)

\* What a power failure would leave is a past of the tables: durable rows and
\* pins are still there.
DurablePast ==
  /\ Len(disk.events) <= Len(events)
  /\ \A i \in 1..Len(disk.events) : disk.events[i] = events[i]
  /\ \A i \in Identities : disk.pins[i] # NoKey => pins[i] = disk.pins[i]

\* Interleaved requests never act on a stale read, and the checkpointed tables
\* never diverge from the live ones (_append_lock; WAL with synchronous=NORMAL).
VaultInv ==
  /\ LockHeld
  /\ ReadsCurrent
  /\ DurablePast
  /\ ChainVerifies
  /\ NoConflict
-----------------------------------------------------------------------------
\* The tables seen as a log and a book of keys.
Log == INSTANCE EvidenceLog WITH
  log     <- [i \in 1..Len(events) |-> events[i].body],
  book    <- pins,
  durable <- [length |-> Len(disk.events), book |-> disk.pins]

\* The vault implements the append-only log: interleaved, failing and crashing
\* transactions of bind_key and append_event show as whole accepts and pins.
LogSpec == Log!Spec
=============================================================================
