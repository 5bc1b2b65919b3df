------------------------------- MODULE Ingest -------------------------------
(***************************************************************************)
(* POST /ingest of Sentry, sentry/app/main.py: each request runs on its    *)
(* own thread and walks from the signature check through bind_key,         *)
(* append_event, the live broadcast and the detector to record_incident.   *)
(* The vault and the detector are shared; nothing makes the walk atomic.   *)
(* The process may stop anywhere in it, and the detector's memory, unlike  *)
(* the vault, starts empty again.                                          *)
(*                                                                         *)
(* A request is a record of the mTLS identity it comes from, its key and   *)
(* whether its signature verifies, and what the detector sees of the       *)
(* event.  Requests are sent again freely: two of them may be equal.       *)
(***************************************************************************)
EXTENDS Detector

CONSTANTS
  Workers, Identities, Keys, Nobody, NoKey,  \* as in EvidenceVault
  NoCategory,        \* the category of an event that has none
  Requests,          \* what agents post
  REQUIRE_SIGNATURE, \* strict mode
  MaxRequests        \* bound: requests accepted for processing

ASSUME IngestAssumption ==
  /\ Nobody \notin Workers \cup Identities
  /\ NoKey \notin Keys
  /\ MaxRequests \in Nat
  /\ \E s \in SUBSET Uuids : Cardinality(s) = MaxRequests  \* one for each event
  /\ \A r \in Requests :
       /\ r.signature \in {"verified", "unsigned", "invalid"}
       /\ r.signature = "verified" => r.ident \in Identities /\ r.key \in Keys
       /\ r.category # NoCategory => r.category \in Categories /\ r.occurred_at \in Int

VARIABLES
  events, pins, incidents, disk, lock, txn, result,  \* the vault
  pc,         \* what each worker does next
  job,        \* the request each worker has, and its event's id once stored
  todo,       \* signatures each worker was given by observe and has not recorded
  published,  \* what was handed to the broadcaster
  dropped,    \* signatures whose worker failed before recording them
  received    \* requests received

vaultVars == <<events, pins, incidents, disk, lock, txn, result>>
workerVars == <<pc, job, todo, published, dropped, received>>
vars == <<vaultVars, detectorVars, workerVars>>

\* A signature names its rule and the rows the match cites.
Signatures == [rule: DOMAIN Rules, ids: (SUBSET (1..MaxRequests)) \ {{}}]

V == INSTANCE EvidenceVault WITH
  Bodies <- Requests, MaxRows <- MaxRequests, MaxIncidents <- Cardinality(Signatures)

Steps == {"idle", "bind", "bound", "append", "store", "publish", "observe", "record", "announce"}

NoJob == [id |-> 0]

TypeOK ==
  /\ V!TypeOK
  /\ DetectorTypeOK
  /\ pc \in [Workers -> Steps]
  /\ \A w \in Workers :
       IF pc[w] = "idle" THEN job[w] = NoJob /\ todo[w] = {}
       ELSE job[w].id \in 0..Len(events) /\ job[w].request \in Requests /\ todo[w] \subseteq seen
  /\ published \subseteq [event: 1..Len(events)] \cup [incident: Signatures]
  /\ dropped \subseteq Signatures
  /\ received \in 0..MaxRequests

Init ==
  /\ V!Init
  /\ DetectorInit
  /\ pc = [w \in Workers |-> "idle"]
  /\ job = [w \in Workers |-> NoJob]
  /\ todo = [w \in Workers |-> {}]
  /\ published = {}
  /\ dropped = {}
  /\ received = 0
-----------------------------------------------------------------------------
(* One request.                                                            *)

Signed(r) == r.signature = "verified"

\* 400 for a signature that does not verify, 401 for none in strict mode.
Refused(r) ==
  \/ r.signature = "invalid"
  \/ r.signature = "unsigned" /\ REQUIRE_SIGNATURE

Goto(w, step) == pc' = [pc EXCEPT ![w] = step]

\* Seeded fault: the list of new incidents outlives the request.
Finish_KeepsTodo(w) ==
  /\ Goto(w, "idle")
  /\ job' = [job EXCEPT ![w] = NoJob]
  /\ UNCHANGED todo

\* The handler returns or raises: its locals are gone.
Finish(w) ==
  /\ Goto(w, "idle")
  /\ job' = [job EXCEPT ![w] = NoJob]
  /\ todo' = [todo EXCEPT ![w] = {}]

\* A refused request changes nothing and does not count.
Receive(w, r) ==
  /\ pc[w] = "idle"
  /\ received < MaxRequests
  /\ IF Refused(r) THEN UNCHANGED <<pc, job, received>>
     ELSE /\ received' = received + 1
          /\ Goto(w, IF Signed(r) THEN "bind" ELSE "append")
          /\ job' = [job EXCEPT ![w] = [id |-> 0, request |-> r]]
  /\ UNCHANGED <<vaultVars, detectorVars, todo, published, dropped>>

Bind(w) ==
  /\ pc[w] = "bind"
  /\ V!BindRead(w, job[w].request.ident, job[w].request.key)
  /\ Goto(w, "bound")
  /\ UNCHANGED <<detectorVars, job, todo, published, dropped, received>>

\* Seeded fault: bind_key's answer is not looked at.
Bound_Unchecked(w) ==
  /\ pc[w] = "bound"
  /\ V!BindWrite(w)
  /\ Goto(w, "append")
  /\ UNCHANGED <<detectorVars, job, todo, published, dropped, received>>

\* 409 when another key is pinned; a uniqueness error is a 500.
Bound(w) ==
  /\ pc[w] = "bound"
  /\ V!BindWrite(w)
  /\ IF result'[w] \in {"bound-new", "bound-match"}
     THEN Goto(w, "append") /\ UNCHANGED <<job, todo>>
     ELSE Finish(w)
  /\ UNCHANGED <<detectorVars, published, dropped, received>>

Append_(w) ==
  LET r == job[w].request IN
  /\ pc[w] = "append"
  /\ IF Signed(r) THEN V!AppendRead(w, r, r.ident, r.key) ELSE V!AppendRead(w, r, Nobody, NoKey)
  /\ Goto(w, "store")
  /\ UNCHANGED <<detectorVars, job, todo, published, dropped, received>>

\* The row's id is its seq: rows are never deleted.
Store(w) ==
  /\ pc[w] = "store"
  /\ V!AppendCommit(w)
  /\ IF result'[w] = "stored"
     THEN Goto(w, "publish") /\ job' = [job EXCEPT ![w].id = txn[w].row.seq] /\ UNCHANGED todo
     ELSE Finish(w)
  /\ UNCHANGED <<detectorVars, published, dropped, received>>

\* Seeded fault: the exception is swallowed and the walk goes on.
Fail_Swallowed(w) ==
  /\ pc[w] = "store"
  /\ V!WriteFails(w)
  /\ Goto(w, "publish")
  /\ job' = [job EXCEPT ![w].id = txn[w].row.seq]
  /\ UNCHANGED <<detectorVars, todo, published, dropped, received>>

\* The database raises inside bind_key or append_event: a 500.
Fail(w) ==
  /\ pc[w] \in {"bound", "store"}
  /\ V!WriteFails(w)
  /\ Finish(w)
  /\ UNCHANGED <<detectorVars, published, dropped, received>>

Publish(w) ==
  /\ pc[w] = "publish"
  /\ published' = published \cup {[event |-> job[w].id]}
  /\ Goto(w, "observe")
  /\ UNCHANGED <<vaultVars, detectorVars, job, todo, dropped, received>>

\* An event without a category, or without a message, is not looked at.
Observe(w) ==
  LET r == job[w].request IN
  /\ pc[w] = "observe"
  /\ IF r.category = NoCategory
     THEN UNCHANGED <<detectorVars, todo>>
     ELSE /\ \E tie \in Ties(r.occurred_at) :
               observe(r.category, Event(r, job[w].id, r.occurred_at, tie))
          /\ todo' = [todo EXCEPT ![w] = NewSignatures(r.category, window'[r.category])]
  /\ Goto(w, "record")
  /\ UNCHANGED <<vaultVars, job, published, dropped, received>>

\* _normalize raises on the event, for an occurred_at without a zone, a blank
\* message or a long source: a 500, although the event is stored and told.
ObserveFails(w) ==
  /\ pc[w] = "observe" /\ job[w].request.category # NoCategory
  /\ Finish(w)
  /\ UNCHANGED <<vaultVars, detectorVars, published, dropped, received>>

Record(w, s) ==
  /\ pc[w] = "record"
  /\ V!RecordIncident(w, s, s.ids)
  /\ IF result'[w] = "recorded"
     THEN Goto(w, "announce") /\ UNCHANGED todo
     ELSE todo' = [todo EXCEPT ![w] = @ \ {s}] /\ UNCHANGED pc
  /\ UNCHANGED <<detectorVars, job, published, dropped, received>>

\* The signature just recorded is the one of the worker's that is in the table.
Announce(w) ==
  /\ pc[w] = "announce"
  /\ \E s \in todo[w] :
       /\ V!Recorded(s)
       /\ published' = published \cup {[incident |-> s]}
       /\ todo' = [todo EXCEPT ![w] = @ \ {s}]
  /\ Goto(w, "record")
  /\ UNCHANGED <<vaultVars, detectorVars, job, dropped, received>>

\* The row's get_event or record_incident raises: a 500, although the event is
\* stored.  The signatures not yet recorded stay in seen.
RecordFails(w) ==
  /\ pc[w] = "publish" \/ (pc[w] = "record" /\ todo[w] # {})
  /\ V!RecordFails(w)
  /\ dropped' = dropped \cup todo[w]
  /\ Finish(w)
  /\ UNCHANGED <<detectorVars, published, received>>

Reply(w) ==
  /\ pc[w] = "record" /\ todo[w] = {}
  /\ Finish(w)
  /\ UNCHANGED <<vaultVars, detectorVars, published, dropped, received>>
-----------------------------------------------------------------------------
(* The process.                                                            *)

\* lifespan makes a new Detector; subscribers reconnect to a new Broadcaster.
Restart ==
  /\ window' = [c \in Categories |-> <<>>] /\ seen' = {} /\ feed' = <<>>
  /\ pc' = [w \in Workers |-> "idle"]
  /\ job' = [w \in Workers |-> NoJob]
  /\ todo' = [w \in Workers |-> {}]
  /\ published' = {}
  /\ dropped' = {}
  /\ UNCHANGED received

Crash == V!Crash /\ Restart

PowerLoss == V!PowerLoss /\ Restart

Checkpoint == V!Checkpoint /\ UNCHANGED <<detectorVars, workerVars>>

Work(w) ==
  \/ Bind(w) \/ Bound(w) \/ Append_(w) \/ Store(w)
  \/ Publish(w) \/ Observe(w)
  \/ \E s \in todo[w] : Record(w, s)
  \/ Announce(w) \/ Reply(w)

Next ==
  \/ \E w \in Workers, r \in Requests : Receive(w, r)
  \/ \E w \in Workers : Work(w)
  \/ \E w \in Workers : Fail(w) \/ ObserveFails(w) \/ RecordFails(w)
  \/ Crash
  \/ PowerLoss
  \/ Checkpoint

\* A thread that can run does; nothing else is promised.
Fairness == \A w \in Workers : WF_vars(Work(w))

Spec == Init /\ [][Next]_vars /\ Fairness
-----------------------------------------------------------------------------
(* Properties.                                                             *)

\* Every signed row carries the key pinned for its signer: two requests racing
\* for the first pin, a failed write and a crash between bind_key and
\* append_event included ("impersonation attempt -> reject", main.py).
SignedUnderPin ==
  \A i \in 1..Len(events) : events[i].signer # Nobody => events[i].pubkey = pins[events[i].signer]

\* A match the detector has marked as seen, which it will never raise again, is
\* in the incidents table or still in the hands of exactly one worker, unless
\* that worker's database call failed.
SeenIsRecorded ==
  \A s \in seen :
    \/ V!Recorded(s)
    \/ s \in dropped
    \/ Cardinality({w \in Workers : s \in todo[w]}) = 1

\* Every incident in the table cites stored rows that are what its rule
\* describes, whatever order the threads reached the detector in; the UUIDs of
\* events with one occurred_at are in some order.
EventOf(i, tie) == Event(events[i].body, i, events[i].body.occurred_at, tie)

IncidentsSound ==
  \A n \in 1..Len(incidents) :
    LET inc == incidents[n] IN
    /\ inc.cites \subseteq 1..Len(events)
    /\ \E tie \in [inc.cites -> Uuids \cup {0}] :
         Means(Rules[inc.signature.rule].detection, {EventOf(i, tie[i]) : i \in inc.cites})

\* What the subscribers are told is what the vault holds.
PublishedIsStored ==
  \A p \in published : IF "event" \in DOMAIN p THEN p.event <= Len(events) ELSE V!Recorded(p.incident)

\* The handlers use the vault only through its operations.
VaultSpec == V!Spec

\* Every request is answered, whatever fails: no thread waits for ever on the
\* lock of another.
Answered == \A w \in Workers : []<>(pc[w] = "idle")
=============================================================================
