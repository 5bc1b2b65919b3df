---------------------------- MODULE EvidenceLog ----------------------------
(***************************************************************************)
(* What Sentry's vault promises, with no table, digest, lock or thread:    *)
(* an append-only log of event bodies and a write-once book of agent keys. *)
(* Only a power failure takes anything back, and then both return together *)
(* to the moment at which they were last made durable.                     *)
(***************************************************************************)
EXTENDS Naturals, Sequences

CONSTANTS Bodies, Identities, Keys, NoKey

VARIABLES
  log,     \* the bodies accepted, oldest first
  book,    \* the key pinned for each identity
  durable  \* the log's length and the book when they were last made durable

vars == <<log, book, durable>>

Init ==
  /\ log = <<>>
  /\ book = [i \in Identities |-> NoKey]
  /\ durable = [length |-> 0, book |-> book]

Accept(body) == log' = Append(log, body) /\ UNCHANGED <<book, durable>>

Pin(ident, key) ==
  /\ book[ident] = NoKey
  /\ book' = [book EXCEPT ![ident] = key]
  /\ UNCHANGED <<log, durable>>

Sync == durable' = [length |-> Len(log), book |-> book] /\ UNCHANGED <<log, book>>

Lose ==
  /\ log' = SubSeq(log, 1, durable.length)
  /\ book' = durable.book
  /\ UNCHANGED durable

Next ==
  \/ \E body \in Bodies : Accept(body)
  \/ \E ident \in Identities, key \in Keys : Pin(ident, key)
  \/ Sync
  \/ Lose

Spec == Init /\ [][Next]_vars
=============================================================================
