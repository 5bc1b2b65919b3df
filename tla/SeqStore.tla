------------------------------ MODULE SeqStore ------------------------------
(***************************************************************************)
(* The agent's sequence numbers, pkg/collector/seqstore.go: numbers are    *)
(* issued from a block reserved in a state file, so that a restarted agent *)
(* starts above everything it may have issued.                             *)
(*                                                                         *)
(* os.WriteFile truncates the file and then writes it, and Next ignores    *)
(* its error.  Spec is the store on a file whose writes are completed once *)
(* begun; SpecWithAccidents adds what the code does not exclude, a stop    *)
(* between the truncation and the write and a write that fails.            *)
(***************************************************************************)
EXTENDS Naturals

CONSTANTS
  Block,   \* numbers reserved by one write
  Empty,   \* the content of a state file that is absent or was truncated
  MaxSeq   \* bound: no number is asked for above it

ASSUME SeqStoreAssumption ==
  /\ Block \in Nat \ {0}
  /\ Empty \notin Nat
  /\ MaxSeq \in Nat

VARIABLES
  file,        \* the state file
  phase,       \* what the agent is doing
  caller,      \* who called reserve: OpenSeqStore or Next
  next,        \* s.next
  reservedTo,  \* s.reservedTo
  issued       \* the number issued last, by this or an earlier run of the agent

vars == <<file, phase, caller, next, reservedTo, issued>>

TypeOK ==
  /\ file \in Nat \cup {Empty}
  /\ phase \in {"down", "reserve", "truncated", "ready"}
  /\ caller \in {"OpenSeqStore", "Next"}
  /\ next \in Nat
  /\ reservedTo \in Nat
  /\ issued \in Nat

Init ==
  /\ file = Empty
  /\ phase = "down"
  /\ caller = "OpenSeqStore"
  /\ next = 0
  /\ reservedTo = 0
  /\ issued = 0
-----------------------------------------------------------------------------
\* Seeded fault: the file of the run before is not read.
Parsed_Ignored == 0

\* What ParseUint makes of the file; its error leaves the zero value.
Parsed == IF file = Empty THEN 0 ELSE file

\* reserve(n + block) up to the write: reservedTo is set first.
Reserve(n, c) ==
  /\ next' = n
  /\ reservedTo' = n + Block
  /\ caller' = c
  /\ phase' = "reserve"
  /\ UNCHANGED <<file, issued>>

OpenSeqStore ==
  /\ phase = "down" /\ Parsed < MaxSeq
  /\ Reserve(Parsed, "OpenSeqStore")

\* The call that called reserve returns: OpenSeqStore its store, Next a number.
Return ==
  /\ phase' = "ready"
  /\ issued' = IF caller = "Next" THEN next ELSE issued

Truncate ==
  /\ phase = "reserve"
  /\ file' = Empty
  /\ phase' = "truncated"
  /\ UNCHANGED <<caller, next, reservedTo, issued>>

Write ==
  /\ phase = "truncated"
  /\ file' = reservedTo
  /\ Return
  /\ UNCHANGED <<caller, next, reservedTo>>

\* The file cannot be opened for writing: OpenSeqStore returns the error and
\* the agent does not start.
OpenFails ==
  /\ phase = "reserve" /\ caller = "OpenSeqStore"
  /\ phase' = "down"
  /\ UNCHANGED <<file, caller, next, reservedTo, issued>>

\* Seeded fault: the block is taken to have one number more than is reserved.
Issue_Late ==
  /\ phase = "ready" /\ next < MaxSeq
  /\ next <= reservedTo
  /\ next' = next + 1
  /\ issued' = next + 1
  /\ UNCHANGED <<file, phase, caller, reservedTo>>

\* Next within the block.
Issue ==
  /\ phase = "ready" /\ next < MaxSeq
  /\ next < reservedTo
  /\ next' = next + 1
  /\ issued' = next + 1
  /\ UNCHANGED <<file, phase, caller, reservedTo>>

\* Next when the block is used up.
IssueReserving ==
  /\ phase = "ready" /\ next < MaxSeq
  /\ next >= reservedTo
  /\ Reserve(next + 1, "Next")

Stop ==
  /\ phase' = "down"
  /\ UNCHANGED <<file, caller, next, reservedTo, issued>>

Crash == phase \in {"reserve", "ready"} /\ Stop

Next ==
  \/ OpenSeqStore \/ OpenFails
  \/ Truncate \/ Write
  \/ Issue \/ IssueReserving
  \/ Crash

Spec == Init /\ [][Next]_vars

\* The agent stops between the truncation and the write.
TornWrite == phase = "truncated" /\ Stop

\* The file cannot be opened, or the write fails: Next drops the error.
NextWriteError ==
  /\ phase \in {"reserve", "truncated"} /\ caller = "Next"
  /\ Return
  /\ UNCHANGED <<file, caller, next, reservedTo>>

OpenWriteError == phase = "truncated" /\ caller = "OpenSeqStore" /\ Stop

SpecWithAccidents == Init /\ [][Next \/ TornWrite \/ NextWriteError \/ OpenWriteError]_vars
-----------------------------------------------------------------------------
(* Properties.                                                             *)

\* Next returns a number.
Issuing == Issue \/ (caller = "Next" /\ (Write \/ NextWriteError))

\* "only monotonicity (never go backwards, never reuse) matters", "a crash
\* never reuses a sequence" (seqstore.go): each number that Next returns is above
\* the one it returned last, in this run of the agent or an earlier one.
NeverReused == [][Issuing => issued' > issued]_vars

\* The file covers every number issued, and a running store's block is the
\* file's: what a restart needs to start above them.
Covered ==
  /\ phase # "truncated" => issued <= Parsed
  /\ phase = "ready" => issued <= next /\ next <= reservedTo /\ reservedTo = Parsed
  /\ phase \in {"reserve", "truncated"} =>
       /\ next < reservedTo
       /\ IF caller = "Next" THEN issued < next ELSE issued <= next
=============================================================================
