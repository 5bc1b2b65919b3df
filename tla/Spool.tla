------------------------------- MODULE Spool --------------------------------
(***************************************************************************)
(* The disk spool of the second agent, internal/spool/spool.go: events are *)
(* appended to segment files, the oldest segments are evicted when the     *)
(* total exceeds a bound, and a new run replays what the files hold.       *)
(*                                                                         *)
(* The files are one sequence of entries, each with the number of its      *)
(* segment: a segment is named by the time it was opened, so that their    *)
(* names sort as they were opened.  Sizes are counted in events.           *)
(***************************************************************************)
EXTENDS Naturals, Sequences, FiniteSetsExt

CONSTANTS
  SegmentMax,   \* s.segmentMax, in events
  MaxSize,      \* s.maxBytes, in events
  Fragment,     \* what a failed write leaves in the file: no newline ends it
  MaxEvents,    \* bound: the events pushed
  MaxSegments   \* bound: the segments opened

ASSUME SpoolAssumption ==
  /\ SegmentMax \in Nat \ {0}
  /\ MaxSize \in Nat \ {0}
  /\ MaxEvents \in Nat
  /\ MaxSegments \in Nat
  /\ Fragment \notin Nat

Events == 1..MaxEvents

VARIABLES
  records,      \* the entries on disk, oldest first: [seg, entry]
  active,       \* the segment being written
  activeBytes,  \* s.activeBytes
  offered,      \* the number of calls of Push so far, and the event offered last
  spooled       \* the events for which Push returned nil

vars == <<records, active, activeBytes, offered, spooled>>

Record == [seg : Nat, entry : Events \cup {Fragment}]

TypeOK ==
  /\ records \in Seq(Record)
  /\ active \in Nat
  /\ activeBytes \in 0..SegmentMax
  /\ offered \in 0..MaxEvents
  /\ spooled \subseteq 1..offered

\* NewSpool in an empty directory.
Init ==
  /\ records = <<>>
  /\ active = 1
  /\ activeBytes = 0
  /\ offered = 0
  /\ spooled = {}
-----------------------------------------------------------------------------
\* Push opens a new segment when the active one would grow beyond its size.
Full == activeBytes + 1 > SegmentMax

\* The segment that Push writes to, and its size when it has written.
SegmentFor(written) ==
  /\ active' = IF Full THEN active + 1 ELSE active
  /\ activeBytes' = (IF Full THEN 0 ELSE activeBytes) + written

\* The number of entries in the segments before the one entry n + 1 is in.
Boundaries(rs) == {0} \cup {n \in 1..(Len(rs) - 1) : rs[n].seg # rs[n + 1].seg}

\* Seeded fault: the loop over the segments stops one early.
EnforceBounds_Late(rs) ==
  LET cut == Min({n \in Boundaries(rs) : Len(rs) - n <= MaxSize + SegmentMax \/ rs[n + 1].seg = rs[Len(rs)].seg})
  IN  SubSeq(rs, cut + 1, Len(rs))

\* Seeded fault: the active segment is evicted like any other.
EnforceBounds_Active(rs) ==
  LET cut == Min({n \in Boundaries(rs) \cup {Len(rs)} : Len(rs) - n <= MaxSize})
  IN  SubSeq(rs, cut + 1, Len(rs))

\* Whole segments go, the oldest first and never the active one, until the
\* rest is within the bound.
EnforceBounds(rs) ==
  LET cut == Min({n \in Boundaries(rs) : Len(rs) - n <= MaxSize \/ rs[n + 1].seg = rs[Len(rs)].seg})
  IN  SubSeq(rs, cut + 1, Len(rs))

In(seg, x) == [seg |-> seg, entry |-> x]

\* Push: write, count, evict.
Push(e) ==
  /\ Full => active < MaxSegments
  /\ SegmentFor(1)
  /\ records' = EnforceBounds(Append(records, In(active', e)))

\* Push returns the error of the write: part of the record may be in the file,
\* nothing is counted or evicted.
PushFails ==
  /\ Full => active < MaxSegments
  /\ SegmentFor(0)
  /\ records' \in {records, Append(records, In(active', Fragment))}

\* NewSpool of another run rotates, whatever the size of the last segment.
NewSpool ==
  /\ active < MaxSegments
  /\ active' = active + 1
  /\ activeBytes' = 0
  /\ UNCHANGED records

\* ReplayUnacknowledged reads the files line by line: a record that follows a
\* fragment in its file is on one line with it, which does not parse.
Readable(n) ==
  /\ records[n].entry # Fragment
  /\ n > 1 => ~(records[n - 1].entry = Fragment /\ records[n - 1].seg = records[n].seg)
-----------------------------------------------------------------------------
(* One run after another pushes the events 1, 2, and so on.                *)

Accept ==
  /\ offered < MaxEvents
  /\ offered' = offered + 1
  /\ spooled' = spooled \cup {offered'}
  /\ Push(offered')

Refuse ==
  /\ offered < MaxEvents
  /\ offered' = offered + 1
  /\ PushFails
  /\ UNCHANGED spooled

\* The open of a new segment fails: Push returns before it has changed anything.
RotateFails ==
  /\ offered < MaxEvents
  /\ Full
  /\ offered' = offered + 1
  /\ UNCHANGED <<records, active, activeBytes, spooled>>

Restart == NewSpool /\ UNCHANGED <<offered, spooled>>

Next == Accept \/ Refuse \/ RotateFails \/ Restart

Spec == Init /\ [][Next]_vars
-----------------------------------------------------------------------------
(* Properties.                                                             *)

OnDisk == {n \in DOMAIN records : records[n].entry # Fragment}

\* A replay returns the events in the order they were pushed, and misses a
\* pushed one only when it was evicted, with everything older and for something
\* newer, or when the push before it failed and left a fragment in its line
\* (ReplayUnacknowledged after any sequence of rotations, evictions, failures
\* and restarts).
ReplayComplete ==
  /\ \A i, j \in OnDisk : i < j => records[i].entry < records[j].entry
  /\ \A e \in spooled :
       \/ \E n \in OnDisk : records[n].entry = e /\ (Readable(n) \/ e - 1 \notin spooled)
       \/ OnDisk # {} /\ \A n \in OnDisk : records[n].entry > e

\* The spool is a bounded queue ("a crash-resilient, disk-backed FIFO queue"):
\* pushes append, and make room only when they must, at the old end, by no more
\* than a segment too much.
Queue == INSTANCE SpoolQueue WITH queue <- [n \in DOMAIN records |-> records[n].entry]

QueueSpec == Queue!Spec
=============================================================================
