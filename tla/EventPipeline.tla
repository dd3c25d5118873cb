--------------------------- MODULE EventPipeline ---------------------------
(***************************************************************************)
(* Behavioural events on their way from the browser to raw.events: the     *)
(* collector (collector/app.py) appends them to a Redis stream, the        *)
(* loader of the worker (worker/main.py) reads the stream through a        *)
(* consumer group and copies batches into the table.                       *)
(*                                                                         *)
(* The stream is kept whole and "trimmed" says how many of its oldest      *)
(* entries Redis has dropped.  An entry is named by its place.             *)
(***************************************************************************)
EXTENDS Integers, Sequences, FiniteSets, SequencesExt, FiniteSetsExt

CONSTANTS Event,        \* event_ids
          Poison,       \* events raw.events cannot take, e.g. with props
                        \* that are no longer JSON when cut at 8000 characters
          Loader,       \* worker processes
          Batch,        \* entries of one read: BATCH
          MaxLen,       \* STREAM_MAXLEN
          MaxSends      \* bound: deliveries of one event to the collector

ASSUME EventAssumption == Poison \subseteq Event
ASSUME BoundsAssumption == Batch \in Nat \ {0} /\ MaxLen \in Nat /\ MaxSends \in Nat

VARIABLES sends,      \* deliveries of each event to the collector
          stream,     \* every entry ever added
          trimmed,    \* how many of them are gone
          group,      \* the consumer group exists
          delivered,  \* last-delivered-id of the group
          pending,    \* entries delivered and not acknowledged
          reading,    \* the entries each loader has in hand
          stored,     \* ... and whether their transaction is committed
          events      \* raw.events, by its key (event_id, occurred_at)

vars == <<sends, stream, trimmed, group, delivered, pending, reading, stored, events>>

(* occurred_at: what the client said, or the time of the n-th delivery.    *)
Row == [event : Event, at : 0 .. MaxSends]

Entry == 1 .. Len(stream)

TypeOK ==
  /\ sends \in [Event -> 0 .. MaxSends]
  /\ stream \in Seq(Row)
  /\ trimmed \in 0 .. Len(stream) /\ delivered \in 0 .. Len(stream)
  /\ group \in BOOLEAN
  /\ pending \subseteq 1 .. delivered
  /\ reading \in [Loader -> SUBSET Entry] /\ stored \in [Loader -> BOOLEAN]
  /\ events \subseteq Row

Init ==
  /\ sends = [e \in Event |-> 0]
  /\ stream = <<>> /\ trimmed = 0
  /\ group = FALSE /\ delivered = 0 /\ pending = {}
  /\ reading = [l \in Loader |-> {}] /\ stored = [l \in Loader |-> FALSE]
  /\ events = {}

-----------------------------------------------------------------------------
(* clean: "client clocks lie", so a timestamp that is more than a day out, *)
(* or in the future, by the clock of this, the n-th, delivery is replaced  *)
(* by the time of this delivery.  An event can be too early at its first   *)
(* delivery, believed at its second and too old at its third.              *)
Clean(e, n, believed) == [event |-> e, at |-> IF believed THEN 0 ELSE n]

(* XADD ... MAXLEN ~ n: entries above n may be dropped, never fewer kept.  *)
Collect(e, believed) ==
  /\ sends[e] < MaxSends
  /\ sends' = [sends EXCEPT ![e] = @ + 1]
  /\ stream' = Append(stream, Clean(e, sends'[e], believed))
  /\ trimmed' \in trimmed .. Max({trimmed, Len(stream') - MaxLen})
  /\ UNCHANGED <<group, delivered, pending, reading, stored, events>>

(* Redis is unreachable: the batch is dropped and the browser gets a 204.  *)
Drop(e) ==
  /\ sends[e] < MaxSends
  /\ sends' = [sends EXCEPT ![e] = @ + 1]
  /\ UNCHANGED <<stream, trimmed, group, delivered, pending, reading, stored, events>>

(* Faulty variant: the group starts at "$", the end of the stream.         *)
BugEnsureGroup ==
  /\ ~group /\ group' = TRUE /\ delivered' = Len(stream)
  /\ UNCHANGED <<sends, stream, trimmed, pending, reading, stored, events>>

(* ensure_group: the group starts at "0"; afterwards it is a BUSYGROUP.    *)
EnsureGroup ==
  /\ ~group /\ group' = TRUE /\ delivered' = 0
  /\ UNCHANGED <<sends, stream, trimmed, pending, reading, stored, events>>

(* XREADGROUP ">": entries never delivered before, oldest first.           *)
Read(l) ==
  LET first == Max({delivered, trimmed}) + 1
      last  == Min({first + Batch - 1, Len(stream)})
  IN /\ group /\ reading[l] = {} /\ first <= last
     /\ reading' = [reading EXCEPT ![l] = first .. last]
     /\ pending' = pending \cup first .. last
     /\ delivered' = last
     /\ UNCHANGED <<sends, stream, trimmed, group, stored, events>>

RowsOf(entries) == {stream[k] : k \in entries}

(* load_batch: COPY, then INSERT ... ON CONFLICT DO NOTHING, committed.    *)
Load(l) ==
  /\ reading[l] # {} /\ ~stored[l]
  /\ \A row \in RowsOf(reading[l]) : row.event \notin Poison
  /\ events' = events \cup RowsOf(reading[l])
  /\ stored' = [stored EXCEPT ![l] = TRUE]
  /\ UNCHANGED <<sends, stream, trimmed, group, delivered, pending, reading>>

(* Faulty variant: the position of the group goes back with the batch.     *)
BugForget(l) ==
  /\ reading' = [reading EXCEPT ![l] = {}]
  /\ stored' = [stored EXCEPT ![l] = FALSE]
  /\ delivered' = IF reading[l] = {} THEN delivered ELSE Min(reading[l]) - 1
  /\ UNCHANGED <<sends, stream, trimmed, group, events>>

(* The loader forgets its batch: it has acknowledged it, an exception took *)
(* it back to the top of its loop, or it died and was restarted.           *)
Forget(l) ==
  /\ reading' = [reading EXCEPT ![l] = {}]
  /\ stored' = [stored EXCEPT ![l] = FALSE]
  /\ UNCHANGED <<sends, stream, trimmed, group, delivered, events>>

Ack(l) ==
  /\ stored[l]
  /\ pending' = pending \ reading[l]
  /\ Forget(l)

(* Faulty variant: the batch is acknowledged whatever happens to it.       *)
BugFail(l) == reading[l] # {} /\ pending' = pending \ reading[l] /\ Forget(l)

(* The COPY or the XACK failed, or the process crashed.                    *)
Fail(l) == reading[l] # {} /\ UNCHANGED pending /\ Forget(l)

(* XAUTOCLAIM hands idle entries to this consumer and forgets those that   *)
(* are no longer in the stream; its result is not used.                    *)
Reclaim ==
  /\ pending \cap 1 .. trimmed # {}
  /\ pending' = {k \in pending : k > trimmed}
  /\ UNCHANGED <<sends, stream, trimmed, group, delivered, reading, stored, events>>

Next ==
  \/ \E e \in Event : Drop(e) \/ \E believed \in BOOLEAN : Collect(e, believed)
  \/ EnsureGroup \/ Reclaim
  \/ \E l \in Loader : Read(l) \/ Load(l) \/ Ack(l) \/ Fail(l)

Spec == Init /\ [][Next]_vars

(* The worker runs: it creates its group and reads, and what it holds it   *)
(* either loads or fails to load.                                          *)
FairSpec ==
  /\ Spec
  /\ WF_vars(EnsureGroup) /\ WF_vars(Reclaim)
  /\ \A l \in Loader : WF_vars(Read(l)) /\ WF_vars(Load(l) \/ Ack(l) \/ Fail(l))

-----------------------------------------------------------------------------
IsStored(k) == k \in Entry /\ stream[k] \in events

(* "XACK only after the commit": an entry that was delivered and is not    *)
(* pending any more is in raw.events, unless Redis trimmed it.             *)
AckedWereStored ==
  \A k \in 1 .. delivered : k \in pending \/ k <= trimmed \/ IsStored(k)

(* Every entry the collector added is handed to a loader in the end, also  *)
(* those from before the first loader started.                             *)
EntriesAreDelivered ==
  \A k \in 1 .. Cardinality(Event) * MaxSends :
    k \in Entry ~> IsStored(k) \/ k \in pending \/ k <= trimmed

(* "it stays unacked and will be retried": an entry whose loader failed    *)
(* does not stay pending for ever.                                         *)
UnackedIsRetried ==
  \A k \in 1 .. Cardinality(Event) * MaxSends : k \in pending ~> k \notin pending
=============================================================================
