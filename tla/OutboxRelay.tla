---------------------------- MODULE OutboxRelay ----------------------------
(***************************************************************************)
(* The transactional outbox (migration 007) and the relay that copies its  *)
(* rows to raw.domain_events (worker/main.py, relay_once).                 *)
(*                                                                         *)
(* A business transaction of the storefront or the admin panel takes the   *)
(* id of its outbox row when it inserts it and shows the row when it       *)
(* commits, so rows become visible out of the order of their ids.          *)
(***************************************************************************)
EXTENDS Integers, Sequences, FiniteSets, Functions, FiniteSetsExt

CONSTANTS Relay,      \* worker processes that run the relay
          Limit,      \* rows of one batch: "limit 500"
          MaxRows     \* bound: outbox rows of one behaviour

ASSUME LimitAssumption == Limit \in Nat \ {0}
ASSUME MaxRowsAssumption == MaxRows \in Nat

VARIABLES open,          \* outbox ids of transactions still open
          outbox,        \* ids of the committed rows of raw.outbox
          published,     \* those with published_at set
          domain_events, \* raw.domain_events, in the order of its own id
          batch,         \* rows each relay has locked and is copying
          lastId,        \* the identity sequence of raw.outbox
          before,        \* history: the rows visible when a row was inserted
          overlapped     \* history: two relays had a batch at one time

vars == <<open, outbox, published, domain_events, batch, lastId, before, overlapped>>

RowId == 1 .. MaxRows

TypeOK ==
  /\ open \subseteq RowId /\ outbox \subseteq RowId /\ published \subseteq outbox
  /\ domain_events \in Seq(RowId)
  /\ batch \in [Relay -> SUBSET RowId]
  /\ lastId \in 0 .. MaxRows
  /\ before \in [RowId -> SUBSET RowId]
  /\ overlapped \in BOOLEAN

Init ==
  /\ open = {} /\ outbox = {} /\ published = {}
  /\ domain_events = <<>>
  /\ batch = [r \in Relay |-> {}]
  /\ lastId = 0
  /\ before = [n \in RowId |-> {}]
  /\ overlapped = FALSE

-----------------------------------------------------------------------------
(* "insert into raw.outbox" in the transaction of the business fact.       *)
Write ==
  /\ lastId < MaxRows
  /\ lastId' = lastId + 1
  /\ open' = open \cup {lastId'}
  /\ before' = [before EXCEPT ![lastId'] = outbox]
  /\ UNCHANGED <<outbox, published, domain_events, batch, overlapped>>

(* The end of that transaction; a rollback leaves a gap in the ids.        *)
Commit(n) ==
  /\ n \in open
  /\ open' = open \ {n}
  /\ outbox' = outbox \cup {n}
  /\ UNCHANGED <<published, domain_events, batch, lastId, before, overlapped>>

Rollback(n) ==
  /\ n \in open
  /\ open' = open \ {n}
  /\ UNCHANGED <<outbox, published, domain_events, batch, lastId, before, overlapped>>

(* Faulty variants: a cursor in place of published_at, a dirty read.       *)
BugCursorWaiting == {n \in outbox : \A m \in published : m < n}

BugDirtyWaiting == (outbox \cup open) \ published

Waiting == outbox \ published

(* limit n                                                                 *)
Batches(S) == kSubset(Min({Limit, Cardinality(S)}), S)

(* Faulty variant: no "order by".                                          *)
BugOldest(S) == Batches(S)

(* order by id limit n                                                     *)
Oldest(S) == {T \in Batches(S) : \A m \in T, n \in S \ T : m < n}

Locked == UNION {batch[r] : r \in Relay}

(* The SELECT: the oldest unpublished rows nobody has locked, if any.      *)
Select(r) ==
  /\ batch[r] = {}
  /\ Waiting \ Locked # {}
  /\ \E rows \in Oldest(Waiting \ Locked) : batch' = [batch EXCEPT ![r] = rows]
  /\ overlapped' = (overlapped \/ Locked # {})
  /\ UNCHANGED <<open, outbox, published, domain_events, lastId, before>>

(* The rows of S in the order of their ids; there is one such sequence.    *)
Ascending(S) == {s \in [1 .. Cardinality(S) -> S] :
                   Range(s) = S /\ \A i, j \in DOMAIN s : i < j => s[i] < s[j]}

(* insert into raw.domain_events ... on conflict do nothing                *)
Copied(rows) == {domain_events \o s : s \in Ascending(rows \ Range(domain_events))}

(* Faulty variant: one commit for the copies, another for published_at,    *)
(* which a crash prevents.                                                 *)
BugPublish(r) ==
  /\ batch[r] # {}
  /\ domain_events' \in Copied(batch[r])
  /\ published' \in {published, published \cup batch[r]}
  /\ batch' = [batch EXCEPT ![r] = {}]
  /\ UNCHANGED <<open, outbox, lastId, before, overlapped>>

(* The rows are inserted (on conflict do nothing), marked and committed.   *)
Publish(r) ==
  /\ batch[r] # {}
  /\ domain_events' \in Copied(batch[r])
  /\ published' = published \cup batch[r]
  /\ batch' = [batch EXCEPT ![r] = {}]
  /\ UNCHANGED <<open, outbox, lastId, before, overlapped>>

(* The process dies or the statement fails: everything is rolled back.     *)
Abort(r) ==
  /\ batch[r] # {}
  /\ batch' = [batch EXCEPT ![r] = {}]
  /\ UNCHANGED <<open, outbox, published, domain_events, lastId, before, overlapped>>

Next ==
  \/ Write
  \/ \E n \in RowId : Commit(n) \/ Rollback(n)
  \/ \E r \in Relay : Select(r) \/ Publish(r) \/ Abort(r)

Spec == Init /\ [][Next]_vars

(* The loop polls whatever the notifications do, and a batch that can be   *)
(* written again and again is written at last.                             *)
FairSpec ==
  /\ Spec
  /\ \A r \in Relay : WF_vars(Select(r)) /\ SF_vars(Publish(r))

-----------------------------------------------------------------------------
(* A row is marked published exactly when its copy exists, whatever        *)
(* crashes and however many relays run: the two tables never disagree.     *)
PublishedIffRelayed == published = Range(domain_events)

(* Every committed fact reaches raw.domain_events, also one whose          *)
(* transaction commits after rows with higher ids were relayed.            *)
EveryFactArrives == \A n \in RowId : n \in outbox ~> n \in Range(domain_events)

(* As long as no two relays overlap, as in normal operation, a fact that   *)
(* was visible when another one was written comes first: 'order.placed'    *)
(* before 'order.paid' of the same order.                                  *)
CausalOrder ==
  ~overlapped => \A k, m \in DOMAIN domain_events :
    domain_events[k] \in before[domain_events[m]] => k < m
=============================================================================
