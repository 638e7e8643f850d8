------------------------------ MODULE SyncFeed ------------------------------
(***************************************************************************)
(* The event feed, the audit log, the operator notes and sync of LabState  *)
(* (core.py), with the reader that the dashboard runs against sync         *)
(* (refresh in static/app.js).                                             *)
(*                                                                         *)
(* Both logs are bounded deques whose entries carry a sequence number that *)
(* is never reset while the process lives; a restarted Teamserver starts   *)
(* again at 1 under a new stream id.  A reader fetches page after page     *)
(* while other threads write, and commits what it has read at the end of a *)
(* refresh.                                                                *)
(***************************************************************************)
EXTENDS Naturals, Sequences, FiniteSets, Functions

CONSTANTS
  MAX_EVENTS, MAX_AUDIT_ENTRIES, MAX_OPERATOR_NOTES_RETAINED,
  SYNC_PAGE_SIZE, MAX_SYNC_PAGES, MAX_HISTORY_RECORDS,
  NoteRequests,  \* [body, key]: actor and message together, Idempotency-Key
  NoKey,
  Readers,       \* dashboards
  MaxSequence,   \* bound on the entries of one log
  MaxStreams     \* bound on the starts of the Teamserver

ASSUME FeedAssumption ==
  /\ MAX_EVENTS \in Nat \ {0}
  /\ MAX_AUDIT_ENTRIES \in Nat \ {0}
  /\ MAX_OPERATOR_NOTES_RETAINED \in Nat \ {0}
  /\ SYNC_PAGE_SIZE \in Nat \ {0}
  /\ MAX_SYNC_PAGES \in Nat \ {0}
  /\ MAX_HISTORY_RECORDS \in Nat \ {0}
  /\ MaxSequence \in Nat
  /\ MaxStreams \in Nat

VARIABLES
  stream,           \* _stream_id, 1 for the first process
  events,           \* _events, oldest first
  audit,            \* _audit_entries, oldest first
  event_sequence,   \* _event_sequence
  audit_sequence,   \* _audit_sequence
  note_idempotency, \* _note_idempotency: per Idempotency-Key [body, event]
  reader            \* per dashboard: what is committed, and the refresh under way

server == <<stream, events, audit, event_sequence, audit_sequence, note_idempotency>>
feed_vars == <<server, reader>>

(* key is a history field of notes; the code keeps it in the key table only. *)
Entry(kind, sequence, key) ==
  [stream |-> stream, sequence |-> sequence, kind |-> kind, key |-> key]

Committed ==
  [stream |-> 0, cursors |-> [events |-> 0, audit |-> 0],
   history |-> [events |-> {}, audit |-> {}]]

NoRefresh == [page |-> 0]

NoKeys == [k \in {} |-> {}]

Init ==
  /\ stream = 1
  /\ events = <<>> /\ event_sequence = 0
  /\ audit = <<>> /\ audit_sequence = 0
  /\ note_idempotency = NoKeys
  /\ reader = [r \in Readers |-> [kept |-> Committed, refresh |-> NoRefresh]]

-----------------------------------------------------------------------------
(* Writing: _record_locked and _audit_locked on deques with a maxlen. *)

AppendBounded(log, entry, max) ==
  IF Len(log) < max THEN Append(log, entry) ELSE Append(Tail(log), entry)

Record(log, kind, key) ==
  /\ event_sequence < MaxSequence
  /\ event_sequence' = event_sequence + 1
  /\ events' = AppendBounded(log, Entry(kind, event_sequence + 1, key), MAX_EVENTS)

Audit ==
  /\ audit_sequence < MaxSequence
  /\ audit_sequence' = audit_sequence + 1
  /\ audit' = AppendBounded(audit, Entry("audit", audit_sequence + 1, NoKey),
                            MAX_AUDIT_ENTRIES)

(* A handler of the ledger or of the exercises: heartbeats and redeliveries
   are events only, state changes are also audited. *)
Activity ==
  /\ Record(events, "activity", NoKey)
  /\ Audit \/ UNCHANGED <<audit, audit_sequence>>
  /\ UNCHANGED <<stream, note_idempotency, reader>>

reset ==
  /\ Record(<<>>, "lab.reset", NoKey)
  /\ Audit
  /\ note_idempotency' = NoKeys
  /\ UNCHANGED <<stream, reader>>

(* The Teamserver process is started again: everything was in memory. *)
Restart ==
  /\ stream < MaxStreams
  /\ stream' = stream + 1
  /\ events' = <<>> /\ event_sequence' = 0
  /\ audit' = <<>> /\ audit_sequence' = 0
  /\ note_idempotency' = NoKeys
  /\ UNCHANGED reader

-----------------------------------------------------------------------------
(* post_operator_note. *)

RetainedNotes == {e \in Range(events) : e.kind = "operator.note"}

Retained(item) == \E e \in Range(events) : e.sequence = item.event

(* The answer to a retry, or a conflict: nothing changes. *)
Answered(r) ==
  /\ r.key \in DOMAIN note_idempotency
  /\ \/ note_idempotency[r.key].body # r.body
     \/ Retained(note_idempotency[r.key])

(* The table without the key of a note that has left the feed. *)
KeysWithout(key) == [k \in DOMAIN note_idempotency \ {key} |-> note_idempotency[k]]

(* The first key in the order of the dictionary: every key is entered with the
   newest event. *)
OldestKey(items) ==
  CHOOSE k \in DOMAIN items : \A j \in DOMAIN items : items[k].event <= items[j].event

RememberNote(items, key, item) ==
  LET entered == [k \in DOMAIN items \cup {key} |-> IF k = key THEN item ELSE items[k]]
      popped  == IF Cardinality(DOMAIN entered) > MAX_OPERATOR_NOTES_RETAINED
                 THEN {OldestKey(entered)} ELSE {}
  IN [k \in DOMAIN entered \ popped |-> entered[k]]

NoteRoom == Cardinality(RetainedNotes) < MAX_OPERATOR_NOTES_RETAINED

(* A faulty PostNote, for checking the properties. *)
PostNoteKeepingOldKey(r) ==
  /\ ~Answered(r)
  /\ NoteRoom
  /\ Record(events, "operator.note", r.key)
  /\ Audit
  /\ note_idempotency' =
       IF r.key = NoKey \/ r.key \in DOMAIN note_idempotency THEN note_idempotency
       ELSE RememberNote(note_idempotency, r.key,
                         [body |-> r.body, event |-> event_sequence + 1])
  /\ UNCHANGED <<stream, reader>>

PostNote(r) ==
  /\ ~Answered(r)
  /\ NoteRoom
  /\ Record(events, "operator.note", r.key)
  /\ Audit
  /\ note_idempotency' =
       IF r.key = NoKey THEN note_idempotency
       ELSE RememberNote(KeysWithout(r.key), r.key,
                         [body |-> r.body, event |-> event_sequence + 1])
  /\ UNCHANGED <<stream, reader>>

(* note_limit: the key of a note that has left the feed is deleted before the
   limit refuses the new one. *)
RefuseNote(r) ==
  /\ ~Answered(r)
  /\ ~NoteRoom
  /\ r.key \in DOMAIN note_idempotency
  /\ note_idempotency' = KeysWithout(r.key)
  /\ UNCHANGED <<stream, events, audit, event_sequence, audit_sequence, reader>>

-----------------------------------------------------------------------------
(* sync: history_delta on one log.  floor is the sequence of the retained
   lab.reset event, 0 when there is none. *)

Earliest(log, latest) == IF log = <<>> THEN latest + 1 ELSE log[1].sequence

(* A faulty ResetRequired, for checking the properties. *)
ResetRequiredWithoutFloor(log, after, latest, floor) ==
  after > latest \/ after + 1 < Earliest(log, latest)

ResetRequired(log, after, latest, floor) ==
  after > latest \/ after + 1 < Earliest(log, latest) \/ after < floor

(* The positions of the candidates in the log, and the first page of them. *)
Candidates(log, after, over) == {k \in 1..Len(log) : over \/ log[k].sequence > after}

Selected(positions) ==
  {k \in positions : Cardinality({j \in positions : j < k}) < SYNC_PAGE_SIZE}

LastOf(positions) == CHOOSE k \in positions : \A j \in positions : j <= k

(* A faulty Delta, for checking the properties. *)
DeltaToLatest(log, after, latest, floor) ==
  LET over       == ResetRequired(log, after, latest, floor)
      candidates == Candidates(log, after, over)
      selected   == Selected(candidates)
  IN [entries |-> {log[k] : k \in selected}, reset |-> over,
      more |-> selected # candidates, cursor |-> latest]

Delta(log, after, latest, floor) ==
  LET over       == ResetRequired(log, after, latest, floor)
      candidates == Candidates(log, after, over)
      selected   == Selected(candidates)
  IN [entries |-> {log[k] : k \in selected}, reset |-> over,
      more |-> selected # candidates,
      cursor |-> IF selected = {} THEN latest ELSE log[LastOf(selected)].sequence]

ResetFloor ==
  LET resets == {e.sequence : e \in {x \in Range(events) : x.kind = "lab.reset"}}
  IN IF resets = {} THEN 0 ELSE CHOOSE s \in resets : \A t \in resets : s <= t

sync(cursors) ==
  [stream |-> stream,
   events |-> Delta(events, cursors.events, event_sequence, ResetFloor),
   audit  |-> Delta(audit, cursors.audit, audit_sequence, 0)]

-----------------------------------------------------------------------------
(* refresh of the dashboard. *)

Newest(history) ==
  {e \in history :
     Cardinality({d \in history : d.sequence > e.sequence}) < MAX_HISTORY_RECORDS}

(* mergeHistoryRecords; an incoming record replaces one of its sequence. *)
Merge(history, delta) ==
  LET old == IF delta.reset THEN {} ELSE history
  IN Newest({e \in old : \A d \in delta.entries : d.sequence # e.sequence}
              \cup delta.entries)

StartRefresh(r) ==
  /\ reader[r].refresh = NoRefresh
  /\ reader' = [reader EXCEPT ![r].refresh =
                  [page |-> 1, state |-> reader[r].kept]]
  /\ UNCHANGED server

StreamChanged(state) == state.stream # 0 /\ state.stream # stream

(* A faulty AfterPage, for checking the properties. *)
AfterPageOfAnyStream(state, page) ==
  [stream |-> page.stream,
   cursors |-> [events |-> page.events.cursor, audit |-> page.audit.cursor],
   history |-> [events |-> Merge(state.history.events, page.events),
                audit  |-> Merge(state.history.audit, page.audit)]]

(* The reader's state after one answer: a new stream starts over with the next
   page, otherwise the page is merged. *)
AfterPage(state, page) ==
  IF StreamChanged(state) THEN [Committed EXCEPT !.stream = page.stream]
  ELSE [stream |-> page.stream,
        cursors |-> [events |-> page.events.cursor, audit |-> page.audit.cursor],
        history |-> [events |-> Merge(state.history.events, page.events),
                     audit  |-> Merge(state.history.audit, page.audit)]]

(* The refresh ends when nothing more is announced, or with its last page;
   it commits unless the last stream change left it with no page at all. *)
FetchPage(r) ==
  LET now  == reader[r].refresh
      page == sync(now.state.cursors)
      next == AfterPage(now.state, page)
      seen == ~StreamChanged(now.state)
      ends == now.page = MAX_SYNC_PAGES \/ (seen /\ ~page.events.more /\ ~page.audit.more)
  IN /\ now # NoRefresh
     /\ reader' = [reader EXCEPT ![r] =
          IF ends THEN [kept |-> IF seen THEN next ELSE @.kept, refresh |-> NoRefresh]
          ELSE [@ EXCEPT !.refresh = [page |-> now.page + 1, state |-> next]]]
     /\ UNCHANGED server

(* The request fails: what this refresh has read is dropped. *)
RefreshFails(r) ==
  /\ reader[r].refresh # NoRefresh
  /\ reader' = [reader EXCEPT ![r].refresh = NoRefresh]
  /\ UNCHANGED server

(* resetSyncState, on a 401 and when the operator changes the token; a refresh
   under way is stale then and commits nothing. *)
ResetSyncState(r) ==
  /\ reader' = [reader EXCEPT ![r] = [kept |-> Committed, refresh |-> NoRefresh]]
  /\ UNCHANGED server

-----------------------------------------------------------------------------
Reading(r) == StartRefresh(r) \/ FetchPage(r) \/ RefreshFails(r) \/ ResetSyncState(r)

Next ==
  \/ Activity
  \/ reset
  \/ Restart
  \/ \E r \in NoteRequests : PostNote(r) \/ RefuseNote(r)
  \/ \E r \in Readers : Reading(r)

Spec == Init /\ [][Next]_feed_vars

(* The dashboard refreshes every few seconds, the requests for its k-th page do
   not fail for ever, and its operator does not sign in anew for ever. *)
FairSpec ==
  /\ Spec
  /\ <>[][\A r \in Readers : ~ResetSyncState(r)]_feed_vars
  /\ \A r \in Readers :
       /\ WF_feed_vars(StartRefresh(r))
       /\ \A k \in 1..MAX_SYNC_PAGES :
            SF_feed_vars(reader[r].refresh.page = k /\ FetchPage(r))
-----------------------------------------------------------------------------
Sequences(history) == {e.sequence : e \in history}

UpTo(history, cursor) ==
  \A s \in 1..cursor :
    s \notin Sequences(history) => \A t \in Sequences(history) : s < t

(* The logs and what a reader keeps of them are ascending, bounded and not
   ahead of the counters that number them. *)
FeedTypeOK ==
  /\ Len(events) <= MAX_EVENTS /\ Len(audit) <= MAX_AUDIT_ENTRIES
  /\ \A k \in 1..Len(events) : events[k].sequence = event_sequence - Len(events) + k
  /\ \A k \in 1..Len(audit) : audit[k].sequence = audit_sequence - Len(audit) + k
  /\ \A r \in Readers : LET kept == reader[r].kept IN
       /\ Cardinality(kept.history.events) <= MAX_HISTORY_RECORDS
       /\ Cardinality(kept.history.audit) <= MAX_HISTORY_RECORDS

(* A reader has no gaps: from the oldest entry it shows up to its cursor it has
   every sequence number, whatever was trimmed, reset or written while it was
   paging. *)
GaplessHistory ==
  \A r \in Readers : LET kept == reader[r].kept IN
    /\ UpTo(kept.history.events, kept.cursors.events)
    /\ UpTo(kept.history.audit, kept.cursors.audit)
    /\ \A s \in Sequences(kept.history.events) : s <= kept.cursors.events
    /\ \A s \in Sequences(kept.history.audit) : s <= kept.cursors.audit

(* A reader tells one story: entries of two Teamserver processes are never
   shown together, nor events from before a lab.reset with that reset. *)
OneStory ==
  \A r \in Readers : LET kept == reader[r].kept IN
    /\ \A e \in kept.history.events \cup kept.history.audit : e.stream = kept.stream
    /\ \A e \in kept.history.events : e.kind = "lab.reset" =>
         \A d \in kept.history.events : d.sequence >= e.sequence

(* A page that announces more moves the cursor: the dashboard's check against
   a cursor that stands still never fires, whatever happens between two
   pages. *)
PagesAdvance ==
  \A r \in Readers : reader[r].refresh # NoRefresh =>
    LET state == reader[r].refresh.state
        page  == sync(state.cursors)
    IN ~StreamChanged(state) =>
         /\ page.events.more => page.events.cursor # state.cursors.events
         /\ page.audit.more => page.audit.cursor # state.cursors.audit

(* Once the writers pause, every reader has the whole retained feed. *)
UpToDate(r) ==
  LET kept == reader[r].kept
  IN /\ kept.stream = stream
     /\ Range(events) \subseteq kept.history.events
     /\ Range(audit) \subseteq kept.history.audit

ReadersCatchUp == \A r \in Readers : <>[]UpToDate(r)

-----------------------------------------------------------------------------
(* A retried note converges: every retained note that was posted with a key is
   found under it, though the key table is bounded and keys of notes that have
   left the feed still take up its places; no key has two retained notes. *)
KeysFindTheirNotes ==
  /\ \A e \in RetainedNotes : e.key # NoKey =>
       e.key \in DOMAIN note_idempotency /\ note_idempotency[e.key].event = e.sequence
  /\ \A d, e \in RetainedNotes : d.key # NoKey /\ d.key = e.key => d = e

(* Notes and keys stay within MAX_OPERATOR_NOTES_RETAINED. *)
NotesWithinLimit ==
  /\ Cardinality(RetainedNotes) <= MAX_OPERATOR_NOTES_RETAINED
  /\ Cardinality(DOMAIN note_idempotency) <= MAX_OPERATOR_NOTES_RETAINED

(* The logs are ascending and bounded, what a reader commits has no gaps, and a
   page that announces more moves its cursor (sync and the dashboard's refresh). *)
FeedInv == FeedTypeOK /\ GaplessHistory /\ PagesAdvance

(* Within the limits of post_operator_note, a retained keyed note is found. *)
NotesInv == NotesWithinLimit /\ KeysFindTheirNotes
=============================================================================
