SPECIFICATION FairSpec
CONSTANTS
  k1 = k1
  k2 = k2
  NoKey = NoKey
  MAX_EVENTS = 2
  MAX_AUDIT_ENTRIES = 2
  MAX_OPERATOR_NOTES_RETAINED = 1
  SYNC_PAGE_SIZE = 1
  MAX_SYNC_PAGES = 2
  MAX_HISTORY_RECORDS = 2
  NoteRequests <- Notes
  Readers = {1}
  MaxSequence = 4
  MaxStreams = 2
INVARIANTS
  FeedInv
  OneStory
  NotesInv
PROPERTIES
  ReadersCatchUp
