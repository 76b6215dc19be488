SPECIFICATION RecordsSpec
CONSTANTS
  Garbage = Garbage
  Columns <- Tables
  Layout <- Layouts
  Length <- LengthOf
  Queries <- AllQueries
INVARIANT TypeOK
INVARIANT RunsWhatWasAsked
INVARIANT ListsKept
INVARIANT RowReadsBack
CHECK_DEADLOCK FALSE
