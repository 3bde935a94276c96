\* Two jobs, a page that shows the second, and one upset: a request that fails, a reload,
\* a deletion or a sign-out.
CONSTANTS
  Job = {1, 2}
  Paged = {2}
  MaxUpsets = 1
  NoJob = 0
SPECIFICATION FairSpec
INVARIANT RecordedOnce
PROPERTIES LostIsGone DeletedStays RunsAreSettled
CHECK_DEADLOCK FALSE
