\* One worker, one socket of the sender, failing writes, retries.
CONSTANTS
  Recipients = {bob}
  Sockets = {s1}
  Workers = {w1}
  Attempts = 3
  MaxJobs = 3
  MayFail = TRUE
  None = None
SPECIFICATION FairSpec
INVARIANTS RecordedOrOwed SenderNeverAhead
PROPERTIES ReadIsServed
