\* Two pages, a connection that is lost up to twice (the third one reaches a
\* controller without the container) and two changes during the search.
SPECIFICATION Spec
CONSTANTS
  N = 3
  Names = {n1, n2, n3, n4}
  PageSize = 2
  MaxAttempts = 3
  Holding = {1, 2}
  None = None
  MaxConns = 3
  MaxChanges = 2
CHECK_DEADLOCK FALSE
INVARIANT TypeOK
INVARIANT CookieFromThisConnection
INVARIANT OncePerName
INVARIANT NothingMissed
PROPERTY Terminates
