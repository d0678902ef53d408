\* Two request threads of the web page, two expiries of NapCat's session.
CONSTANTS
  Thread = {"t1", "t2"}
  MaxSession = 3
SPECIFICATION LiveQSpec
INVARIANTS
  QTypeOK
  RejectedOnlyIfExpired
  OneLoginPerSession
PROPERTY LockIsFreed
