\* Two senders and two receivers on a channel of one place, closed at any time.
\* An owner and two thieves; a capacity of 1 wraps around and grows twice.
CONSTANTS
  Senders = {s1, s2}
  Receivers = {r1, r2}
  Closer = closer
  Capacity = 1
  MaxSends = 3
  Nobody = Nobody
  Owner = owner
  Thieves = {p1, p2}
  InitCap = 1
  MaxPush = 3
  Torn = Torn
SPECIFICATION MCSpec
INVARIANTS
  NoLostWakeup
  CloseWakesAll
  ContentInv
  ReturnedOnce
  WinnerHoldsTop
PROPERTIES
  ImplementsFifoChannel
  BlockedCallsEnd
  ImplementsWorkDeque
