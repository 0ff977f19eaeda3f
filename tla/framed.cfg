SPECIFICATION FairSpec
CONSTANTS
  Answer = Answer
  Fault = Fault
  u1 = u1
  u2 = u2
  NoCall = NoCall
  Types = {Answer, Fault}
  Labels = {u1, u2}
  Requests <- MCRequests
  Calls = {c1, c2}
  MaxFrames = 2
INVARIANTS TypeOK ExactlyOnce NoOvertaking NoMissedFrame NoMissedExpiry
PROPERTIES TimeoutOnlyWhenNothingQualifies EveryGoroutineEnds ImplementsMailbox
