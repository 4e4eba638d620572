\* A sender and two sessions of the user compete for a mail; the server may crash.
CONSTANTS
  Sender = {s1}
  Owner = {o1, o2}
  Mail = {m1}
  Inode = {i1, i2, i3, i4}
  NoInode = NoInode
  NoMail = NoMail
  Attachments = 1
  MaxCrashes = 1
SPECIFICATION FairSpec
INVARIANTS AckedComplete
PROPERTIES LocksImplemented OperationsEnd
