\* Three threads of two server processes, the lock of a mail and that of the
\* blacklist.
CONSTANTS
  t1 = t1  t2 = t2  t3 = t3
  Thread = {t1, t2, t3}
  Server <- TwoServers
  File = {f1, f2}
  MailFile = {f1}
  Inode = {i1, i2, i3, i4, i5}
  NoFile = NoFile
  NoInode = NoInode
  MaxCrashes = 1
SPECIFICATION FairSpec
INVARIANTS TypeOK LeftoversArchived ReleasedIsUnlinked
PROPERTIES WaitersServed
