\* Two threads and one lock file are enough for two holders.
CONSTANTS
  t1 = t1  t2 = t2  t3 = t3
  Thread = {t1, t2}
  Server = {}
  File = {f1, f2}
  MailFile = {f1}
  Inode = {i1, i2, i3, i4}
  NoFile = NoFile
  NoInode = NoInode
  MaxCrashes = 0
SPECIFICATION Spec
INVARIANTS MutualExclusion
