\* A DEL in the middle of a SEND.
CONSTANTS
  Sender = {s1}
  Owner = {o1}
  Mail = {m1}
  Inode = {i1, i2, i3}
  NoInode = NoInode
  NoMail = NoMail
  Attachments = 1
  MaxCrashes = 0
SPECIFICATION Spec
INVARIANTS AckedStored
