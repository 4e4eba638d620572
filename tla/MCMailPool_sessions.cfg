\* A sender and two sessions of the user, two mails.
CONSTANTS
  Sender = {s1}
  Owner = {o1, o2}
  Mail = {m1, m2}
  Inode = {i1, i2, i3, i4, i5}
  NoInode = NoInode
  NoMail = NoMail
  Attachments = 1
  MaxCrashes = 0
SPECIFICATION Spec
SYMMETRY Interchangeable
INVARIANTS TypeOK DeletedOnce AckedShown QuiescentReadable
PROPERTIES MailboxImplemented FailsWithReason
