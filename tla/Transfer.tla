------------------------------ MODULE Transfer ------------------------------
(***************************************************************************)
(* The attachments of a mail on their way over the connection, byte by      *)
(* byte: c_sendattachment and readbytesfull on the way to the server, att   *)
(* and c_saveattachments on the way back.  One side writes the name, the    *)
(* size and the contents of each file, the contents in chunks; the other    *)
(* side reads what has come so far.  ClientServer says when both do so, and *)
(* takes contents as one item.  Sizes fit the int that readbytesfull takes. *)
(***************************************************************************)
EXTENDS Integers, Sequences

CONSTANTS
  Name, Byte,
  Files,      \* the attachments that are sent, in this order
  WriteMax,   \* bytes of one write (MAXCHUNK; the server writes a whole file)
  ReadMax     \* bytes asked for by one read (MAXCHUNK; the server asks for all)

File == [name : Name, bytes : Seq(Byte)]

ASSUME TransferAssumption ==
  /\ Files \in Seq(File)
  /\ WriteMax \in Nat \ {0} /\ ReadMax \in Nat \ {0}

VARIABLES
  wire,          \* places of files that are written and not yet read
  file, written, \* the writer's file, and how much of it is written
  stage,         \* what the reader reads
  name, size,    \* filename and filesize
  bytes,         \* contents of the file so far
  received       \* attachments that are complete

writer == <<file, written>>
reader == <<stage, name, size, bytes, received>>
vars == <<wire, writer, reader>>

-----------------------------------------------------------------------------
(* A file on the wire: its first place is the name, the second the size (8   *)
(* bytes, always written and read at once), the others are its bytes.        *)

Size(f) == Len(Files[f].bytes)

Places(f) == IF f = 0 THEN 0 ELSE 2 + Size(f)

Place == {p \in [file : 1..Len(Files), at : Nat] : p.at \in 1..Places(p.file)}

Value(p) ==
  CASE p.at = 1 -> Files[p.file].name
    [] p.at = 2 -> Size(p.file)
    [] OTHER -> Files[p.file].bytes[p.at - 2]

Least(m, n) == IF m < n THEN m ELSE n

TypeOK ==
  /\ wire \in Seq(Place)
  /\ file \in 0..Len(Files) /\ written \in 0..Places(file)
  /\ stage \in {"name", "size", "data"}
  /\ name \in Name /\ size \in Nat /\ bytes \in Seq(Byte)
  /\ received \in Seq(File)

Init ==
  /\ wire = <<>> /\ file = 0 /\ written = 0
  /\ stage = "name" /\ name \in Name /\ size = 0 /\ bytes = <<>>
  /\ received = <<>>

-----------------------------------------------------------------------------
(* The writer.                                                               *)

Writes(f, n) ==
  LET done == IF f = file THEN written ELSE 0
  IN  /\ file' = f /\ written' = done + n
      /\ wire' = wire \o [i \in 1..n |-> [file |-> f, at |-> done + i]]
      /\ UNCHANGED reader

WriteName == written = Places(file) /\ file < Len(Files) /\ Writes(file + 1, 1)

WriteSize == written = 1 /\ Writes(file, 1)

\* fread fills its buffer, but at the end of the file.
WriteChunk ==
  /\ written >= 2 /\ written < Places(file)
  /\ Writes(file, Least(WriteMax, Places(file) - written))

Write == WriteName \/ WriteSize \/ WriteChunk

-----------------------------------------------------------------------------
(* The reader.                                                               *)

ReadName ==
  /\ stage = "name" /\ wire # <<>>
  /\ name' = Value(Head(wire)) /\ wire' = Tail(wire)
  /\ stage' = "size" /\ bytes' = <<>>
  /\ UNCHANGED <<writer, size, received>>

ReadSize ==
  /\ stage = "size" /\ wire # <<>>
  /\ size' = Value(Head(wire)) /\ wire' = Tail(wire)
  /\ stage' = "data"
  /\ UNCHANGED <<writer, name, bytes, received>>

Takes(n) ==
  /\ bytes' = bytes \o [i \in 1..n |-> Value(wire[i])]
  /\ wire' = SubSeq(wire, n + 1, Len(wire))
  /\ UNCHANGED <<writer, stage, name, size, received>>

\* Mutant of ReadChunk: every read asks for a full chunk.
ReadFullChunk ==
  /\ stage = "data" /\ Len(bytes) < size
  /\ \E n \in 1..Least(ReadMax, Len(wire)) : Takes(n)

\* chunk_to_read: what is missing, up to a limit.  A read returns what has come,
\* or a part of it, and does not wait for more.
ReadChunk ==
  /\ stage = "data" /\ Len(bytes) < size
  /\ \E n \in 1..Least(Least(ReadMax, size - Len(bytes)), Len(wire)) : Takes(n)

\* Mutant of CloseFile: an empty file is never complete.
CloseNonempty ==
  /\ stage = "data" /\ Len(bytes) >= size /\ size > 0
  /\ stage' = "name" /\ received' = Append(received, [name |-> name, bytes |-> bytes])
  /\ UNCHANGED <<wire, writer, name, size, bytes>>

\* The file is complete: it is closed, or becomes an attachment of the mail.
CloseFile ==
  /\ stage = "data" /\ Len(bytes) >= size
  /\ stage' = "name" /\ received' = Append(received, [name |-> name, bytes |-> bytes])
  /\ UNCHANGED <<wire, writer, name, size, bytes>>

Read == ReadName \/ ReadSize \/ ReadChunk \/ CloseFile

-----------------------------------------------------------------------------

Next == Write \/ Read

Spec == Init /\ [][Next]_vars

\* Both sides are scheduled, and the connection delivers.
FairSpec == Spec /\ WF_vars(Write) /\ WF_vars(Read)

-----------------------------------------------------------------------------
(* Properties.                                                               *)

\* Whatever the writes and reads are cut into, the files arrive one by one, each
\* under its name and with its contents: no byte of one ends up in another.
OneByOne ==
  [][received' = Append(received, Files[Len(received) + 1])]_received

\* All of them arrive.
AllArrive == <>(received = Files)

=============================================================================
