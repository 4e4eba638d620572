---------------------------- MODULE TransferProofs ----------------------------
(***************************************************************************)
(* Theorems about Transfer, for any files, empty ones included, and any     *)
(* limits of a write and of a read.                                         *)
(***************************************************************************)
EXTENDS Transfer, TLAPS

Pos(f, k) == [file |-> f, at |-> k]

\* The place that follows place k of file f.
After(f, k) == IF k < Places(f) THEN Pos(f, k + 1) ELSE Pos(f + 1, 1)

\* The last place that has been read.
Reading == IF stage = "name" THEN Len(received) ELSE Len(received) + 1

Have == IF stage = "name" THEN Places(Len(received))
        ELSE IF stage = "size" THEN 1 ELSE 2 + Len(bytes)

\* From one place on the wire, the rest of its file follows.
Runs ==
  /\ \A j \in 1..Len(wire) :
       j < Len(wire) => wire[j + 1] = After(wire[j].file, wire[j].at)
  /\ \A j, l \in 1..Len(wire) :
       j <= l /\ wire[j].at + (l - j) <= Places(wire[j].file)
         => wire[l] = Pos(wire[j].file, wire[j].at + (l - j))

\* The wire begins after what has been read and ends with what has been written.
Ends ==
  /\ wire = <<>> => file = Reading /\ written = Have
  /\ wire # <<>> => /\ wire[1] = After(Reading, Have)
                    /\ wire[Len(wire)] = Pos(file, written)

\* What the reader has of its file is right.
Right ==
  /\ Len(received) <= Len(Files)
  /\ stage # "name" => Len(received) < Len(Files) /\ name = Files[Reading].name
  /\ stage = "data" =>
       /\ size = Size(Reading) /\ Len(bytes) <= size
       /\ \A i \in 1..Len(bytes) : bytes[i] = Files[Reading].bytes[i]
  /\ stage = "size" => bytes = <<>>

Started == (file = 0 <=> written = 0)

TransferInv == TypeOK /\ Runs /\ Ends /\ Right /\ Started

-----------------------------------------------------------------------------

LEMMA LengthTyped == Len(Files) \in Nat
BY TransferAssumption

LEMMA Joined ==
  ASSUME NEW S, NEW s \in Seq(S), NEW t \in Seq(S)
  PROVE  /\ s \o t \in Seq(S) /\ Len(s \o t) = Len(s) + Len(t)
         /\ \A i \in 1..Len(s) : (s \o t)[i] = s[i]
         /\ \A i \in 1..Len(t) : (s \o t)[Len(s) + i] = t[i]
OBVIOUS

LEMMA Rested ==
  ASSUME NEW S, NEW s \in Seq(S), NEW n \in 1..Len(s)
  PROVE  /\ SubSeq(s, n + 1, Len(s)) \in Seq(S)
         /\ Len(SubSeq(s, n + 1, Len(s))) = Len(s) - n
         /\ \A i \in 1..(Len(s) - n) : SubSeq(s, n + 1, Len(s))[i] = s[n + i]
OBVIOUS

LEMMA SizeTyped ==
  \A f \in 1..Len(Files) :
    Files[f] \in File /\ Size(f) \in Nat /\ Places(f) = 2 + Size(f) /\ f # 0
<1> TAKE f \in 1..Len(Files)
<1>1. Files[f] \in File
  BY TransferAssumption
<1>2. Files[f].bytes \in Seq(Byte)
  BY <1>1 DEF File
<1>3. Size(f) \in Nat
  BY <1>2 DEF Size
<1>4. f # 0
  BY LengthTyped
<1> QED BY <1>1, <1>3, <1>4 DEF Places

LEMMA PlacesTyped == \A f \in 0..Len(Files) : Places(f) \in Nat
BY SizeTyped DEF Places

LEMMA PositionTyped ==
  ASSUME TypeOK, Right
  PROVE  Reading \in 0..Len(Files) /\ Have \in Nat /\ Len(received) \in Nat
BY PlacesTyped, LengthTyped DEF TypeOK, Right, Reading, Have

\* Writing the places that follow keeps the wire as it should be.
LEMMA Written ==
  ASSUME TransferInv, NEW f \in 1..Len(Files), NEW n \in Nat, n >= 1, Writes(f, n),
         \/ f = file /\ written >= 1 /\ written + n <= Places(f)
         \/ f = file + 1 /\ n = 1 /\ written = Places(file)
  PROVE  TransferInv'
<1> DEFINE done == IF f = file THEN written ELSE 0
           new == [i \in 1..n |-> Pos(f, done + i)]
           w == Len(wire)
<1>1. wire \in Seq(Place) /\ file \in 0..Len(Files)
  BY DEF TransferInv, TypeOK
<1>2. /\ w \in Nat /\ written \in Nat /\ file \in Nat /\ Len(Files) \in Nat /\ f \in Nat
      /\ Places(file) \in Nat /\ Places(f) \in Nat /\ Places(f) >= 2
      /\ n \in Nat /\ n >= 1
  BY <1>1, PlacesTyped, SizeTyped, LengthTyped DEF TransferInv, TypeOK
<1>3. file' = f /\ wire' = wire \o new /\ UNCHANGED reader
  BY DEF Writes, Pos
<1>4. /\ f # file => n = 1 /\ f = file + 1 /\ written = Places(file) /\ done = 0
      /\ f = file => written >= 1 /\ written + n <= Places(f) /\ done = written
  BY <1>2
<1>5. /\ written' = done + n /\ done \in Nat /\ done + n <= Places(f)
      /\ written' \in 1..Places(f)
  <2>1. written' = done + n
    BY DEF Writes
  <2> QED BY <1>2, <1>4, <2>1
<1>6. \A i \in 1..n : new[i] = Pos(f, done + i) /\ new[i] \in Place
  <2> TAKE i \in 1..n
  <2>1. done + i \in Nat /\ done + i \in 1..Places(f)
    BY <1>2, <1>5
  <2>2. Pos(f, done + i) \in Place
    BY <2>1 DEF Place, Pos
  <2> QED BY <2>2
<1>7. new \in Seq(Place) /\ Len(new) = n
  BY <1>2, <1>6
<1> HIDE DEF new, done
<1>8. /\ wire' \in Seq(Place) /\ Len(wire') = w + n
      /\ \A i \in 1..w : wire'[i] = wire[i]
      /\ \A i \in 1..n : wire'[w + i] = new[i]
  <2>1. /\ wire \o new \in Seq(Place) /\ Len(wire \o new) = w + n
        /\ \A i \in 1..w : (wire \o new)[i] = wire[i]
        /\ \A i \in 1..n : (wire \o new)[w + i] = new[i]
    <3>1. \A s, t \in Seq(Place) :
            /\ s \o t \in Seq(Place) /\ Len(s \o t) = Len(s) + Len(t)
            /\ \A i \in 1..Len(s) : (s \o t)[i] = s[i]
            /\ \A i \in 1..Len(t) : (s \o t)[Len(s) + i] = t[i]
      BY Joined
    <3> QED BY <1>1, <1>7, <3>1
  <2> QED BY <1>3, <2>1
<1>9. Len(wire') = w + n /\ Len(wire') \in Nat /\ \A i \in 1..w : wire'[i] = wire[i]
  BY <1>2, <1>8
<1> HIDE DEF w
<1>10. ASSUME NEW i \in (w + 1)..(w + n)
       PROVE  wire'[i] = Pos(f, done + (i - w))
  <2>1. i - w \in 1..n /\ w + (i - w) = i
    BY <1>2
  <2>2. wire'[w + (i - w)] = new[i - w]
    BY <1>8, <2>1
  <2> QED BY <1>6, <2>1, <2>2
<1>11. Reading' = Reading /\ Have' = Have /\ After(Reading, Have)' = After(Reading, Have)
  BY <1>3 DEF Reading, Have, After, Places, Size, reader
<1>12. TypeOK'
  BY <1>3, <1>5, <1>8 DEF TransferInv, TypeOK, reader, Places, Size
<1>13. Right' /\ Started'
  BY <1>2, <1>3, <1>5, <1>11 DEF TransferInv, Right, Started, reader, Size
<1>14. w # 0 => wire[w] = Pos(file, written)
  BY <1>1 DEF TransferInv, Ends, w
<1>15. Pos(f, done + 1) = After(file, written)
  BY <1>2, <1>4 DEF After
<1>16. wire'[w + n] = Pos(f, written')
  <2>1. w + n \in (w + 1)..(w + n) /\ done + ((w + n) - w) = written'
    BY <1>2, <1>5
  <2> QED BY <1>10, <2>1
<1>17. wire'[w + 1] = Pos(f, done + 1)
  <2>1. w + 1 \in (w + 1)..(w + n) /\ (w + 1) - w = 1
    BY <1>2
  <2> QED BY <1>10, <2>1
<1>18. Ends'
  <2>1. wire' # <<>>
    BY <1>2, <1>9
  <2>2. wire'[1] = After(Reading, Have)
    <3>1. CASE w = 0
      <4>1. wire = <<>>
        BY <1>1, <3>1 DEF w
      <4> QED BY <1>2, <1>15, <1>17, <3>1, <4>1 DEF TransferInv, Ends
    <3>2. CASE w # 0
      <4>1. wire # <<>> /\ 1 \in 1..w
        BY <1>2, <3>2 DEF w
      <4> QED BY <1>9, <4>1 DEF TransferInv, Ends
    <3> QED BY <3>1, <3>2
  <2>3. wire'[Len(wire')] = Pos(file', written')
    BY <1>3, <1>9, <1>16
  <2> QED BY <1>11, <2>1, <2>2, <2>3 DEF Ends, Pos
<1>19. ASSUME NEW j \in 1..(w + n - 1)
       PROVE  wire'[j + 1] = After(wire'[j].file, wire'[j].at)
  <2>1. CASE j < w
    <3>1. j \in 1..(w - 1) /\ j \in 1..w /\ j + 1 \in 1..w
      BY <1>2, <2>1
    <3>2. wire[j + 1] = After(wire[j].file, wire[j].at)
      BY <3>1, SMTT(20) DEF TransferInv, Runs, w
    <3> QED BY <1>9, <3>1, <3>2
  <2>2. CASE j = w
    <3>1. w # 0 /\ w \in 1..w
      BY <1>2, <2>2
    <3>2. wire'[j] = Pos(file, written)
      BY <1>9, <1>14, <2>2, <3>1
    <3> QED BY <1>15, <1>17, <2>2, <3>2 DEF Pos
  <2>3. CASE j > w
    <3>1. /\ j \in (w + 1)..(w + n) /\ j + 1 \in (w + 1)..(w + n)
          /\ done + (j - w) < Places(f)
          /\ done + ((j + 1) - w) = done + (j - w) + 1
      BY <1>2, <1>5, <2>3
    <3>2. wire'[j] = Pos(f, done + (j - w)) /\ wire'[j + 1] = Pos(f, done + (j - w) + 1)
      BY <1>10, <3>1
    <3> QED BY <3>1, <3>2 DEF After, Pos
  <2> QED BY <1>2, <2>1, <2>2, <2>3
<1>20. ASSUME NEW j \in 1..(w + n), NEW l \in 1..(w + n), j <= l,
              wire'[j].at + (l - j) <= Places(wire'[j].file)
       PROVE  wire'[l] = Pos(wire'[j].file, wire'[j].at + (l - j))
  <2>0. j <= l
    BY <1>20
  <2>1. CASE l <= w
    <3>1. j \in 1..w /\ l \in 1..w
      BY <1>2, <1>20, <2>1
    <3> QED BY <1>9, <1>20, <3>1 DEF TransferInv, Runs, w
  <2>2. CASE j > w
    <3>1. /\ j \in (w + 1)..(w + n) /\ l \in (w + 1)..(w + n)
          /\ done + (l - w) = done + (j - w) + (l - j)
      BY <1>2, <1>5, <2>0, <2>2
    <3>2. wire'[j] = Pos(f, done + (j - w)) /\ wire'[l] = Pos(f, done + (l - w))
      BY <1>10, <3>1
    <3> QED BY <3>1, <3>2 DEF Pos
  <2>3. CASE j <= w /\ l > w
    <3>1. j \in 1..w /\ w \in 1..w /\ l \in (w + 1)..(w + n)
      BY <1>2, <2>3
    <3>2. wire[j] \in Place /\ wire'[j] = wire[j]
      BY <1>1, <1>9, <3>1 DEF w
    <3>3. wire[j].at \in Nat /\ Places(wire[j].file) \in Nat
      BY <1>2, <3>2, PlacesTyped DEF Place
    <3>4. wire[j].at + (w - j) <= Places(wire[j].file)
      BY <1>2, <1>20, <2>3, <3>1, <3>2, <3>3
    <3>5. wire[w] = Pos(wire[j].file, wire[j].at + (w - j))
      BY <2>3, <3>1, <3>4 DEF TransferInv, Runs, w
    <3>6. wire[j].file = file /\ wire[j].at + (w - j) = written
      BY <1>2, <1>14, <2>3, <3>1, <3>5, SMTT(20) DEF Pos
    <3>7. f = file
      BY <1>2, <1>4, <1>20, <2>3, <3>1, <3>2, <3>3, <3>6
    <3>8. wire'[l] = Pos(file, written + (l - w)) /\ written + (l - w) = wire[j].at + (l - j)
      <4>1. done + (l - w) = written + (l - w) /\ written + (l - w) = wire[j].at + (l - j)
        BY <1>2, <1>4, <3>1, <3>3, <3>6, <3>7, SMTT(20)
      <4> QED BY <1>10, <3>1, <3>7, <4>1
    <3> QED BY <3>2, <3>6, <3>8
  <2> QED BY <1>2, <2>1, <2>2, <2>3
<1>21. Runs'
  <2>1. ASSUME NEW j \in 1..Len(wire'), j < Len(wire')
        PROVE  wire'[j + 1] = After(wire'[j].file, wire'[j].at)
    <3>1. j \in 1..(w + n - 1)
      BY <1>2, <1>9, <2>1
    <3> QED BY <1>19, <3>1
  <2>2. \A j, l \in 1..Len(wire') :
          j <= l /\ wire'[j].at + (l - j) <= Places(wire'[j].file)
            => wire'[l] = Pos(wire'[j].file, wire'[j].at + (l - j))
    BY <1>9, <1>20
  <2> QED BY <2>1, <2>2 DEF Runs, After, Places, Size, Pos
<1> QED BY <1>12, <1>13, <1>18, <1>21 DEF TransferInv

LEMMA WritePreserves == TransferInv /\ Write => TransferInv'
<1> SUFFICES ASSUME TransferInv, Write PROVE TransferInv'
  OBVIOUS
<1>1. /\ file \in 0..Len(Files) /\ written \in Nat /\ Len(Files) \in Nat
      /\ Places(file) \in Nat
      /\ file \in 1..Len(Files) => Places(file) >= 2
  BY PlacesTyped, SizeTyped, LengthTyped DEF TransferInv, TypeOK
<1>2. CASE WriteName
  BY <1>1, <1>2, Written DEF WriteName
<1>3. CASE WriteSize
  <2>1. file \in 1..Len(Files)
    BY <1>1, <1>3 DEF WriteSize, TransferInv, Started
  <2>2. written >= 1 /\ written + 1 <= Places(file) /\ Writes(file, 1)
    BY <1>1, <1>3, <2>1 DEF WriteSize
  <2> QED BY <2>1, <2>2, Written
<1>4. CASE WriteChunk
  <2>1. file \in 1..Len(Files)
    BY <1>1, <1>4 DEF WriteChunk, TransferInv, Started
  <2>2. /\ Least(WriteMax, Places(file) - written) \in Nat
        /\ Least(WriteMax, Places(file) - written) >= 1
        /\ written + Least(WriteMax, Places(file) - written) <= Places(file)
    BY <1>1, <1>4, TransferAssumption DEF WriteChunk, Least
  <2>3. written >= 1 /\ Writes(file, Least(WriteMax, Places(file) - written))
    BY <1>1, <1>4 DEF WriteChunk
  <2> QED BY <2>1, <2>2, <2>3, Written
<1> QED BY <1>2, <1>3, <1>4 DEF Write

-----------------------------------------------------------------------------
(* The reader.                                                               *)

\* Taking the first n places off the wire keeps the rest as it should be.
LEMMA Taken ==
  ASSUME TransferInv, NEW n \in 1..Len(wire), UNCHANGED writer,
         wire' = SubSeq(wire, n + 1, Len(wire)), wire[n] = Pos(Reading, Have)'
  PROVE  wire' \in Seq(Place) /\ Runs' /\ Ends'
<1> DEFINE w == Len(wire)
           rest == SubSeq(wire, n + 1, w)
<1>1. wire \in Seq(Place)
  BY DEF TransferInv, TypeOK
<1>2. w \in Nat /\ n \in Nat /\ 1 <= n /\ n <= w
  BY <1>1
<1>3. /\ rest \in Seq(Place) /\ Len(rest) = w - n
      /\ \A i \in 1..(w - n) : rest[i] = wire[n + i]
  BY <1>1, Rested
<1>4. wire' = rest /\ file' = file /\ written' = written
  BY DEF writer
<1>5. \A j \in 1..w : wire[j] \in Place
  BY <1>1
<1> HIDE DEF w, rest
<1>6. Runs'
  <2>1. ASSUME NEW j \in 1..(w - n), j < w - n
        PROVE  rest[j + 1] = After(rest[j].file, rest[j].at)
    <3>1. n + j \in 1..w /\ n + j < w /\ n + (j + 1) = (n + j) + 1 /\ j + 1 \in 1..(w - n)
      BY <1>2, <2>1
    <3>2. wire[(n + j) + 1] = After(wire[n + j].file, wire[n + j].at)
      BY <3>1 DEF TransferInv, Runs, w
    <3> QED BY <1>3, <3>1, <3>2
  <2>2. ASSUME NEW j \in 1..(w - n), NEW l \in 1..(w - n), j <= l,
               rest[j].at + (l - j) <= Places(rest[j].file)
        PROVE  rest[l] = Pos(rest[j].file, rest[j].at + (l - j))
    <3>1. j <= l
      BY <2>2
    <3>2. n + j \in 1..w /\ n + l \in 1..w /\ n + j <= n + l /\ (n + l) - (n + j) = l - j
      BY <1>2, <3>1
    <3>3. rest[j] = wire[n + j] /\ rest[l] = wire[n + l]
      BY <1>3
    <3>4. wire[n + j].at + ((n + l) - (n + j)) <= Places(wire[n + j].file)
      BY <2>2, <3>2, <3>3
    <3>5. wire[n + l] = Pos(wire[n + j].file, wire[n + j].at + ((n + l) - (n + j)))
      BY <3>2, <3>4 DEF TransferInv, Runs, w
    <3> QED BY <3>2, <3>3, <3>5
  <2>3. /\ \A j \in 1..Len(rest) :
             j < Len(rest) => rest[j + 1] = After(rest[j].file, rest[j].at)
        /\ \A j, l \in 1..Len(rest) :
             j <= l /\ rest[j].at + (l - j) <= Places(rest[j].file)
               => rest[l] = Pos(rest[j].file, rest[j].at + (l - j))
    BY <1>3, <2>1, <2>2
  <2> QED BY <1>4, <2>3 DEF Runs, After, Places, Size, Pos
<1>7. wire[w] = Pos(file, written)
  <2>1. wire # <<>>
    BY <1>1, <1>2 DEF w
  <2> QED BY <2>1 DEF TransferInv, Ends, w
<1>8. Ends'
  <2>1. CASE n = w
    <3>1. rest = <<>>
      BY <1>2, <1>3, <2>1
    <3>2. file = Reading' /\ written = Have'
      BY <1>7, <2>1 DEF Pos
    <3> QED BY <1>4, <3>1, <3>2 DEF Ends
  <2>2. CASE n # w
    <3>1. /\ n \in 1..w /\ n < w /\ w - n \in 1..(w - n) /\ 1 \in 1..(w - n)
          /\ n + (w - n) = w
      BY <1>2, <2>2
    <3>2. rest # <<>>
      BY <1>2, <1>3, <3>1
    <3>3. rest[1] = wire[n + 1] /\ rest[Len(rest)] = wire[w]
      BY <1>3, <3>1
    <3>4. wire[n + 1] = After(wire[n].file, wire[n].at)
      BY <3>1 DEF TransferInv, Runs, w
    <3>5. wire[n].file = Reading' /\ wire[n].at = Have'
      BY DEF Pos
    <3>6. rest[1] = After(Reading', Have')
      BY <3>3, <3>4, <3>5
    <3>7. rest[Len(rest)] = Pos(file, written)
      BY <1>7, <3>3
    <3> QED BY <1>4, <3>2, <3>6, <3>7 DEF Ends, After, Places, Size, Pos
  <2> QED BY <2>1, <2>2
<1> QED BY <1>3, <1>4, <1>6, <1>8

\* What is read next.
LEMMA Front ==
  ASSUME TransferInv, wire # <<>>
  PROVE  /\ Len(wire) \in Nat /\ 1 \in 1..Len(wire) /\ wire[1] \in Place
         /\ Head(wire) = wire[1] /\ Tail(wire) = SubSeq(wire, 2, Len(wire))
         /\ wire[1] = After(Reading, Have)
<1>1. wire \in Seq(Place)
  BY DEF TransferInv, TypeOK
<1>2. Len(wire) \in Nat /\ 1 \in 1..Len(wire) /\ wire[1] \in Place
  BY <1>1
<1>3. Head(wire) = wire[1] /\ Tail(wire) = SubSeq(wire, 2, Len(wire))
  BY <1>1
<1> QED BY <1>2, <1>3 DEF TransferInv, Ends

LEMMA ReadNamePreserves == TransferInv /\ ReadName => TransferInv'
<1> SUFFICES ASSUME TransferInv, ReadName PROVE TransferInv'
  OBVIOUS
<1>1. /\ stage = "name" /\ wire # <<>> /\ name' = Value(Head(wire)) /\ wire' = Tail(wire)
      /\ stage' = "size" /\ bytes' = <<>>
      /\ file' = file /\ written' = written /\ size' = size /\ received' = received
  BY DEF ReadName, writer
<1>2. Len(received) \in Nat /\ Len(received) <= Len(Files) /\ Len(Files) \in Nat
  BY LengthTyped DEF TransferInv, TypeOK, Right
<1>3. Reading = Len(received) /\ Have = Places(Len(received)) /\ Places(Len(received)) \in Nat
  BY <1>1, <1>2, PlacesTyped DEF Reading, Have
<1>4. Head(wire) = Pos(Len(received) + 1, 1)
  BY <1>1, <1>2, <1>3, Front DEF After
<1>5. Len(received) + 1 \in 1..Len(Files)
  BY <1>1, <1>4, Front DEF Place, Pos
<1>6. Reading' = Len(received) + 1 /\ Have' = 1
  BY <1>1 DEF Reading, Have
<1>7. name' = Files[Len(received) + 1].name /\ name' \in Name
  BY <1>1, <1>4, <1>5, SizeTyped DEF Value, Pos, File
<1>8. wire' \in Seq(Place) /\ Runs' /\ Ends'
  <2>1. wire[1] = Pos(Reading, Have)'
    BY <1>1, <1>4, <1>6, Front DEF Pos
  <2> QED BY <1>1, <2>1, Front, Taken DEF writer
<1>9. TypeOK'
  BY <1>1, <1>7, <1>8 DEF TransferInv, TypeOK, Places, Size
<1>10. Right' /\ Started'
  BY <1>1, <1>2, <1>5, <1>6, <1>7 DEF TransferInv, Right, Started
<1> QED BY <1>8, <1>9, <1>10 DEF TransferInv

LEMMA ReadSizePreserves == TransferInv /\ ReadSize => TransferInv'
<1> SUFFICES ASSUME TransferInv, ReadSize PROVE TransferInv'
  OBVIOUS
<1>1. /\ stage = "size" /\ wire # <<>> /\ size' = Value(Head(wire)) /\ wire' = Tail(wire)
      /\ stage' = "data" /\ bytes' = bytes /\ bytes = <<>>
      /\ file' = file /\ written' = written /\ name' = name /\ received' = received
  BY DEF ReadSize, writer, TransferInv, Right
<1> DEFINE f == Len(received) + 1
<1>2. f \in 1..Len(Files) /\ Size(f) \in Nat /\ Places(f) = 2 + Size(f)
  BY <1>1, LengthTyped, SizeTyped DEF TransferInv, TypeOK, Right
<1>3. Reading = f /\ Have = 1
  BY <1>1 DEF Reading, Have
<1> HIDE DEF f
<1>4. Head(wire) = Pos(f, 2)
  BY <1>1, <1>2, <1>3, Front DEF After
<1>5. size' = Size(f)
  BY <1>1, <1>4 DEF Value, Pos
<1>6. Reading' = f /\ Have' = 2
  BY <1>1 DEF Reading, Have, f
<1>7. wire' \in Seq(Place) /\ Runs' /\ Ends'
  <2>1. wire[1] = Pos(Reading, Have)'
    BY <1>1, <1>4, <1>6, Front DEF Pos
  <2> QED BY <1>1, <2>1, Front, Taken DEF writer
<1>8. TypeOK'
  BY <1>1, <1>2, <1>5, <1>7 DEF TransferInv, TypeOK, Places, Size
<1>9. Right' /\ Started'
  BY <1>1, <1>2, <1>3, <1>5, <1>6 DEF TransferInv, Right, Started, Size
<1> QED BY <1>7, <1>8, <1>9 DEF TransferInv

LEMMA ReadChunkPreserves == TransferInv /\ ReadChunk => TransferInv'
<1> SUFFICES ASSUME TransferInv, ReadChunk PROVE TransferInv'
  OBVIOUS
<1> DEFINE f == Len(received) + 1
           b == Len(bytes)
           w == Len(wire)
<1>1. /\ stage = "data" /\ b < size /\ size = Size(f)
      /\ \A i \in 1..b : bytes[i] = Files[f].bytes[i]
      /\ Reading = f /\ Have = 2 + b
  BY DEF ReadChunk, TransferInv, Right, Reading, Have
<1>2. /\ f \in 1..Len(Files) /\ Size(f) \in Nat /\ Places(f) = 2 + Size(f)
      /\ bytes \in Seq(Byte) /\ b \in Nat /\ wire \in Seq(Place) /\ w \in Nat
  BY <1>1, LengthTyped, SizeTyped DEF TransferInv, TypeOK, Right
<1>3. PICK n \in 1..Least(Least(ReadMax, size - b), w) : Takes(n)
  BY DEF ReadChunk
<1>4. n \in Nat /\ 1 <= n /\ n <= w /\ b + n <= size
  <2>1. ReadMax \in Nat /\ size - b \in Nat
    BY <1>1, <1>2, TransferAssumption
  <2>2. \A x, y, z \in Nat : \A k \in 1..Least(Least(x, y), z) :
          k \in Nat /\ 1 <= k /\ k <= y /\ k <= z
    BY DEF Least
  <2>3. n \in Nat /\ 1 <= n /\ n <= w /\ n <= size - b
    BY <1>2, <1>3, <2>1, <2>2
  <2> QED BY <1>1, <1>2, <2>3
<1> DEFINE new == [i \in 1..n |-> Value(wire[i])]
<1>5. /\ bytes' = bytes \o new /\ wire' = SubSeq(wire, n + 1, w)
      /\ file' = file /\ written' = written /\ stage' = stage /\ name' = name /\ size' = size
      /\ received' = received
  BY <1>3 DEF Takes, writer
<1> HIDE DEF f, b, w
<1>6. wire # <<>> /\ 1 \in 1..w
  BY <1>2, <1>4 DEF w
<1>7. ASSUME NEW i \in 1..n
      PROVE  wire[i] = Pos(f, 2 + b + i)
  <2>1. wire[1] = Pos(f, 2 + b + 1)
    BY <1>1, <1>2, <1>6, Front DEF After
  <2>2. 1 \in 1..w /\ i \in 1..w /\ 1 <= i /\ (2 + b + 1) + (i - 1) = 2 + b + i
        /\ (2 + b + 1) + (i - 1) <= Places(f)
    BY <1>1, <1>2, <1>4
  <2>3. wire[1].file = f /\ wire[1].at = 2 + b + 1
    BY <2>1 DEF Pos
  <2>4. wire[1].at + (i - 1) <= Places(wire[1].file)
    BY <2>2, <2>3
  <2>5. wire[i] = Pos(wire[1].file, wire[1].at + (i - 1))
    BY <2>2, <2>4 DEF TransferInv, Runs, w
  <2> QED BY <2>2, <2>3, <2>5
<1>8. ASSUME NEW i \in 1..n
      PROVE  /\ Value(wire[i]) = Files[f].bytes[b + i]
             /\ Files[f].bytes[b + i] \in Byte
  <2>1. 2 + b + i # 1 /\ 2 + b + i # 2 /\ (2 + b + i) - 2 = b + i /\ b + i \in 1..Size(f)
    <3>1. \A x, y, z \in Nat : x + y <= z =>
            \A j \in 1..y :
              2 + x + j # 1 /\ 2 + x + j # 2 /\ (2 + x + j) - 2 = x + j /\ x + j \in 1..z
      OBVIOUS
    <3>2. b \in Nat /\ n \in Nat /\ Size(f) \in Nat /\ b + n <= Size(f)
      BY <1>1, <1>2, <1>4
    <3> QED BY <3>1, <3>2, Zenon
  <2>2. Files[f].bytes \in Seq(Byte)
    BY <1>2, SizeTyped DEF File
  <2>3. Files[f].bytes[b + i] \in Byte
    BY <2>1, <2>2 DEF Size
  <2>4. Value(Pos(f, 2 + b + i)) = Files[f].bytes[(2 + b + i) - 2]
    BY <2>1 DEF Value, Pos
  <2> QED BY <1>7, <2>1, <2>3, <2>4
<1>9. new \in Seq(Byte) /\ Len(new) = n /\ \A i \in 1..n : new[i] = Files[f].bytes[b + i]
  BY <1>4, <1>8
<1> HIDE DEF new
<1>10. /\ bytes \o new \in Seq(Byte) /\ Len(bytes \o new) = b + n
       /\ \A i \in 1..b : (bytes \o new)[i] = bytes[i]
       /\ \A i \in 1..n : (bytes \o new)[b + i] = new[i]
  <2>1. \A s, t \in Seq(Byte) :
          /\ s \o t \in Seq(Byte) /\ Len(s \o t) = Len(s) + Len(t)
          /\ \A i \in 1..Len(s) : (s \o t)[i] = s[i]
          /\ \A i \in 1..Len(t) : (s \o t)[Len(s) + i] = t[i]
    BY Joined
  <2> QED BY <1>2, <1>9, <2>1 DEF b
<1>11. ASSUME NEW i \in 1..(b + n)
       PROVE  (bytes \o new)[i] = Files[f].bytes[i]
  <2>0. \A x, y \in Nat : \A j \in 1..(x + y) :
          j \in 1..x \/ (j - x \in 1..y /\ x + (j - x) = j)
    OBVIOUS
  <2>1. CASE i \in 1..b
    BY <1>1, <1>10, <2>1, Zenon
  <2>2. CASE i - b \in 1..n /\ b + (i - b) = i
    <3>1. (bytes \o new)[i] = new[i - b]
      BY <1>10, <2>2, Zenon
    <3>2. new[i - b] = Files[f].bytes[i]
      BY <1>9, <2>2, Zenon
    <3> QED BY <3>1, <3>2, Zenon
  <2>3. b \in Nat /\ n \in Nat
    BY <1>2, <1>4, Zenon
  <2> QED BY <2>0, <2>1, <2>2, <2>3, Zenon
<1>12. bytes' \in Seq(Byte) /\ Len(bytes') = b + n /\ \A i \in 1..(b + n) : bytes'[i] = Files[f].bytes[i]
  BY <1>5, <1>10, <1>11
<1>13. Reading' = f /\ Have' = 2 + (b + n)
  BY <1>1, <1>5, <1>12 DEF Reading, Have, f
<1>14. wire' \in Seq(Place) /\ Runs' /\ Ends'
  <2>1. n \in 1..n /\ 2 + b + n = 2 + (b + n) /\ n \in 1..w
    BY <1>2, <1>4
  <2>2. wire[n] = Pos(Reading, Have)'
    BY <1>7, <1>13, <2>1 DEF Pos
  <2> QED BY <1>5, <2>1, <2>2, Taken DEF writer, w
<1>15. TypeOK'
  BY <1>5, <1>12, <1>14 DEF TransferInv, TypeOK, Places, Size
<1>16. Right' /\ Started'
  BY <1>1, <1>4, <1>5, <1>12, <1>13 DEF TransferInv, Right, Started, Size, f
<1> QED BY <1>14, <1>15, <1>16 DEF TransferInv

\* A file that is closed is complete, and it is the next one.
LEMMA ClosedFile ==
  ASSUME TransferInv, CloseFile
  PROVE  /\ Len(received) + 1 \in 1..Len(Files)
         /\ [name |-> name, bytes |-> bytes] = Files[Len(received) + 1]
         /\ Len(bytes) = Size(Len(received) + 1)
<1> DEFINE f == Len(received) + 1
<1>1. /\ stage = "data" /\ Len(bytes) >= size /\ size = Size(f) /\ Len(bytes) <= size
      /\ name = Files[f].name /\ \A i \in 1..Len(bytes) : bytes[i] = Files[f].bytes[i]
  BY DEF CloseFile, TransferInv, Right, Reading
<1>2. f \in 1..Len(Files) /\ Files[f] \in File /\ Size(f) \in Nat /\ bytes \in Seq(Byte)
  BY <1>1, LengthTyped, SizeTyped DEF TransferInv, TypeOK, Right
<1> HIDE DEF f
<1>3. Len(bytes) = Size(f)
  BY <1>1, <1>2
<1>4. Files[f].bytes \in Seq(Byte) /\ Len(Files[f].bytes) = Len(bytes)
  BY <1>2, <1>3 DEF File, Size
<1>5. bytes = Files[f].bytes
  BY <1>1, <1>2, <1>4
<1>6. Files[f] = [name |-> Files[f].name, bytes |-> Files[f].bytes]
  BY <1>2 DEF File
<1> QED BY <1>1, <1>2, <1>3, <1>5, <1>6 DEF f

LEMMA CloseFilePreserves == TransferInv /\ CloseFile => TransferInv'
<1> SUFFICES ASSUME TransferInv, CloseFile PROVE TransferInv'
  OBVIOUS
<1> DEFINE f == Len(received) + 1
           new == [name |-> name, bytes |-> bytes]
<1>1. /\ stage = "data" /\ stage' = "name" /\ received' = Append(received, new)
      /\ wire' = wire /\ file' = file /\ written' = written /\ name' = name /\ size' = size
      /\ bytes' = bytes
  BY DEF CloseFile, writer
<1>2. f \in 1..Len(Files) /\ new = Files[f] /\ Len(bytes) = Size(f)
  BY ClosedFile
<1>3. new \in File /\ Places(f) = 2 + Size(f)
  BY <1>2, SizeTyped
<1>4. received \in Seq(File) /\ Len(received) \in Nat
  BY DEF TransferInv, TypeOK
<1> HIDE DEF new
<1>5. received' \in Seq(File) /\ Len(received') = f
  BY <1>1, <1>3, <1>4
<1>6. Reading' = Reading /\ Have' = Have
  BY <1>1, <1>2, <1>3, <1>5 DEF Reading, Have, Places, Size
<1>7. TypeOK'
  BY <1>1, <1>5 DEF TransferInv, TypeOK, Places, Size
<1>8. Runs' /\ Ends'
  BY <1>1, <1>6 DEF TransferInv, Runs, Ends, After, Places, Size, Pos
<1>9. Right' /\ Started'
  BY <1>1, <1>2, <1>5, LengthTyped DEF TransferInv, Right, Started
<1> QED BY <1>7, <1>8, <1>9 DEF TransferInv

-----------------------------------------------------------------------------

\* What is on the wire is what the reader expects, from its name to its last
\* byte, whatever the writes and reads are cut into.
THEOREM TransferInvariant == Spec => []TransferInv
<1>1. Init => TransferInv
  BY PlacesTyped, LengthTyped, TransferAssumption
     DEF Init, TransferInv, TypeOK, Runs, Ends, Right, Started, Reading, Have, Places
<1>2. TransferInv /\ [Next]_vars => TransferInv'
  <2> SUFFICES ASSUME TransferInv, [Next]_vars PROVE TransferInv'
    OBVIOUS
  <2>1. CASE Write
    BY <2>1, WritePreserves
  <2>2. CASE Read
    BY <2>2, ReadNamePreserves, ReadSizePreserves, ReadChunkPreserves, CloseFilePreserves DEF Read
  <2>3. CASE UNCHANGED vars
    BY <2>3 DEF vars, writer, reader, TransferInv, TypeOK, Runs, Ends, Right, Started, Reading, Have,
                After, Pos, Places, Size
  <2> QED BY <2>1, <2>2, <2>3 DEF Next
<1> QED BY <1>1, <1>2, PTL DEF Spec

\* Every state of writer, wire and reader is well typed: no name or size is ever
\* taken for a byte of a file.
THEOREM TypeCorrect == Spec => []TypeOK
<1>1. TransferInv => TypeOK
  BY DEF TransferInv
<1> QED BY <1>1, TransferInvariant, PTL

\* The files arrive one by one, each under its name and with its contents.
THEOREM ArriveOneByOne == Spec => OneByOne
<1>1. TransferInv /\ [Next]_vars
        => [received' = Append(received, Files[Len(received) + 1])]_received
  <2> SUFFICES ASSUME TransferInv, [Next]_vars, received' # received
               PROVE  received' = Append(received, Files[Len(received) + 1])
    OBVIOUS
  <2>1. CloseFile
    BY DEF Next, Write, WriteName, WriteSize, WriteChunk, Writes, Read, ReadName, ReadSize, ReadChunk,
           Takes, vars, reader
  <2> QED BY <2>1, ClosedFile DEF CloseFile
<1> QED BY <1>1, TransferInvariant, PTL DEF Spec, OneByOne

-----------------------------------------------------------------------------
(* Nothing gets stuck on the way.                                            *)

Arrived == \A i \in 1..Len(received) : received[i] = Files[i]

\* What has been received are the first of the files that are sent.
THEOREM ArrivedInvariant == Spec => []Arrived
<1>1. Init => Arrived
  BY DEF Init, Arrived
<1>2. TransferInv /\ Arrived /\ [Next]_vars /\ [received' = Append(received, Files[Len(received) + 1])]_received
        => Arrived'
  <2> SUFFICES ASSUME TransferInv, Arrived,
                      [received' = Append(received, Files[Len(received) + 1])]_received
               PROVE  Arrived'
    OBVIOUS
  <2>1. CASE received' = received
    BY <2>1 DEF Arrived
  <2>2. CASE received' = Append(received, Files[Len(received) + 1])
    <3>1. received \in Seq(File) /\ Len(received) \in Nat
      BY DEF TransferInv, TypeOK
    <3>2. /\ Len(received') = Len(received) + 1
          /\ \A i \in 1..Len(received) : received'[i] = received[i]
          /\ received'[Len(received) + 1] = Files[Len(received) + 1]
      BY <2>2, <3>1
    <3> QED BY <3>1, <3>2 DEF Arrived
  <2> QED BY <2>1, <2>2
<1> QED BY <1>1, <1>2, TransferInvariant, ArriveOneByOne, PTL DEF Spec, OneByOne

\* The guards of the writer and of the reader.
CanWrite ==
  \/ written = Places(file) /\ file < Len(Files)
  \/ written = 1
  \/ written >= 2 /\ written < Places(file)

CanRead ==
  \/ stage \in {"name", "size"} /\ wire # <<>>
  \/ stage = "data" /\ Len(bytes) < size /\ wire # <<>>
  \/ stage = "data" /\ Len(bytes) >= size

StopsWithAll == ~CanWrite /\ ~CanRead => received = Files

\* If neither side has anything to do, all files have arrived: the reader never
\* waits for a byte that nobody will write.
THEOREM NothingMissing == Spec => []StopsWithAll
<1>1. TransferInv /\ Arrived => StopsWithAll
  <2> SUFFICES ASSUME TransferInv, Arrived, ~CanWrite, ~CanRead PROVE received = Files
    BY DEF StopsWithAll
  <2> USE DEF TransferInv, TypeOK
  <2>0. /\ Len(Files) \in Nat /\ file \in Nat /\ written \in Nat
        /\ Len(bytes) \in Nat /\ Len(received) \in Nat
    BY LengthTyped, PlacesTyped
  <2>1. Places(file) \in Nat /\ (file # 0 => Places(file) = 2 + Size(file) /\ Size(file) \in Nat)
    BY <2>0, PlacesTyped, SizeTyped
  <2>2. written = Places(file) /\ file = Len(Files)
    <3>1. CASE written = 0
      BY <2>0, <2>1, <3>1 DEF Started, CanWrite, Places
    <3>2. CASE written # 0
      BY <2>0, <2>1, <3>2 DEF Started, CanWrite
    <3> QED BY <3>1, <3>2
  <2>3. wire = <<>> /\ file = Reading /\ written = Have
    BY <2>0 DEF CanRead, Ends, Right
  <2>4. stage = "name"
    <3>1. CASE stage = "size"
      BY <2>0, <2>1, <2>2, <2>3, <3>1 DEF Reading, Have
    <3>2. CASE stage = "data"
      BY <2>0, <2>1, <2>2, <2>3, <3>2 DEF Reading, Have, Right, CanRead
    <3> QED BY <3>1, <3>2
  <2>5. Len(received) = Len(Files)
    BY <2>2, <2>3, <2>4 DEF Reading
  <2> QED BY <2>5, TransferAssumption DEF Arrived
<1> QED BY <1>1, TransferInvariant, ArrivedInvariant, PTL

\* The length of two sequences in one, whatever they are made of.
LEMMA JoinedLength ==
  ASSUME NEW S, NEW T, NEW s \in Seq(S), NEW t \in Seq(T)
  PROVE  Len(s \o t) = Len(s) + Len(t)
OBVIOUS

LEMMA LeastOfThree ==
  \A a, b, c \in Nat : \A n \in 1..Least(Least(a, b), c) : n \in Nat /\ n >= 1 /\ n <= b /\ n <= c
BY DEF Least

\* What is on the wire are places.
LEMMA OnTheWire ==
  ASSUME TransferInv, NEW n \in Nat, n <= Len(wire)
  PROVE  \A i \in 1..n : wire[i] \in Place
<1>1. wire \in Seq(Place)
  BY DEF TransferInv, TypeOK
<1> HIDE DEF Place
<1> QED BY <1>1

\* How far the writer and the reader are, compared with the state before.
WriterFurther == file' > file \/ (file' = file /\ written' > written)

ReaderFurther ==
  \/ Len(received') > Len(received)
  \/ /\ Len(received') = Len(received)
     /\ \/ stage = "name" /\ stage' = "size"
        \/ stage = "size" /\ stage' = "data"
        \/ stage = "data" /\ stage' = "data" /\ Len(bytes') > Len(bytes) /\ Len(bytes') <= size'

Advances ==
  [][\/ WriterFurther /\ UNCHANGED reader
     \/ ReaderFurther /\ UNCHANGED writer]_vars

\* Every step takes one side further and leaves the other where it is: there is no
\* endless loop, neither of empty reads nor of empty writes.  With NothingMissing this
\* is what AllArrive needs beyond fairness.
THEOREM EveryStepAdvances == Spec => Advances
<1>1. TransferInv /\ Next => (WriterFurther /\ UNCHANGED reader) \/ (ReaderFurther /\ UNCHANGED writer)
  <2> SUFFICES ASSUME TransferInv, Next
               PROVE  (WriterFurther /\ UNCHANGED reader) \/ (ReaderFurther /\ UNCHANGED writer)
    OBVIOUS
  <2> USE DEF TransferInv, TypeOK
  <2>0. /\ Len(Files) \in Nat /\ file \in Nat /\ written \in Nat /\ Places(file) \in Nat
        /\ Len(bytes) \in Nat /\ Len(received) \in Nat /\ Len(wire) \in Nat
    BY LengthTyped, PlacesTyped
  <2>1. CASE WriteName
    BY <2>0, <2>1 DEF WriteName, Writes, WriterFurther
  <2>2. CASE WriteSize
    BY <2>0, <2>2 DEF WriteSize, Writes, WriterFurther
  <2>3. CASE WriteChunk
    BY <2>0, <2>3, TransferAssumption DEF WriteChunk, Writes, WriterFurther, Least
  <2>4. CASE ReadName
    BY <2>4 DEF ReadName, ReaderFurther
  <2>5. CASE ReadSize
    BY <2>5 DEF ReadSize, ReaderFurther
  <2>6. CASE ReadChunk
    <3>1. PICK n \in 1..Least(Least(ReadMax, size - Len(bytes)), Len(wire)) : Takes(n)
      BY <2>6 DEF ReadChunk
    <3>2. n \in Nat /\ n >= 1 /\ n <= size - Len(bytes) /\ n <= Len(wire)
      <4>1. ReadMax \in Nat /\ size - Len(bytes) \in Nat
        BY <2>0, <2>6, TransferAssumption DEF ReadChunk
      <4> QED BY <2>0, <3>1, <4>1, LeastOfThree
    <3>3. Len(bytes') = Len(bytes) + n
      <4> DEFINE V == {Value(p) : p \in Place}
                 taken == [i \in 1..n |-> Value(wire[i])]
      <4>1. \A i \in 1..n : Value(wire[i]) \in V
        <5>1. \A i \in 1..n : wire[i] \in Place
          BY <3>2, OnTheWire
        <5> QED BY <5>1
      <4> HIDE DEF V
      <4>2. taken \in Seq(V)
        BY <3>2, <4>1
      <4>3. Len(taken) = n
        BY <3>2
      <4>4. Len(bytes \o taken) = Len(bytes) + n
        BY <4>2, <4>3, JoinedLength
      <4> QED BY <3>1, <4>4 DEF Takes
    <3>4. stage = "data" /\ UNCHANGED <<file, written, stage, size, received>>
      BY <2>6, <3>1 DEF ReadChunk, Takes, writer
    <3>5. ReaderFurther
      BY <2>0, <3>2, <3>3, <3>4 DEF ReaderFurther
    <3> QED BY <3>4, <3>5 DEF writer
  <2>7. CASE CloseFile
    BY <2>0, <2>7 DEF CloseFile, ReaderFurther
  <2> QED BY <2>1, <2>2, <2>3, <2>4, <2>5, <2>6, <2>7 DEF Next, Write, Read
<1> QED BY <1>1, TransferInvariant, PTL DEF Spec, Advances

=============================================================================
