-------------------------- MODULE AttachmentsProofs --------------------------
(***************************************************************************)
(* Theorems about Attachments, for any paths and names, and any number of   *)
(* files chosen.                                                            *)
(***************************************************************************)
EXTENDS Attachments, Integers, TLAPS

\* The i-th file that was chosen, as an attachment.
Att(i) == [name |-> basename[chosen[i]], data |-> chosen[i]]

\* Until the mail is sent: the stack holds the files chosen first, and the mail
\* the others, from the last on.
Sending ==
  phase \in {"choose", "send"} =>
    /\ Len(stk) + Len(mail) = Len(chosen)
    /\ \A i \in 1..Len(stk) : stk[i] = chosen[i]
    /\ \A i \in 1..Len(mail) : mail[i] = Att(Len(chosen) + 1 - i)
    /\ phase = "choose" => mail = <<>>

\* What is still to be written are the files chosen first, from the last on.
Saving ==
  phase = "save" =>
    /\ Len(todo) <= Len(chosen)
    /\ \A i \in 1..Len(todo) : todo[i] = Att(Len(todo) + 1 - i)

\* A name has the first of its files chosen after the t-th.
Stores(n, t) ==
  \/ /\ folder[n] = NoFile
     /\ \A j \in (t + 1)..Len(chosen) : basename[chosen[j]] # n
  \/ \E j \in (t + 1)..Len(chosen) :
       /\ folder[n] = chosen[j] /\ basename[chosen[j]] = n
       /\ \A l \in (t + 1)..Len(chosen) : basename[chosen[l]] = n => j <= l

Stored ==
  /\ phase \in {"choose", "send"} => \A n \in Name : folder[n] = NoFile
  /\ phase = "save" => \A n \in Name : Stores(n, Len(todo))
  /\ phase \in {"parse", "att", "saved"} => \A n \in Name : Stores(n, 0)

\* Each file of the folder is in the mail already, or is still to be parsed.
Parsing ==
  phase = "parse" =>
    /\ \A n \in names : folder[n] # NoFile
    /\ \A i \in 1..Len(mail) : mail[i].data = folder[mail[i].name]
    /\ \A n \in Name :
         folder[n] # NoFile => n \in names \/ \E i \in 1..Len(mail) : mail[i].name = n

\* Each file of the folder is with the receiver, or is still to be written; the
\* receiver's other files are left alone.
Receiving ==
  /\ phase \notin {"att", "saved"} => \A n \in Name : local[n] \in {NoFile, Earlier}
  /\ phase \in {"att", "saved"} =>
       /\ \A i \in 1..Len(todo) : todo[i].data = folder[todo[i].name]
       /\ \A n \in Name :
            IF folder[n] = NoFile THEN local[n] \in {NoFile, Earlier}
            ELSE local[n] = folder[n] \/ \E i \in 1..Len(todo) : todo[i].name = n
  /\ phase = "saved" => todo = <<>>

AttachmentsInv == TypeOK /\ Sending /\ Saving /\ Stored /\ Parsing /\ Receiving

-----------------------------------------------------------------------------
(* Sequences.                                                                *)

LEMMA Tailed ==
  ASSUME NEW S, NEW s \in Seq(S), s # <<>>
  PROVE  /\ Head(s) \in S /\ Head(s) = s[1] /\ Tail(s) \in Seq(S)
         /\ Len(s) \in Nat \ {0} /\ Len(Tail(s)) = Len(s) - 1
         /\ \A i \in 1..Len(Tail(s)) : Tail(s)[i] = s[i + 1]
OBVIOUS

LEMMA Popped ==
  ASSUME NEW S, NEW s \in Seq(S), s # <<>>
  PROVE  /\ s[Len(s)] \in S /\ SubSeq(s, 1, Len(s) - 1) \in Seq(S)
         /\ Len(s) \in Nat \ {0} /\ Len(SubSeq(s, 1, Len(s) - 1)) = Len(s) - 1
         /\ \A i \in 1..(Len(s) - 1) : SubSeq(s, 1, Len(s) - 1)[i] = s[i]
<1>1. Len(s) \in Nat \ {0}
  OBVIOUS
<1>2. s[Len(s)] \in S
  BY <1>1
<1>3. SubSeq(s, 1, Len(s) - 1) \in Seq(S)
  BY <1>1
<1>4. Len(SubSeq(s, 1, Len(s) - 1)) = Len(s) - 1
  <2>1. CASE Len(s) = 1
    BY <1>1, <2>1
  <2>2. CASE Len(s) > 1
    BY <1>1, <2>2
  <2> QED BY <1>1, <2>1, <2>2
<1>5. \A i \in 1..(Len(s) - 1) : SubSeq(s, 1, Len(s) - 1)[i] = s[i]
  BY <1>1
<1> QED BY <1>1, <1>2, <1>3, <1>4, <1>5

LEMMA Appended ==
  ASSUME NEW S, NEW s \in Seq(S), NEW e \in S
  PROVE  /\ Append(s, e) \in Seq(S) /\ Len(s) \in Nat /\ Len(Append(s, e)) = Len(s) + 1
         /\ \A i \in 1..Len(s) : Append(s, e)[i] = s[i]
         /\ Append(s, e)[Len(s) + 1] = e
OBVIOUS

LEMMA BaseNameTyped == \A p \in Path : basename[p] \in Name
BY AttachmentsAssumption

LEMMA AttTyped == TypeOK => \A i \in 1..Len(chosen) : Att(i) \in Attachment
BY BaseNameTyped DEF TypeOK, Att, Attachment

-----------------------------------------------------------------------------
(* The sender.                                                               *)

LEMMA ChoosePreserves ==
  ASSUME AttachmentsInv, NEW p \in Path, Choose(p)
  PROVE  AttachmentsInv'
<1>1. /\ phase = "choose" /\ phase' = "choose" /\ Len(chosen) < MaxChosen
      /\ stk' = Append(stk, p) /\ chosen' = Append(chosen, p)
      /\ UNCHANGED <<mail, todo, names, folder, local>>
  BY DEF Choose, Goto
<1>2. stk \in Seq(Path) /\ chosen \in Seq(Path) /\ mail = <<>> /\ Len(stk) = Len(chosen)
  BY <1>1 DEF AttachmentsInv, TypeOK, Sending
<1>3. /\ stk' \in Seq(Path) /\ chosen' \in Seq(Path) /\ Len(chosen) \in Nat
      /\ Len(stk') = Len(stk) + 1 /\ Len(chosen') = Len(chosen) + 1
      /\ \A i \in 1..Len(chosen) : stk'[i] = stk[i] /\ chosen'[i] = chosen[i]
      /\ stk'[Len(stk) + 1] = p /\ chosen'[Len(chosen) + 1] = p
  BY <1>1, <1>2, Appended
<1>4. TypeOK'
  BY <1>1, <1>3, AttachmentsAssumption DEF AttachmentsInv, TypeOK
<1>5. Sending'
  <2>1. \A i \in 1..Len(stk') : stk'[i] = chosen'[i]
    BY <1>1, <1>2, <1>3 DEF AttachmentsInv, Sending
  <2> QED BY <1>1, <1>2, <1>3, <2>1 DEF Sending
<1>6. Saving' /\ Stored' /\ Parsing' /\ Receiving'
  BY <1>1 DEF AttachmentsInv, Saving, Stored, Parsing, Receiving
<1> QED BY <1>4, <1>5, <1>6 DEF AttachmentsInv

LEMMA EndChoicePreserves == AttachmentsInv /\ EndChoice => AttachmentsInv'
<1> SUFFICES ASSUME AttachmentsInv, EndChoice PROVE AttachmentsInv'
  OBVIOUS
<1>1. /\ phase = "choose" /\ phase' = "send"
      /\ UNCHANGED <<stk, mail, todo, names, folder, local, chosen>>
  BY DEF EndChoice, Goto
<1>2. TypeOK'
  BY <1>1 DEF AttachmentsInv, TypeOK, Phase
<1>3. Sending'
  BY <1>1 DEF AttachmentsInv, Sending, Att
<1> QED BY <1>1, <1>2, <1>3 DEF AttachmentsInv, Saving, Stored, Parsing, Receiving

LEMMA SendFilePreserves == AttachmentsInv /\ SendFile => AttachmentsInv'
<1> SUFFICES ASSUME AttachmentsInv, SendFile PROVE AttachmentsInv'
  OBVIOUS
<1> DEFINE s == Len(stk)
           m == Len(mail)
           c == Len(chosen)
           new == [name |-> basename[stk[s]], data |-> stk[s]]
<1>1. /\ phase = "send" /\ phase' = "send" /\ stk # <<>>
      /\ stk' = SubSeq(stk, 1, s - 1) /\ mail' = Append(mail, new)
      /\ UNCHANGED <<todo, names, folder, local, chosen>>
  BY DEF SendFile, Goto
<1>2. /\ stk \in Seq(Path) /\ mail \in Seq(Attachment) /\ chosen \in Seq(Path)
      /\ s + m = c /\ c \in Nat /\ m \in Nat
      /\ \A i \in 1..s : stk[i] = chosen[i]
      /\ \A i \in 1..m : mail[i] = Att(c + 1 - i)
  BY <1>1 DEF AttachmentsInv, TypeOK, Sending
<1>3. /\ stk[s] \in Path /\ stk' \in Seq(Path) /\ s \in Nat \ {0} /\ Len(stk') = s - 1
      /\ \A i \in 1..(s - 1) : stk'[i] = stk[i]
  BY <1>1, <1>2, Popped
<1>4. s \in 1..s /\ new = Att(s) /\ new \in Attachment
  <2>1. s \in 1..s
    BY <1>3
  <2>2. stk[s] = chosen[s]
    BY <1>2, <2>1
  <2> QED BY <1>3, <2>1, <2>2, BaseNameTyped DEF Att, Attachment
<1> HIDE DEF new
<1>5. /\ mail' \in Seq(Attachment) /\ Len(mail') = m + 1
      /\ \A i \in 1..m : mail'[i] = mail[i]
      /\ mail'[m + 1] = new
  BY <1>1, <1>2, <1>4, Appended
<1> HIDE DEF s, m, c
<1>6. \A i \in 1..Len(mail') : mail'[i] = Att(c + 1 - i)
  <2> TAKE i \in 1..Len(mail')
  <2>1. CASE i \in 1..m
    BY <1>2, <1>5, <2>1
  <2>2. CASE i = m + 1
    <3>1. c + 1 - i = s
      BY <1>2, <1>3, <2>2
    <3> QED BY <1>4, <1>5, <2>2, <3>1
  <2> QED BY <1>2, <1>5, <2>1, <2>2
<1>7. Sending'
  <2>1. Len(stk') + Len(mail') = c
    BY <1>2, <1>3, <1>5
  <2>2. \A i \in 1..Len(stk') : stk'[i] = chosen[i]
    BY <1>2, <1>3
  <2> QED BY <1>1, <1>6, <2>1, <2>2 DEF Sending, Att, c
<1>8. TypeOK'
  BY <1>1, <1>3, <1>5 DEF AttachmentsInv, TypeOK
<1>9. Saving' /\ Stored' /\ Parsing' /\ Receiving'
  BY <1>1 DEF AttachmentsInv, Saving, Stored, Parsing, Receiving
<1> QED BY <1>7, <1>8, <1>9 DEF AttachmentsInv

-----------------------------------------------------------------------------
(* The server.                                                               *)

LEMMA StartSavePreserves == AttachmentsInv /\ StartSave => AttachmentsInv'
<1> SUFFICES ASSUME AttachmentsInv, StartSave PROVE AttachmentsInv'
  OBVIOUS
<1>1. /\ phase = "send" /\ phase' = "save" /\ stk = <<>> /\ todo' = mail
      /\ UNCHANGED <<stk, mail, names, folder, local, chosen>>
  BY DEF StartSave, Goto
<1>2. Len(mail) = Len(chosen) /\ Len(chosen) \in Nat
  BY <1>1 DEF AttachmentsInv, TypeOK, Sending
<1>3. TypeOK'
  BY <1>1 DEF AttachmentsInv, TypeOK, Phase
<1>4. Saving'
  BY <1>1, <1>2 DEF AttachmentsInv, Sending, Saving, Att
<1>5. Stored'
  <2>1. \A n \in Name : Stores(n, Len(chosen))
    BY <1>1, <1>2 DEF AttachmentsInv, Stored, Stores
  <2> QED BY <1>1, <1>2, <2>1 DEF Stored, Stores
<1> QED BY <1>1, <1>3, <1>4, <1>5 DEF AttachmentsInv, Sending, Parsing, Receiving

LEMMA SaveAttachmentPreserves == AttachmentsInv /\ SaveAttachment => AttachmentsInv'
<1> SUFFICES ASSUME AttachmentsInv, SaveAttachment PROVE AttachmentsInv'
  OBVIOUS
<1> DEFINE t == Len(todo)
           c == Len(chosen)
<1>1. /\ phase = "save" /\ phase' = "save" /\ todo # <<>> /\ todo' = Tail(todo)
      /\ folder' = [folder EXCEPT ![Head(todo).name] = Head(todo).data]
      /\ UNCHANGED <<stk, mail, names, local, chosen>>
  BY DEF SaveAttachment, Goto
<1>2. /\ todo \in Seq(Attachment) /\ chosen \in Seq(Path) /\ c \in Nat /\ t <= c
      /\ folder \in [Name -> Path \cup {NoFile}]
      /\ \A i \in 1..t : todo[i] = Att(t + 1 - i)
  BY <1>1 DEF AttachmentsInv, TypeOK, Saving
<1>3. /\ Head(todo) \in Attachment /\ Head(todo) = todo[1] /\ todo' \in Seq(Attachment)
      /\ t \in Nat \ {0} /\ Len(todo') = t - 1
      /\ \A i \in 1..(t - 1) : todo'[i] = todo[i + 1]
  BY <1>1, <1>2, Tailed
<1> HIDE DEF t, c
<1>4. t \in 1..c /\ Head(todo) = Att(t)
  <2>1. 1 \in 1..t /\ t + 1 - 1 = t
    BY <1>3
  <2> QED BY <1>2, <1>3, <2>1
<1>5. chosen[t] \in Path /\ basename[chosen[t]] \in Name
  BY <1>2, <1>4, BaseNameTyped DEF c
<1>6. folder' = [folder EXCEPT ![basename[chosen[t]]] = chosen[t]]
  <2>1. Head(todo).name = basename[chosen[t]] /\ Head(todo).data = chosen[t]
    BY <1>4 DEF Att
  <2> QED BY <1>1, <2>1
<1>7. TypeOK'
  BY <1>1, <1>2, <1>3, <1>5, <1>6 DEF AttachmentsInv, TypeOK
<1>8. Saving'
  <2>1. \A i \in 1..(t - 1) : todo'[i] = Att((t - 1) + 1 - i)
    <3> TAKE i \in 1..(t - 1)
    <3>1. i + 1 \in 1..t /\ t + 1 - (i + 1) = (t - 1) + 1 - i
      BY <1>3
    <3>2. todo[i + 1] = Att(t + 1 - (i + 1))
      BY <1>2, <3>1
    <3> QED BY <1>3, <3>1, <3>2
  <2>2. t - 1 <= c
    BY <1>2, <1>3
  <2> QED BY <1>1, <1>3, <2>1, <2>2 DEF Saving, Att, c
<1> PICK k \in Nat : k + 1 = t
  BY <1>3
<1>9. ASSUME NEW n \in Name
      PROVE  Stores(n, k)'
  <2>1. Stores(n, t)
    BY <1>1 DEF AttachmentsInv, Stored, t
  <2>2. \A j : j \in t..c <=> j = t \/ j \in (t + 1)..c
    BY <1>2, <1>3, <1>4
  <2>3. CASE basename[chosen[t]] = n
    <3>1. folder'[n] = chosen[t]
      BY <1>2, <1>6, <2>3
    <3>2. t \in t..c /\ \A l \in t..c : t <= l
      BY <1>4
    <3> QED BY <1>1, <2>2, <2>3, <3>1, <3>2 DEF Stores, c
  <2>4. CASE basename[chosen[t]] # n
    <3>1. folder'[n] = folder[n]
      BY <1>2, <1>6, <2>4
    <3>2. CASE folder[n] = NoFile /\ \A j \in (t + 1)..c : basename[chosen[j]] # n
      BY <1>1, <2>2, <2>4, <3>1, <3>2 DEF Stores, c
    <3>3. CASE \E j \in (t + 1)..c :
                 /\ folder[n] = chosen[j] /\ basename[chosen[j]] = n
                 /\ \A l \in (t + 1)..c : basename[chosen[l]] = n => j <= l
      BY <1>1, <2>2, <2>4, <3>1, <3>3, SMTT(20) DEF Stores, c
    <3> QED BY <2>1, <3>2, <3>3 DEF Stores, c
  <2> QED BY <2>3, <2>4
<1>10. Stored'
  <2>1. \A n \in Name : Stores(n, Len(todo))'
    <3>1. Len(todo') = k
      BY <1>3
    <3> QED BY <1>9, <3>1 DEF Stores
  <2> QED BY <1>1, <2>1 DEF Stored
<1>11. Sending' /\ Parsing' /\ Receiving'
  BY <1>1 DEF AttachmentsInv, Sending, Parsing, Receiving
<1> QED BY <1>7, <1>8, <1>10, <1>11 DEF AttachmentsInv

LEMMA StartParsePreserves == AttachmentsInv /\ StartParse => AttachmentsInv'
<1> SUFFICES ASSUME AttachmentsInv, StartParse PROVE AttachmentsInv'
  OBVIOUS
<1>1. /\ phase = "save" /\ phase' = "parse" /\ todo = <<>> /\ mail' = <<>>
      /\ names' = {n \in Name : folder[n] # NoFile}
      /\ UNCHANGED <<stk, todo, folder, local, chosen>>
  BY DEF StartParse, Goto
<1>2. TypeOK'
  BY <1>1 DEF AttachmentsInv, TypeOK, Phase
<1>3. Stored'
  <2>1. \A n \in Name : Stores(n, 0)
    <3>1. Len(todo) = 0
      BY <1>1
    <3> QED BY <1>1, <3>1 DEF AttachmentsInv, Stored
  <2> QED BY <1>1, <2>1 DEF Stored, Stores
<1>4. Parsing'
  BY <1>1 DEF Parsing
<1> QED BY <1>1, <1>2, <1>3, <1>4 DEF AttachmentsInv, Sending, Saving, Receiving

LEMMA ParsePreserves == AttachmentsInv /\ Parse => AttachmentsInv'
<1> SUFFICES ASSUME AttachmentsInv, Parse PROVE AttachmentsInv'
  OBVIOUS
<1> DEFINE m == Len(mail)
<1>1. PICK n \in names :
        /\ mail' = Append(mail, [name |-> n, data |-> folder[n]]) /\ names' = names \ {n}
  BY DEF Parse
<1>2. /\ phase = "parse" /\ phase' = "parse"
      /\ UNCHANGED <<stk, todo, folder, local, chosen>>
  BY DEF Parse, Goto
<1> DEFINE new == [name |-> n, data |-> folder[n]]
<1>3. new \in Attachment /\ new.name = n /\ new.data = folder[n] /\ n \in Name
  BY <1>1, <1>2 DEF AttachmentsInv, TypeOK, Parsing, Attachment
<1>4. mail' = Append(mail, new)
  BY <1>1
<1> HIDE DEF new
<1>5. /\ mail' \in Seq(Attachment) /\ m \in Nat /\ Len(mail') = m + 1
      /\ \A i \in 1..m : mail'[i] = mail[i]
      /\ mail'[m + 1] = new
  <2>1. mail \in Seq(Attachment)
    BY DEF AttachmentsInv, TypeOK
  <2> QED BY <1>3, <1>4, <2>1, Appended
<1>6. \A i \in 1..(m + 1) : i \in 1..m \/ i = m + 1
  BY <1>5
<1>7. 1..m \subseteq 1..(m + 1) /\ m + 1 \in 1..(m + 1)
  BY <1>5
<1> HIDE DEF m
<1>8. TypeOK'
  BY <1>1, <1>2, <1>5 DEF AttachmentsInv, TypeOK
<1>9. Parsing'
  <2>1. \A i \in 1..(m + 1) : mail'[i].data = folder[mail'[i].name]
    BY <1>2, <1>3, <1>5, <1>6 DEF AttachmentsInv, Parsing, m
  <2>2. ASSUME NEW o \in Name, folder[o] # NoFile
        PROVE  o \in names' \/ \E i \in 1..(m + 1) : mail'[i].name = o
    <3>1. CASE o = n
      BY <1>3, <1>5, <1>7, <3>1
    <3>2. CASE o # n /\ o \in names
      BY <1>1, <3>2
    <3>3. CASE \E i \in 1..m : mail[i].name = o
      BY <1>5, <1>7, <3>3
    <3> QED BY <1>2, <2>2, <3>1, <3>2, <3>3 DEF AttachmentsInv, Parsing, m
  <2>3. \A o \in names' : folder[o] # NoFile
    BY <1>1, <1>2 DEF AttachmentsInv, Parsing
  <2> QED BY <1>2, <1>5, <2>1, <2>2, <2>3 DEF Parsing
<1>10. Sending' /\ Saving' /\ Stored' /\ Receiving'
  BY <1>2 DEF AttachmentsInv, Sending, Saving, Stored, Stores, Receiving
<1> QED BY <1>8, <1>9, <1>10 DEF AttachmentsInv

LEMMA StartAttPreserves == AttachmentsInv /\ StartAtt => AttachmentsInv'
<1> SUFFICES ASSUME AttachmentsInv, StartAtt PROVE AttachmentsInv'
  OBVIOUS
<1>1. /\ phase = "parse" /\ phase' = "att" /\ names = {} /\ todo' = mail
      /\ UNCHANGED <<stk, mail, names, folder, local, chosen>>
  BY DEF StartAtt, Goto
<1>2. TypeOK'
  BY <1>1 DEF AttachmentsInv, TypeOK, Phase
<1>3. Receiving'
  BY <1>1 DEF AttachmentsInv, Parsing, Receiving
<1> QED BY <1>1, <1>2, <1>3 DEF AttachmentsInv, Sending, Saving, Stored, Stores, Parsing

-----------------------------------------------------------------------------
(* The receiver.                                                             *)

LEMMA SaveLocalPreserves == AttachmentsInv /\ SaveLocal => AttachmentsInv'
<1> SUFFICES ASSUME AttachmentsInv, SaveLocal PROVE AttachmentsInv'
  OBVIOUS
<1> DEFINE t == Len(todo)
           h == Head(todo)
<1>1. /\ phase = "att" /\ phase' = "att" /\ todo # <<>> /\ todo' = Tail(todo)
      /\ local' = [local EXCEPT ![h.name] = h.data]
      /\ UNCHANGED <<stk, mail, names, folder, chosen>>
  BY DEF SaveLocal, Goto
<1>2. /\ todo \in Seq(Attachment) /\ folder \in [Name -> Path \cup {NoFile}]
      /\ local \in [Name -> Path \cup {NoFile, Earlier}]
      /\ \A i \in 1..t : todo[i].data = folder[todo[i].name]
  BY <1>1 DEF AttachmentsInv, TypeOK, Receiving
<1>3. /\ h \in Attachment /\ h = todo[1] /\ todo' \in Seq(Attachment)
      /\ t \in Nat \ {0} /\ Len(todo') = t - 1
      /\ \A i \in 1..(t - 1) : todo'[i] = todo[i + 1]
  BY <1>1, <1>2, Tailed
<1> HIDE DEF t, h
<1>4. h.name \in Name /\ h.data \in Path /\ h.data = folder[h.name]
  <2>1. 1 \in 1..t
    BY <1>3
  <2> QED BY <1>2, <1>3, <2>1 DEF Attachment
<1>5. TypeOK'
  BY <1>1, <1>2, <1>3, <1>4 DEF AttachmentsInv, TypeOK
<1>6. \A i \in 1..(t - 1) : todo'[i].data = folder[todo'[i].name]
  <2> TAKE i \in 1..(t - 1)
  <2>1. i + 1 \in 1..t
    BY <1>3
  <2> QED BY <1>2, <1>3, <2>1
<1>7. ASSUME NEW n \in Name
      PROVE  IF folder[n] = NoFile THEN local'[n] \in {NoFile, Earlier}
             ELSE local'[n] = folder[n] \/ \E i \in 1..(t - 1) : todo'[i].name = n
  <2>1. IF folder[n] = NoFile THEN local[n] \in {NoFile, Earlier}
        ELSE local[n] = folder[n] \/ \E i \in 1..t : todo[i].name = n
    BY <1>1 DEF AttachmentsInv, Receiving, t
  <2>2. CASE n = h.name
    <3>1. local'[n] = folder[n] /\ folder[n] # NoFile
      BY <1>1, <1>2, <1>4, <2>2, AttachmentsAssumption
    <3> QED BY <3>1
  <2>3. CASE n # h.name
    <3>1. local'[n] = local[n]
      BY <1>1, <1>2, <2>3
    <3>2. ASSUME NEW i \in 1..t, todo[i].name = n
          PROVE  \E k \in 1..(t - 1) : todo'[k].name = n
      <4>1. i # 1
        BY <1>3, <2>3, <3>2
      <4>2. i - 1 \in 1..(t - 1) /\ (i - 1) + 1 = i
        BY <1>3, <4>1
      <4>3. todo'[i - 1] = todo[i]
        BY <1>3, <4>2
      <4> QED BY <3>2, <4>2, <4>3
    <3> QED BY <2>1, <3>1, <3>2
  <2> QED BY <2>2, <2>3
<1>8. Receiving'
  BY <1>1, <1>3, <1>6, <1>7 DEF Receiving
<1> QED BY <1>1, <1>5, <1>8 DEF AttachmentsInv, Sending, Saving, Stored, Stores, Parsing

LEMMA EndAttPreserves == AttachmentsInv /\ EndAtt => AttachmentsInv'
<1> SUFFICES ASSUME AttachmentsInv, EndAtt PROVE AttachmentsInv'
  OBVIOUS
<1>1. /\ phase = "att" /\ phase' = "saved" /\ todo = <<>>
      /\ UNCHANGED <<stk, mail, todo, names, folder, local, chosen>>
  BY DEF EndAtt, Goto
<1>2. TypeOK'
  BY <1>1 DEF AttachmentsInv, TypeOK, Phase
<1> QED BY <1>1, <1>2
           DEF AttachmentsInv, Sending, Saving, Stored, Stores, Parsing, Receiving

-----------------------------------------------------------------------------

\* Stack, mail, folder and the receiver's directory account for every file that
\* was chosen, at every point of its way.
THEOREM AttachmentsInvariant == Spec => []AttachmentsInv
<1>1. Init => AttachmentsInv
  BY AttachmentsAssumption
     DEF Init, AttachmentsInv, TypeOK, Phase, Sending, Saving, Stored, Parsing, Receiving
<1>2. AttachmentsInv /\ [Next]_vars => AttachmentsInv'
  <2> SUFFICES ASSUME AttachmentsInv, [Next]_vars PROVE AttachmentsInv'
    OBVIOUS
  <2>1. CASE Next
    BY <2>1, ChoosePreserves, EndChoicePreserves, SendFilePreserves, StartSavePreserves,
       SaveAttachmentPreserves, StartParsePreserves, ParsePreserves, StartAttPreserves,
       SaveLocalPreserves, EndAttPreserves DEF Next
  <2>2. CASE UNCHANGED vars
    BY <2>2 DEF vars, AttachmentsInv, TypeOK, Sending, Saving, Stored, Stores, Parsing, Receiving, Att
  <2> QED BY <2>1, <2>2
<1> QED BY <1>1, <1>2, PTL DEF Spec

\* Every attachment has a name and contents: no name is parsed that has no file.
THEOREM TypeCorrect == Spec => []TypeOK
<1>1. AttachmentsInv => TypeOK
  BY DEF AttachmentsInv
<1> QED BY <1>1, AttachmentsInvariant, PTL

\* Of the files of one base name the receiver gets the one that was chosen first.
THEOREM FirstSaved == Spec => []FirstChosenSaved
<1>1. AttachmentsInv => FirstChosenSaved
  <2> SUFFICES ASSUME AttachmentsInv, phase = "saved", NEW n \in Name
               PROVE  IF Named(n) = {} THEN local[n] \in {NoFile, Earlier}
                      ELSE \E i \in Named(n) : local[n] = chosen[i] /\ \A j \in Named(n) : i <= j
    BY DEF FirstChosenSaved
  <2>1. DOMAIN chosen = 1..Len(chosen) /\ 0 + 1 = 1
    BY DEF AttachmentsInv, TypeOK
  <2>2. Stores(n, 0)
    BY DEF AttachmentsInv, Stored
  <2>3. IF folder[n] = NoFile THEN local[n] \in {NoFile, Earlier} ELSE local[n] = folder[n]
    BY DEF AttachmentsInv, Receiving
  <2>4. CASE folder[n] = NoFile /\ \A j \in (0 + 1)..Len(chosen) : basename[chosen[j]] # n
    <3>1. Named(n) = {}
      BY <2>1, <2>4 DEF Named
    <3> QED BY <2>3, <2>4, <3>1
  <2>5. CASE \E j \in (0 + 1)..Len(chosen) :
               /\ folder[n] = chosen[j] /\ basename[chosen[j]] = n
               /\ \A l \in (0 + 1)..Len(chosen) : basename[chosen[l]] = n => j <= l
    <3>1. PICK j \in 1..Len(chosen) :
            /\ folder[n] = chosen[j] /\ basename[chosen[j]] = n
            /\ \A l \in 1..Len(chosen) : basename[chosen[l]] = n => j <= l
      BY <2>1, <2>5
    <3>2. j \in Named(n) /\ \A l \in Named(n) : j <= l
      BY <2>1, <3>1 DEF Named
    <3>3. folder[n] # NoFile
      BY <3>1, AttachmentsAssumption DEF AttachmentsInv, TypeOK
    <3> QED BY <2>3, <3>1, <3>2, <3>3
  <2> QED BY <2>2, <2>4, <2>5 DEF Stores
<1> QED BY <1>1, AttachmentsInvariant, PTL

=============================================================================
