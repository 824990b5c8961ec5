------------------------- MODULE NetTransferProofs -------------------------
(***************************************************************************)
(* Proofs about NetTransfer, for files of every size and any number of     *)
(* operations and of PDUs pushed by others: an upload or a download that   *)
(* is reported as complete is the file, and no piece of a file is taken    *)
(* for a PDU, as long as operations come alone.                            *)
(*                                                                         *)
(* While the user's operation is alone the whole system is in one of five  *)
(* phases.  What matters in each is the sequence of all units on their way *)
(* to a side, those in its socket's buffer first: how the units are split  *)
(* between the buffer and the network, and how many a readyRead finds, is  *)
(* of no account.  When a file is under way, what the receiver has written *)
(* and what is on its way are together what the sender read.  When a PDU   *)
(* has got in its way only the kinds of what is on its way are known, and  *)
(* that the other side is in no file mode.  Nothing is said of the other   *)
(* times: an operation that the user starts when all is quiet finds        *)
(* nothing left of them (LEMMA ClicksStart).                               *)
(***************************************************************************)
EXTENDS NetTransfer, TLAPS, SequenceTheorems

\* The requests that are no transfers, and what the client is told.
Asks == DOMAIN Answers
Notices == {"shown", "changed"} \cup DOMAIN BoxOf
Requests == Asks \cup {"downloadDir", "downloadNone"}

\* What travels: PDUs and pieces of files.
Units ==
  [kind : Requests \cup Notices, n : {0}]
  \cup [kind : {"upload", "sending"}, n : Nat] \cup [kind : {"download"}, n : Files]
  \cup [kind : {"data"}, n : (0..MaxClicks) \X Nat]

\* All that is on its way to the server, and to the client.
Out == sBuf \o c2s
In == cBuf \o s2c
Kinds(s, kinds) == \A i \in 1..Len(s) : s[i].kind \in kinds

ServerFile == [there : BOOLEAN, open : BOOLEAN, data : Seq(Units)]

StreamTypes ==
  /\ c2s \in Seq(Units) /\ s2c \in Seq(Units) /\ sBuf \in Seq(Units) /\ cBuf \in Seq(Units)
  /\ cFile \in Seq(Units)

Base == TypeOK /\ StreamTypes /\ sFile \in ServerFile /\ clicks \in 0..MaxClicks

\* No file is under way: an operation that is none, or a transfer that is
\* complete.
Resting ==
  /\ ~upLoad /\ ~sTimer /\ ~upTimer /\ ~downLoad
  /\ Kinds(Out, Requests) /\ Kinds(In, Notices)
  /\ got \in {<<>>, <<op, want>>}

\* The announcement and the pieces behind it, or the copy and the rest of them.
Uploading ==
  /\ op = "upload" /\ ~disturbed
  /\ ~sTimer /\ ~downLoad /\ got = <<>> /\ want = Pieces(upFile)
  /\ Kinds(In, Notices)
  /\ \/ ~upLoad /\ Out = <<Unit("upload", upFile.size)>> \o (IF upTimer THEN <<>> ELSE want)
     \/ /\ upLoad /\ sFile.open /\ sTotal = upFile.size /\ sRecved = Len(sFile.data)
        /\ sTotal > 0 => sRecved < sTotal
        /\ IF upTimer THEN sFile.data = <<>> /\ Out = <<>> ELSE sFile.data \o Out = want

DownloadingOf(file) ==
  /\ op = "download" /\ ~disturbed
  /\ ~upLoad /\ ~upTimer /\ box = "none" /\ got = <<>> /\ want = Pieces(file)
  /\ \/ Out = <<Unit("download", file)>> /\ In = <<>> /\ ~sTimer /\ ~downLoad
     \/ /\ Out = <<>>
        /\ sTimer => sFile.there /\ ~sFile.open /\ sFile.data = want
        /\ \/ ~downLoad /\ In = <<Unit("sending", file.size)>> \o (IF sTimer THEN <<>> ELSE want)
           \/ /\ downLoad /\ cTotal = file.size /\ cRecved = Len(cFile)
              /\ cTotal > 0 => cRecved < cTotal
              /\ IF sTimer THEN cFile = <<>> /\ In = <<>> ELSE cFile \o In = want

Downloading == \E file \in Files : DownloadingOf(file)

\* An upload that a PDU of the client's own has got into: the server may take
\* anything for anything, but nothing it sends makes the client wait for a file.
OutOfUpload == Asks \cup {"upload", "data"}
DisturbedUp ==
  /\ op = "upload" /\ disturbed /\ ~sTimer /\ ~downLoad
  /\ Kinds(Out, OutOfUpload) /\ Kinds(In, Notices)

\* A download that another user's PDU has got into: the client may do anything,
\* but it sends no file and announces none.
InOfDownload == Notices \cup {"sending", "data"}
DisturbedDown ==
  /\ op = "download" /\ disturbed /\ ~upLoad /\ ~upTimer
  /\ Kinds(Out, Asks \cup {"download"}) /\ Kinds(In, InOfDownload)
  /\ sTimer => Kinds(sFile.data, {"data"})

TransferInv ==
  /\ Base /\ NotGarbled
  /\ Alone => Resting \/ Uploading \/ Downloading \/ DisturbedUp \/ DisturbedDown

-----------------------------------------------------------------------------
(* The vocabulary.                                                         *)

LEMMA Vocabulary ==
  /\ \A kind \in Asks : Answers[kind] \subseteq Notices
  /\ Pushes \subseteq Notices
  /\ "ask" \in Asks /\ \A b \in DOMAIN ReplyOf : ReplyOf[b] \in Asks
  /\ \A kind \in DOMAIN BoxOf : kind \in Notices /\ BoxOf[kind] \in {"note", "refresh", "question"}
  /\ {"shown", "changed", "told", "uploaded"} \subseteq Notices
  /\ Asks \subseteq Requests /\ {"downloadDir", "downloadNone"} \subseteq Requests
  /\ \A kind \in {"upload", "download", "sending", "data"} : kind \notin Requests \cup Notices
  /\ "downloadDir" \notin Asks /\ "downloadNone" \notin Asks
  /\ \A kind \in Notices : kind \notin Asks
BY DEF Asks, Notices, Requests, Answers, Pushes, BoxOf, ReplyOf

-----------------------------------------------------------------------------
(* Sequences of units.                                                     *)

LEMMA KindsOfConcat ==
  ASSUME NEW s \in Seq(Units), NEW t \in Seq(Units), NEW kinds
  PROVE  Kinds(s \o t, kinds) <=> Kinds(s, kinds) /\ Kinds(t, kinds)
<1>1. PICK m, n \in Nat : m = Len(s) /\ n = Len(t)
  OBVIOUS
<1>2. /\ Len(s \o t) = m + n
      /\ \A i \in 1..m : (s \o t)[i] = s[i]
      /\ \A i \in 1..n : (s \o t)[m + i] = t[i]
  BY <1>1
<1>3. \A i \in 1..(m + n) : i \in 1..m \/ (i - m \in 1..n /\ i = m + (i - m))
  OBVIOUS
<1>4. \A i \in 1..n : m + i \in 1..(m + n)
  OBVIOUS
<1>5. \A i \in 1..m : i \in 1..(m + n)
  OBVIOUS
<1> HIDE <1>1
<1>6. ASSUME Kinds(s \o t, kinds) PROVE Kinds(s, kinds) /\ Kinds(t, kinds)
  BY <1>1, <1>2, <1>4, <1>5, <1>6 DEF Kinds
<1>7. ASSUME Kinds(s, kinds), Kinds(t, kinds) PROVE Kinds(s \o t, kinds)
  <2> SUFFICES ASSUME NEW i \in 1..(m + n) PROVE (s \o t)[i].kind \in kinds
    BY <1>2 DEF Kinds
  <2>1. CASE i \in 1..m
    BY <1>1, <1>2, <1>7, <2>1 DEF Kinds
  <2>2. CASE i - m \in 1..n /\ i = m + (i - m)
    BY <1>1, <1>2, <1>7, <2>2 DEF Kinds
  <2> QED
    BY <1>3, <2>1, <2>2
<1> QED
  BY <1>6, <1>7

LEMMA KindsOfOne ==
  ASSUME NEW unit \in Units, NEW kinds
  PROVE  /\ Kinds(<<unit>>, kinds) <=> unit.kind \in kinds
         /\ Kinds(<<>>, kinds)
BY DEF Kinds

\* A sequence of units with a first one.
LEMMA HeadAndTail ==
  ASSUME NEW s \in Seq(Units), s # <<>>
  PROVE  /\ Head(s) \in Units /\ Tail(s) \in Seq(Units)
         /\ s = <<Head(s)>> \o Tail(s)
         /\ \A kinds : Kinds(s, kinds) => Head(s).kind \in kinds /\ Kinds(Tail(s), kinds)
<1>1. Head(s) \in Units /\ Tail(s) \in Seq(Units) /\ s = <<Head(s)>> \o Tail(s)
  OBVIOUS
<1>2. <<Head(s)>> \in Seq(Units)
  BY <1>1
<1> QED
  BY <1>1, <1>2, KindsOfConcat, KindsOfOne

LEMMA PiecesAreUnits ==
  ASSUME NEW file \in Files
  PROVE  /\ Pieces(file) \in Seq(Units) /\ Len(Pieces(file)) = file.size /\ file.size \in Nat
         /\ Kinds(Pieces(file), {"data"})
<1>1. file.size \in Nat /\ file.op \in 0..MaxClicks
  <2>1. file.size \in Sizes \cup {0} /\ file.op \in 0..MaxClicks
    BY DEF Files
  <2>2. \A x \in Sizes : x \in Nat
    BY SizesAssumption
  <2> QED
    BY <2>1, <2>2
<1>2. \A i \in 1..file.size : Unit("data", <<file.op, i>>) \in Units
  BY <1>1 DEF Unit, Units
<1> QED
  BY <1>1, <1>2 DEF Pieces, Kinds, Unit

\* The parts of a concatenation without its first part.
LEMMA Rest ==
  ASSUME NEW s \in Seq(Units), NEW t \in Seq(Units), NEW k \in 1..Len(t)
  PROVE  LET data == s \o SubSeq(t, 1, k)
             left == SubSeq(t, k + 1, Len(t))
         IN  /\ data \in Seq(Units) /\ left \in Seq(Units) /\ data # <<>>
             /\ data \o left = s \o t
             /\ Head(data) = Head(s \o t) /\ Tail(data) \in Seq(Units)
             /\ Tail(data) \o left = Tail(s \o t) /\ s \o t # <<>>
<1> DEFINE data == s \o SubSeq(t, 1, k)
           left == SubSeq(t, k + 1, Len(t))
<1>1. SubSeq(t, 1, k) \in Seq(Units) /\ left \in Seq(Units) /\ SubSeq(t, 1, k) # <<>>
  OBVIOUS
<1>2. t = SubSeq(t, 1, k) \o left
  OBVIOUS
<1>3. data \in Seq(Units) /\ data # <<>>
  BY <1>1
<1>4. data \o left = s \o t
  <2>1. \A x, y, z \in Seq(Units) : (x \o y) \o z = x \o (y \o z)
    OBVIOUS
  <2>2. PICK x, y \in Seq(Units) : x = SubSeq(t, 1, k) /\ y = left
    BY <1>1
  <2>3. t = x \o y
    BY <1>2, <2>2
  <2>4. (s \o x) \o y = s \o t
    BY <2>1, <2>3
  <2> QED
    BY <2>2, <2>4
<1> HIDE DEF data, left
<1>5. \A x, y \in Seq(Units) : x # <<>> => /\ Head(x) = Head(x \o y) /\ Tail(x) \o y = Tail(x \o y)
                                             /\ Tail(x) \in Seq(Units) /\ x \o y # <<>>
  OBVIOUS
<1>6. /\ Head(data) = Head(data \o left) /\ Tail(data) \o left = Tail(data \o left)
      /\ Tail(data) \in Seq(Units) /\ data \o left # <<>>
  BY <1>1, <1>3, <1>5
<1> QED
  BY <1>1, <1>3, <1>4, <1>6 DEF data, left

-----------------------------------------------------------------------------
(* The streams, and the types.                                             *)

LEMMA StreamsAreUnits ==
  ASSUME Base
  PROVE  /\ Out \in Seq(Units) /\ In \in Seq(Units)
         /\ (Out = <<>> <=> c2s = <<>> /\ sBuf = <<>>)
         /\ (In = <<>> <=> s2c = <<>> /\ cBuf = <<>>)
<1>1. \A s, t \in Seq(Units) : s \o t \in Seq(Units) /\ (s \o t = <<>> <=> s = <<>> /\ t = <<>>)
  OBVIOUS
<1> QED
  BY <1>1 DEF Base, StreamTypes, Out, In

LEMMA Associative ==
  ASSUME NEW x \in Seq(Units), NEW y \in Seq(Units), NEW z \in Seq(Units)
  PROVE  (x \o y) \o z = x \o (y \o z) /\ y \o z \in Seq(Units)
OBVIOUS

\* More is sent.
LEMMA Sending ==
  ASSUME Base, NEW s \in Seq(Units)
  PROVE  /\ sBuf' = sBuf /\ c2s' = c2s \o s => Out' = Out \o s /\ c2s' \in Seq(Units)
         /\ cBuf' = cBuf /\ s2c' = s2c \o s => In' = In \o s /\ s2c' \in Seq(Units)
<1>1. c2s \in Seq(Units) /\ s2c \in Seq(Units) /\ sBuf \in Seq(Units) /\ cBuf \in Seq(Units)
  BY DEF Base, StreamTypes
<1>2. (sBuf \o c2s) \o s = sBuf \o (c2s \o s) /\ c2s \o s \in Seq(Units)
  BY <1>1, Associative
<1>3. (cBuf \o s2c) \o s = cBuf \o (s2c \o s) /\ s2c \o s \in Seq(Units)
  BY <1>1, Associative
<1>4. ASSUME sBuf' = sBuf, c2s' = c2s \o s PROVE Out' = Out \o s /\ c2s' \in Seq(Units)
  BY <1>2, <1>4 DEF Out
<1>5. ASSUME cBuf' = cBuf, s2c' = s2c \o s PROVE In' = In \o s /\ s2c' \in Seq(Units)
  BY <1>3, <1>5 DEF In
<1> QED
  BY <1>4, <1>5

LEMMA AppendIsSending ==
  ASSUME NEW s \in Seq(Units), NEW unit \in Units
  PROVE  Append(s, unit) = s \o <<unit>> /\ <<unit>> \in Seq(Units)
OBVIOUS

\* A socket takes one PDU.
LEMMA ServesOne ==
  ASSUME Base, NEW unit, Serves(unit)
  PROVE  /\ Out # <<>> /\ unit = Head(Out) /\ Out' = Tail(Out) /\ unit \in Units
         /\ c2s' \in Seq(Units) /\ sBuf' \in Seq(Units)
<1>1. PICK k \in 1..Len(c2s) :
        LET data == sBuf \o SubSeq(c2s, 1, k)
        IN  unit = Head(data) /\ sBuf' = Tail(data) /\ c2s' = SubSeq(c2s, k + 1, Len(c2s))
  BY DEF Serves
<1>2. Out # <<>> /\ unit = Head(Out) /\ Out' = Tail(Out) /\ c2s' \in Seq(Units)
      /\ sBuf' \in Seq(Units)
  BY <1>1, Rest DEF Base, StreamTypes, Out
<1> QED
  BY <1>2, StreamsAreUnits, HeadAndTail

LEMMA GetsOne ==
  ASSUME Base, NEW unit, Gets(unit)
  PROVE  /\ In # <<>> /\ unit = Head(In) /\ In' = Tail(In) /\ unit \in Units
         /\ s2c' \in Seq(Units) /\ cBuf' \in Seq(Units)
<1>1. PICK k \in 1..Len(s2c) :
        LET data == cBuf \o SubSeq(s2c, 1, k)
        IN  unit = Head(data) /\ cBuf' = Tail(data) /\ s2c' = SubSeq(s2c, k + 1, Len(s2c))
  BY DEF Gets
<1>2. In # <<>> /\ unit = Head(In) /\ In' = Tail(In) /\ s2c' \in Seq(Units) /\ cBuf' \in Seq(Units)
  BY <1>1, Rest DEF Base, StreamTypes, In
<1> QED
  BY <1>2, StreamsAreUnits, HeadAndTail

LEMMA UnitFields ==
  ASSUME NEW unit \in Units
  PROVE  /\ unit.kind = "download" => unit.n \in Files
         /\ unit.kind \in {"upload", "sending"} => unit.n \in Nat
BY Vocabulary DEF Units

LEMMA PDUs ==
  /\ \A kind \in Requests \cup Notices : Unit(kind, 0) \in Units
  /\ \A kind \in {"upload", "sending"}, n \in Nat : Unit(kind, n) \in Units
  /\ \A file \in Files : Unit("download", file) \in Units
  /\ \A kind, n : Unit(kind, n).kind = kind /\ Unit(kind, n).n = n
BY DEF Unit, Units

\* What ServeData does, and GetData.
LEMMA ServeDataEffect ==
  ASSUME Base, ServeData
  PROVE  \E data \in Seq(Units) :
           /\ data # <<>> /\ data \o Out' = Out /\ Out' \in Seq(Units)
           /\ sBuf' = <<>> /\ c2s' \in Seq(Units) /\ sRecved' = sRecved + Len(data)
           /\ LET written == IF sFile.open THEN sFile.data \o data ELSE sFile.data
              IN  IF Complete(sTotal, sRecved')
                  THEN /\ upLoad' = FALSE
                       /\ sFile' = [sFile EXCEPT !.open = FALSE, !.data = written]
                       /\ Tells(Unit("uploaded", 0)) /\ got' = <<"upload", written>>
                  ELSE sFile' = [sFile EXCEPT !.data = written] /\ UNCHANGED <<upLoad, s2c, got>>
<1>1. PICK k \in 1..Len(c2s) :
        LET data == sBuf \o SubSeq(c2s, 1, k)
            written == IF sFile.open THEN sFile.data \o data ELSE sFile.data
        IN  /\ sBuf' = <<>> /\ c2s' = SubSeq(c2s, k + 1, Len(c2s)) /\ sRecved' = sRecved + Len(data)
            /\ IF Complete(sTotal, sRecved')
               THEN /\ upLoad' = FALSE /\ sFile' = [sFile EXCEPT !.open = FALSE, !.data = written]
                    /\ Tells(Unit("uploaded", 0)) /\ got' = <<"upload", written>>
               ELSE sFile' = [sFile EXCEPT !.data = written] /\ UNCHANGED <<upLoad, s2c, got>>
  BY DEF ServeData
<1> DEFINE data == sBuf \o SubSeq(c2s, 1, k)
           left == SubSeq(c2s, k + 1, Len(c2s))
<1>2. data \in Seq(Units) /\ left \in Seq(Units) /\ data # <<>> /\ data \o left = Out
  BY Rest DEF Base, StreamTypes, Out
<1>3. Out' = left /\ c2s' = left
  BY <1>1, <1>2 DEF Out
<1> HIDE DEF left
<1> QED
  BY <1>1, <1>2, <1>3

LEMMA GetDataEffect ==
  ASSUME Base, GetData
  PROVE  \E data \in Seq(Units) :
           /\ data # <<>> /\ data \o In' = In /\ In' \in Seq(Units)
           /\ cBuf' = <<>> /\ s2c' \in Seq(Units) /\ cFile' = cFile \o data
           /\ IF Complete(cTotal, cRecved + Len(data))
              THEN /\ downLoad' = FALSE /\ cTotal' = 0 /\ cRecved' = 0 /\ box' = "note"
                   /\ got' = <<"download", cFile'>>
              ELSE /\ cRecved' = cRecved + Len(data)
                   /\ UNCHANGED <<downLoad, cTotal, box, got>>
<1>1. PICK k \in 1..Len(s2c) :
        LET data == cBuf \o SubSeq(s2c, 1, k)
        IN  /\ cBuf' = <<>> /\ s2c' = SubSeq(s2c, k + 1, Len(s2c)) /\ cFile' = cFile \o data
            /\ IF Complete(cTotal, cRecved + Len(data))
               THEN /\ downLoad' = FALSE /\ cTotal' = 0 /\ cRecved' = 0 /\ box' = "note"
                    /\ got' = <<"download", cFile'>>
               ELSE /\ cRecved' = cRecved + Len(data)
                    /\ UNCHANGED <<downLoad, cTotal, box, got>>
  BY DEF GetData
<1> DEFINE data == cBuf \o SubSeq(s2c, 1, k)
           left == SubSeq(s2c, k + 1, Len(s2c))
<1>2. data \in Seq(Units) /\ left \in Seq(Units) /\ data # <<>> /\ data \o left = In
  BY Rest DEF Base, StreamTypes, In
<1>3. In' = left /\ s2c' = left
  BY <1>1, <1>2 DEF In
<1> HIDE DEF left
<1> QED
  BY <1>1, <1>2, <1>3

LEMMA NewFile ==
  ASSUME NEW data \in Seq(Units)
  PROVE  /\ \A b \in {TRUE, FALSE} : [there |-> TRUE, open |-> b, data |-> data] \in ServerFile
         /\ [there |-> FALSE, open |-> FALSE, data |-> data] \in ServerFile
BY DEF ServerFile

LEMMA FileFields ==
  ASSUME NEW file \in ServerFile, NEW data \in Seq(Units)
  PROVE  file.data \in Seq(Units) /\ file.data \o data \in Seq(Units)
<1>1. file.data \in Seq(Units)
  BY DEF ServerFile
<1> QED
  BY <1>1

LEMMA FileWritten ==
  ASSUME NEW file \in ServerFile, NEW data \in Seq(Units)
  PROVE  /\ [file EXCEPT !.data = data] \in ServerFile
         /\ [file EXCEPT !.open = FALSE, !.data = data] \in ServerFile
BY DEF ServerFile

LEMMA FileClosed ==
  ASSUME NEW file \in ServerFile
  PROVE  [file EXCEPT !.open = FALSE] \in ServerFile
BY DEF ServerFile

LEMMA TypesOfServer ==
  ASSUME Base, StreamTypes', sFile' \in ServerFile, upLoad' \in BOOLEAN, sTimer' \in BOOLEAN,
         sTotal' \in Nat, sRecved' \in Nat, garbled' \in {"no", "server", "client"},
         UNCHANGED <<downVars, upVars, box, clicks, op>>
  PROVE  Base'
<1>1. sFile'.there \in BOOLEAN /\ sFile'.open \in BOOLEAN
  BY DEF ServerFile
<1>2. cTotal' \in Nat /\ cRecved' \in Nat /\ clicks' \in 0..MaxClicks
  BY DEF Base, TypeOK, downVars
<1>3. downLoad' \in BOOLEAN /\ upTimer' \in BOOLEAN
  BY DEF Base, TypeOK, downVars, upVars
<1>4. upFile' \in Files /\ box' \in {"none", "note", "refresh", "question"} /\ op' \in {"none", "other", "upload", "download", "several"}
  BY DEF Base, TypeOK, upVars
<1>5. {sTotal', sRecved', cTotal', cRecved'} \subseteq Nat
  BY <1>2
<1>6. TypeOK'
  BY <1>1, <1>3, <1>4, <1>5 DEF TypeOK
<1> QED
  BY <1>2, <1>6 DEF Base

\* What the server's steps leave of the client, with the server's types.
LEMMA ServerTypes ==
  ASSUME Base
  PROVE  /\ c2s \in Seq(Units) /\ s2c \in Seq(Units) /\ sBuf \in Seq(Units) /\ cBuf \in Seq(Units)
         /\ cFile \in Seq(Units) /\ sFile \in ServerFile
         /\ sTotal \in Nat /\ sRecved \in Nat /\ garbled \in {"no", "server", "client"}
BY DEF Base, TypeOK, StreamTypes

LEMMA ServerFlags ==
  ASSUME Base
  PROVE  upLoad \in BOOLEAN /\ sTimer \in BOOLEAN
BY DEF Base, TypeOK

LEMMA Told ==
  ASSUME Base, NEW unit \in Units, Tells(unit)
  PROVE  s2c' \in Seq(Units) /\ s2c' = s2c \o <<unit>>
BY ServerTypes DEF Tells

LEMMA NoticesAreUnits ==
  ASSUME NEW kind \in Notices
  PROVE  Unit(kind, 0) \in Units /\ Unit(kind, 0).kind = kind
BY PDUs

\* What ServeAsk sends.
LEMMA Answered ==
  ASSUME Base, ServeAsk
  PROVE  \E unit : /\ Serves(unit) /\ unit.kind \in Asks
                   /\ UNCHANGED s2c \/ \E kind \in Notices : Tells(Unit(kind, 0))
                   /\ UNCHANGED <<serverVars, failed, garbled>>
<1>1. PICK unit : /\ unit.kind \in DOMAIN Answers /\ Serves(unit)
                  /\ UNCHANGED s2c \/ \E kind \in Answers[unit.kind] : Tells(Unit(kind, 0))
                  /\ UNCHANGED <<serverVars, failed, garbled>>
  BY DEF ServeAsk
<1>2. unit.kind \in Asks
  BY <1>1 DEF Asks
<1>3. \A kind \in Answers[unit.kind] : kind \in Notices
  BY <1>2, Vocabulary
<1> QED
  BY <1>1, <1>2, <1>3

LEMMA Pushed ==
  ASSUME Push
  PROVE  \E kind \in Notices : Tells(Unit(kind, 0))
BY Vocabulary DEF Push

LEMMA BaseOfServer ==
  ASSUME Base, Server
  PROVE  Base'
<1>1. /\ upLoad' = upLoad => upLoad' \in BOOLEAN
      /\ sTimer' = sTimer => sTimer' \in BOOLEAN
  BY ServerFlags
<1>2. CASE ServeAsk
  <2>1. PICK unit : /\ Serves(unit)
                    /\ UNCHANGED s2c \/ \E kind \in Notices : Tells(Unit(kind, 0))
                    /\ UNCHANGED <<serverVars, failed, garbled>>
    BY <1>2, Answered
  <2>2. c2s' \in Seq(Units) /\ sBuf' \in Seq(Units)
    BY <2>1, ServesOne
  <2>4. s2c' \in Seq(Units)
    BY <2>1, NoticesAreUnits, Told, ServerTypes
  <2>5. UNCHANGED <<cBuf, downVars, upVars, box, history>>
    BY <2>1 DEF Serves
  <2>6. StreamTypes'
    BY <2>2, <2>4, <2>5, ServerTypes DEF StreamTypes, downVars
  <2>7. sFile' \in ServerFile /\ sTotal' \in Nat /\ sRecved' \in Nat
        /\ garbled' \in {"no", "server", "client"}
    BY <2>1, ServerTypes DEF serverVars
  <2>8. upLoad' = upLoad /\ sTimer' = sTimer
    BY <2>1 DEF serverVars
  <2>9. UNCHANGED <<downVars, upVars, box, clicks, op>>
    BY <2>5 DEF history
  <2> QED
    BY <1>1, <2>6, <2>7, <2>8, <2>9, TypesOfServer
<1>3. CASE ServeUpload
  <2>1. PICK unit :
          /\ unit.kind = "upload" /\ Serves(unit)
          /\ \/ /\ sFile' = [there |-> TRUE, open |-> TRUE, data |-> <<>>]
                /\ upLoad' = TRUE /\ sTotal' = unit.n /\ sRecved' = ReceivedAtStart
             \/ /\ sFile' = [there |-> FALSE, open |-> FALSE, data |-> <<>>]
                /\ UNCHANGED <<upLoad, sTotal, sRecved>>
          /\ UNCHANGED <<s2c, sTimer, garbled>>
    BY <1>3 DEF ServeUpload
  <2>2. c2s' \in Seq(Units) /\ sBuf' \in Seq(Units) /\ unit \in Units
    BY <2>1, ServesOne
  <2>3. unit.n \in Nat
    BY <2>1, <2>2, UnitFields
  <2>4. sFile' \in ServerFile
    <3>1. <<>> \in Seq(Units)
      OBVIOUS
    <3>2. /\ [there |-> TRUE, open |-> TRUE, data |-> <<>>] \in ServerFile
          /\ [there |-> FALSE, open |-> FALSE, data |-> <<>>] \in ServerFile
      BY <3>1, NewFile
    <3> QED
      BY <2>1, <3>2
  <2>5. sTotal' \in Nat /\ sRecved' \in Nat
    BY <2>1, <2>3, ServerTypes DEF ReceivedAtStart
  <2>6. upLoad' \in BOOLEAN
    <3>1. upLoad' = TRUE \/ upLoad' = upLoad
      BY <2>1
    <3> QED
      BY <1>1, <3>1
  <2>7. UNCHANGED <<cBuf, downVars, upVars, box, history>>
    BY <2>1 DEF Serves
  <2>8. StreamTypes'
    BY <2>1, <2>2, <2>7, ServerTypes DEF StreamTypes, downVars
  <2>9. UNCHANGED <<downVars, upVars, box, clicks, op>>
    BY <2>7 DEF history
  <2>10. sTimer' = sTimer /\ garbled' \in {"no", "server", "client"}
    BY <2>1, ServerTypes
  <2> QED
    BY <1>1, <2>4, <2>5, <2>6, <2>8, <2>9, <2>10, TypesOfServer
<1>4. CASE ServeDownload
  <2>1. PICK unit :
          /\ Serves(unit)
          /\ \/ /\ unit.kind = "download"
                /\ sFile' = [there |-> TRUE, open |-> FALSE, data |-> Pieces(unit.n)]
                /\ Tells(Unit("sending", unit.n.size)) /\ sTimer' = TRUE
             \/ /\ unit.kind = "downloadDir" /\ sFile' = NoFile
                /\ Tells(Unit("told", 0)) /\ UNCHANGED sTimer
             \/ /\ unit.kind = "downloadNone" /\ sFile' = NoFile /\ UNCHANGED <<s2c, sTimer>>
          /\ UNCHANGED <<upLoad, sTotal, sRecved, failed, garbled>>
    BY <1>4 DEF ServeDownload
  <2>2. c2s' \in Seq(Units) /\ sBuf' \in Seq(Units) /\ unit \in Units
    BY <2>1, ServesOne
  <2>3. unit.kind = "download" => /\ Pieces(unit.n) \in Seq(Units)
                                  /\ Unit("sending", unit.n.size) \in Units
    BY <2>2, UnitFields, PiecesAreUnits, PDUs
  <2>4. s2c' \in Seq(Units)
    <3>1. Unit("told", 0) \in Units
      BY Vocabulary, NoticesAreUnits
    <3> QED
      BY <2>1, <2>3, <3>1, Told, ServerTypes
  <2>5. sFile' \in ServerFile
    <3>1. NoFile \in ServerFile
      <4>1. <<>> \in Seq(Units)
        OBVIOUS
      <4> QED
        BY <4>1, NewFile DEF NoFile
    <3>2. unit.kind = "download" =>
            [there |-> TRUE, open |-> FALSE, data |-> Pieces(unit.n)] \in ServerFile
      BY <2>3, NewFile
    <3>3. \/ unit.kind = "download"
             /\ sFile' = [there |-> TRUE, open |-> FALSE, data |-> Pieces(unit.n)]
          \/ sFile' = NoFile
      BY <2>1
    <3> QED
      BY <3>1, <3>2, <3>3
  <2>6. sTimer' \in BOOLEAN
    <3>1. sTimer' = TRUE \/ sTimer' = sTimer
      BY <2>1
    <3> QED
      BY <1>1, <3>1
  <2>7. UNCHANGED <<cBuf, downVars, upVars, box, history>>
    BY <2>1 DEF Serves
  <2>8. StreamTypes'
    BY <2>2, <2>4, <2>7, ServerTypes DEF StreamTypes, downVars
  <2>9. UNCHANGED <<downVars, upVars, box, clicks, op>>
    BY <2>7 DEF history
  <2>10. upLoad' = upLoad /\ sTotal' \in Nat /\ sRecved' \in Nat
         /\ garbled' \in {"no", "server", "client"}
    BY <2>1, ServerTypes
  <2> QED
    BY <1>1, <2>5, <2>6, <2>8, <2>9, <2>10, TypesOfServer
<1>5. CASE ServeGarbage
  <2>1. PICK unit : Serves(unit) /\ garbled' = "server" /\ UNCHANGED <<s2c, serverVars, failed>>
    BY <1>5 DEF ServeGarbage
  <2>2. c2s' \in Seq(Units) /\ sBuf' \in Seq(Units)
    BY <2>1, ServesOne
  <2>3. UNCHANGED <<cBuf, downVars, upVars, box, history>>
    BY <2>1 DEF Serves
  <2>4. StreamTypes'
    BY <2>1, <2>2, <2>3, ServerTypes DEF StreamTypes, downVars
  <2>5. sFile' \in ServerFile /\ sTotal' \in Nat /\ sRecved' \in Nat
        /\ garbled' \in {"no", "server", "client"}
    BY <2>1, ServerTypes DEF serverVars
  <2>6. upLoad' = upLoad /\ sTimer' = sTimer
    BY <2>1 DEF serverVars
  <2>7. UNCHANGED <<downVars, upVars, box, clicks, op>>
    BY <2>3 DEF history
  <2> QED
    BY <1>1, <2>4, <2>5, <2>6, <2>7, TypesOfServer
<1>6. CASE ServeData
  <2>1. PICK data \in Seq(Units) :
           /\ sBuf' = <<>> /\ c2s' \in Seq(Units) /\ sRecved' = sRecved + Len(data)
           /\ LET written == IF sFile.open THEN sFile.data \o data ELSE sFile.data
              IN  IF Complete(sTotal, sRecved')
                  THEN /\ upLoad' = FALSE
                       /\ sFile' = [sFile EXCEPT !.open = FALSE, !.data = written]
                       /\ Tells(Unit("uploaded", 0)) /\ got' = <<"upload", written>>
                  ELSE sFile' = [sFile EXCEPT !.data = written] /\ UNCHANGED <<upLoad, s2c, got>>
    BY <1>6, ServeDataEffect
  <2> DEFINE written == IF sFile.open THEN sFile.data \o data ELSE sFile.data
  <2>2. written \in Seq(Units)
    BY ServerTypes, FileFields
  <2>3. \/ upLoad' = FALSE /\ sFile' = [sFile EXCEPT !.open = FALSE, !.data = written]
           /\ Tells(Unit("uploaded", 0))
        \/ sFile' = [sFile EXCEPT !.data = written] /\ UNCHANGED <<upLoad, s2c>>
    BY <2>1
  <2> HIDE DEF written
  <2>4. sFile' \in ServerFile
    BY <2>2, <2>3, FileWritten, ServerTypes
  <2>5. s2c' \in Seq(Units)
    <3>1. Unit("uploaded", 0) \in Units
      BY Vocabulary, NoticesAreUnits
    <3> QED
      BY <2>3, <3>1, Told, ServerTypes
  <2>6. upLoad' \in BOOLEAN
    <3>1. upLoad' = FALSE \/ upLoad' = upLoad
      BY <2>3
    <3> QED
      BY <1>1, <3>1
  <2>7. UNCHANGED <<cBuf, sTotal, sTimer, downVars, upVars, box, history, failed, garbled>>
    BY <1>6 DEF ServeData
  <2>8. sRecved' \in Nat
    BY <2>1, ServerTypes
  <2>9. StreamTypes'
    <3>1. sBuf' \in Seq(Units)
      BY <2>1
    <3> QED
      BY <2>1, <2>5, <2>7, <3>1, ServerTypes DEF StreamTypes, downVars
  <2>10. UNCHANGED <<downVars, upVars, box, clicks, op>>
    BY <2>7 DEF history
  <2>11. sTimer' = sTimer /\ sTotal' \in Nat /\ garbled' \in {"no", "server", "client"}
    BY <2>7, ServerTypes
  <2> QED
    BY <1>1, <2>4, <2>6, <2>8, <2>9, <2>10, <2>11, TypesOfServer
<1>7. CASE SendFileToClient
  <2>1. /\ sFile' = [sFile EXCEPT !.open = FALSE] /\ (s2c' = s2c \/ s2c' = s2c \o sFile.data)
        /\ UNCHANGED <<c2s, sBuf, cBuf, upLoad, sTotal, sRecved, downVars, upVars, box, history,
                       garbled>>
    BY <1>7 DEF SendFileToClient
  <2>2. sFile' \in ServerFile
    BY <2>1, ServerTypes, FileClosed
  <2>3. s2c' \in Seq(Units)
    <3>1. PICK x, y \in Seq(Units) : x = sFile.data /\ y = s2c
      BY ServerTypes DEF ServerFile
    <3>2. y \o x \in Seq(Units)
      OBVIOUS
    <3> QED
      BY <2>1, <3>1, <3>2
  <2>4. StreamTypes'
    BY <2>1, <2>3, ServerTypes DEF StreamTypes, downVars
  <2>5. sTimer' \in BOOLEAN
    BY <1>7 DEF SendFileToClient
  <2>6. upLoad' = upLoad /\ sTotal' \in Nat /\ sRecved' \in Nat
        /\ garbled' \in {"no", "server", "client"}
    BY <2>1, ServerTypes
  <2>7. UNCHANGED <<downVars, upVars, box, clicks, op>>
    BY <2>1 DEF history
  <2> QED
    BY <1>1, <2>2, <2>4, <2>5, <2>6, <2>7, TypesOfServer
<1>8. CASE Push
  <2>1. UNCHANGED <<c2s, sBuf, cBuf, serverVars, downVars, upVars, box, clicks, op, garbled>>
    BY <1>8 DEF Push
  <2>2. s2c' \in Seq(Units)
    BY <1>8, Pushed, NoticesAreUnits, Told
  <2>3. StreamTypes'
    BY <2>1, <2>2, ServerTypes DEF StreamTypes, downVars
  <2>4. sFile' \in ServerFile /\ sTotal' \in Nat /\ sRecved' \in Nat
        /\ garbled' \in {"no", "server", "client"}
    BY <2>1, ServerTypes DEF serverVars
  <2>5. upLoad' = upLoad /\ sTimer' = sTimer
    BY <2>1 DEF serverVars
  <2> QED
    BY <1>1, <2>1, <2>3, <2>4, <2>5, TypesOfServer
<1> QED
  BY <1>2, <1>3, <1>4, <1>5, <1>6, <1>7, <1>8 DEF Server

LEMMA TypesOfClient ==
  ASSUME Base, StreamTypes', UNCHANGED serverVars,
         downLoad' \in BOOLEAN, upTimer' \in BOOLEAN, cTotal' \in Nat, cRecved' \in Nat,
         upFile' \in Files, box' \in {"none", "note", "refresh", "question"}, clicks' \in 0..MaxClicks,
         op' \in {"none", "other", "upload", "download", "several"}, garbled' \in {"no", "server", "client"}
  PROVE  Base'
<1>1. sFile' = sFile /\ sTotal' = sTotal /\ sRecved' = sRecved /\ upLoad' = upLoad
      /\ sTimer' = sTimer
  BY DEF serverVars
<1>2. sFile' \in ServerFile /\ sTotal' \in Nat /\ sRecved' \in Nat
  BY <1>1, ServerTypes
<1>3. upLoad' \in BOOLEAN /\ sTimer' \in BOOLEAN
  BY <1>1, ServerFlags
<1>4. sFile'.there \in BOOLEAN /\ sFile'.open \in BOOLEAN
  BY <1>2 DEF ServerFile
<1>5. {sTotal', sRecved', cTotal', cRecved'} \subseteq Nat
  BY <1>2
<1>6. TypeOK'
  BY <1>3, <1>4, <1>5 DEF TypeOK
<1> QED
  BY <1>2, <1>6 DEF Base

LEMMA ClientTypes ==
  ASSUME Base
  PROVE  /\ cTotal \in Nat /\ cRecved \in Nat /\ upFile \in Files /\ clicks \in 0..MaxClicks
         /\ box \in {"none", "note", "refresh", "question"} /\ op \in {"none", "other", "upload", "download", "several"}
         /\ garbled \in {"no", "server", "client"}
BY DEF Base, TypeOK

LEMMA ClientFlags ==
  ASSUME Base
  PROVE  downLoad \in BOOLEAN /\ upTimer \in BOOLEAN
BY DEF Base, TypeOK

\* A click, whatever it asks for.
LEMMA BaseOfClick ==
  ASSUME Base, NEW operation \in {"other", "upload", "download"}, NEW unit \in Units, NEW contents,
         Clicks(operation, unit, contents), upFile' \in Files, upTimer' \in BOOLEAN
  PROVE  Base' /\ c2s' = c2s \o <<unit>> /\ Out' = Out \o <<unit>>
<1>1. clicks < MaxClicks /\ clicks' = clicks + 1 /\ c2s' = Append(c2s, unit)
  BY DEF Clicks
<1>2. op' = operation \/ op' = "several"
  BY DEF Clicks
<1>3. UNCHANGED <<s2c, sBuf, cBuf, serverVars, downVars, box, garbled>>
  BY DEF Clicks
<1>4. clicks' \in 0..MaxClicks
  BY <1>1, ClientTypes, SizesAssumption
<1>5. op' \in {"none", "other", "upload", "download", "several"}
  BY <1>2
<1>6. c2s' = c2s \o <<unit>> /\ <<unit>> \in Seq(Units)
  BY <1>1, AppendIsSending, ServerTypes
<1>7. Out' = Out \o <<unit>> /\ c2s' \in Seq(Units)
  BY <1>3, <1>6, Sending
<1>8. StreamTypes'
  BY <1>3, <1>7, ServerTypes DEF StreamTypes, downVars
<1>9. cTotal' \in Nat /\ cRecved' \in Nat
  BY <1>3, ClientTypes DEF downVars
<1>10. downLoad' \in BOOLEAN
  <2>1. downLoad' = downLoad
    BY <1>3 DEF downVars
  <2> QED
    BY <2>1, ClientFlags
<1>11. box' \in {"none", "note", "refresh", "question"} /\ garbled' \in {"no", "server", "client"}
  BY <1>3, ClientTypes
<1>12. UNCHANGED serverVars
  BY <1>3
<1>13. Base'
  BY <1>4, <1>5, <1>8, <1>9, <1>10, <1>11, <1>12, TypesOfClient
<1> QED
  BY <1>6, <1>7, <1>13

LEMMA FileClicked ==
  ASSUME Base, clicks < MaxClicks, NEW size \in Sizes
  PROVE  [op |-> clicks + 1, size |-> size] \in Files /\ size \in Nat
BY ClientTypes, SizesAssumption DEF Files

LEMMA Uploaded ==
  ASSUME Base, UploadFileData
  PROVE  /\ upTimer /\ ~upTimer' /\ Pieces(upFile) \in Seq(Units)
         /\ \/ c2s' = c2s \o Pieces(upFile) /\ Out' = Out \o Pieces(upFile) /\ UNCHANGED failed
            \/ c2s' = c2s /\ Out' = Out /\ failed' = TRUE
         /\ c2s' \in Seq(Units)
<1>1. \/ c2s' = c2s \o Pieces(upFile) /\ UNCHANGED failed
      \/ failed' = TRUE /\ c2s' = c2s
  BY DEF UploadFileData
<1>2. sBuf' = sBuf
  BY DEF UploadFileData
<1>3. Pieces(upFile) \in Seq(Units)
  BY ClientTypes, PiecesAreUnits
<1>4. upTimer /\ ~upTimer'
  BY DEF UploadFileData, TimerStopped
<1>5. CASE c2s' = c2s \o Pieces(upFile) /\ UNCHANGED failed
  BY <1>2, <1>3, <1>4, <1>5, Sending
<1>6. CASE failed' = TRUE /\ c2s' = c2s
  <2>1. Out' = Out
    BY <1>2, <1>6 DEF Out
  <2>2. c2s' \in Seq(Units)
    BY <1>6, ServerTypes
  <2> QED
    BY <1>3, <1>4, <1>6, <2>1, <2>2
<1> QED
  BY <1>1, <1>5, <1>6

\* A client that gets a PDU: what the PDU does not decide.
LEMMA BaseOfGets ==
  ASSUME Base, NEW unit, Gets(unit), downLoad' \in BOOLEAN, cTotal' \in Nat, cRecved' \in Nat,
         cFile' \in Seq(Units), c2s' \in Seq(Units), box' \in {"none", "note", "refresh", "question"},
         garbled' \in {"no", "server", "client"}
  PROVE  Base'
<1>1. s2c' \in Seq(Units) /\ cBuf' \in Seq(Units)
  BY GetsOne
<1>2. UNCHANGED <<sBuf, serverVars, upVars, history>>
  BY DEF Gets
<1>3. StreamTypes'
  BY <1>1, <1>2, ServerTypes DEF StreamTypes
<1>4. upFile' \in Files /\ clicks' \in 0..MaxClicks /\ op' \in {"none", "other", "upload", "download", "several"}
  BY <1>2, ClientTypes DEF upVars, history
<1>5. upTimer' \in BOOLEAN
  <2>1. upTimer' = upTimer
    BY <1>2 DEF upVars
  <2> QED
    BY <2>1, ClientFlags
<1>6. UNCHANGED serverVars
  BY <1>2
<1> QED
  BY <1>3, <1>4, <1>5, <1>6, TypesOfClient

\* A PDU that no button asked for.
LEMMA Replied ==
  ASSUME Base, NEW kind \in Asks, Replies(kind)
  PROVE  /\ Unit(kind, 0) \in Units /\ Unit(kind, 0).kind = kind
         /\ <<Unit(kind, 0)>> \in Seq(Units) /\ c2s' = c2s \o <<Unit(kind, 0)>>
         /\ c2s' \in Seq(Units)
<1>1. Unit(kind, 0) \in Units /\ Unit(kind, 0).kind = kind
  BY Vocabulary, PDUs
<1>2. <<Unit(kind, 0)>> \in Seq(Units) /\ c2s' = c2s \o <<Unit(kind, 0)>>
  BY <1>1, AppendIsSending, ServerTypes DEF Replies
<1> QED
  BY <1>1, <1>2, ServerTypes

LEMMA Closed ==
  ASSUME CloseBox
  PROVE  Silent \/ \E kind \in Asks : Replies(kind)
BY Vocabulary DEF CloseBox

\* What a PDU that is only shown, is followed by a request, or opens a box does.
LEMMA Noticed ==
  ASSUME Base, GetNote \/ GetChanged \/ GetTold
  PROVE  /\ \E unit : Gets(unit) /\ unit.kind \in Notices
         /\ Silent \/ \E kind \in Asks : Replies(kind)
         /\ box' \in {"none", "note", "refresh", "question"}
         /\ UNCHANGED <<downVars, failed, garbled>>
<1>1. CASE GetNote
  BY <1>1, Vocabulary, ClientTypes DEF GetNote
<1>2. CASE GetChanged
  BY <1>2, Vocabulary, ClientTypes DEF GetChanged
<1>3. CASE GetTold
  BY <1>3, Vocabulary DEF GetTold
<1> QED
  BY <1>1, <1>2, <1>3

LEMMA BaseOfClient ==
  ASSUME Base, Client
  PROVE  Base'
<1>1. /\ downLoad' = downLoad => downLoad' \in BOOLEAN
      /\ upTimer' = upTimer => upTimer' \in BOOLEAN
  BY ClientFlags
<1>2. CASE ClickAsk
  <2>1. PICK kind \in Asks : Clicks("other", Unit(kind, 0), <<>>)
    BY <1>2 DEF ClickAsk, Asks
  <2>2. Unit(kind, 0) \in Units
    BY Vocabulary, PDUs
  <2>3. upFile' \in Files
    BY <1>2, ClientTypes DEF ClickAsk, upVars
  <2>4. upTimer' = upTimer
    BY <1>2 DEF ClickAsk, upVars
  <2> QED
    BY <1>1, <2>1, <2>2, <2>3, <2>4, BaseOfClick
<1>3. CASE ClickUpload
  <2>1. PICK size \in Sizes :
          /\ Clicks("upload", Unit("upload", size), Pieces([op |-> clicks + 1, size |-> size]))
          /\ upFile' = [op |-> clicks + 1, size |-> size] /\ upTimer' = TRUE
    BY <1>3 DEF ClickUpload
  <2>2. clicks < MaxClicks
    BY <2>1 DEF Clicks
  <2>3. upFile' \in Files /\ size \in Nat
    BY <2>1, <2>2, FileClicked
  <2>4. Unit("upload", size) \in Units
    BY <2>3, PDUs
  <2>5. upTimer' \in BOOLEAN
    BY <2>1
  <2> QED
    BY <2>1, <2>3, <2>4, <2>5, BaseOfClick
<1>4. CASE ClickDownload
  <2>1. upFile' \in Files
    BY <1>4, ClientTypes DEF ClickDownload, upVars
  <2>2. upTimer' = upTimer
    BY <1>4 DEF ClickDownload, upVars
  <2>3. CASE \E size \in Sizes : Clicks("download", Unit("download", [op |-> clicks + 1, size |-> size]),
                                      Pieces([op |-> clicks + 1, size |-> size]))
    <3>1. PICK size \in Sizes : Clicks("download", Unit("download", [op |-> clicks + 1, size |-> size]),
                                      Pieces([op |-> clicks + 1, size |-> size]))
      BY <2>3
    <3>2. clicks < MaxClicks
      BY <3>1 DEF Clicks
    <3>3. Unit("download", [op |-> clicks + 1, size |-> size]) \in Units
      BY <3>2, FileClicked, PDUs
    <3> QED
      BY <1>1, <2>1, <2>2, <3>1, <3>3, BaseOfClick
  <2>4. Unit("downloadDir", 0) \in Units /\ Unit("downloadNone", 0) \in Units
    BY Vocabulary, PDUs
  <2>5. CASE Clicks("download", Unit("downloadDir", 0), <<>>)
    BY <1>1, <2>1, <2>2, <2>4, <2>5, BaseOfClick
  <2>6. CASE Clicks("download", Unit("downloadNone", 0), <<>>)
    BY <1>1, <2>1, <2>2, <2>4, <2>6, BaseOfClick
  <2> QED
    BY <1>4, <2>3, <2>5, <2>6 DEF ClickDownload
<1>5. CASE UploadFileData
  <2>1. UNCHANGED <<s2c, sBuf, cBuf, serverVars, downVars, upFile, box, history, garbled>>
    BY <1>5 DEF UploadFileData
  <2>2. c2s' \in Seq(Units)
    BY <1>5, Uploaded
  <2>3. StreamTypes'
    BY <2>1, <2>2, ServerTypes DEF StreamTypes, downVars
  <2>4. /\ cTotal' \in Nat /\ cRecved' \in Nat /\ upFile' \in Files /\ clicks' \in 0..MaxClicks
        /\ box' \in {"none", "note", "refresh", "question"} /\ op' \in {"none", "other", "upload", "download", "several"}
        /\ garbled' \in {"no", "server", "client"}
    BY <2>1, ClientTypes DEF downVars, history
  <2>5. downLoad' = downLoad
    BY <2>1 DEF downVars
  <2>6. upTimer' \in BOOLEAN
    BY <1>5 DEF UploadFileData, TimerStopped
  <2> QED
    BY <1>1, <2>1, <2>3, <2>4, <2>5, <2>6, TypesOfClient
<1>6. CASE GetNote \/ GetChanged \/ GetTold
  <2>1. /\ \E unit : Gets(unit)
        /\ Silent \/ \E kind \in Asks : Replies(kind)
        /\ box' \in {"none", "note", "refresh", "question"}
        /\ UNCHANGED <<downVars, failed, garbled>>
    BY <1>6, Noticed
  <2>2. cTotal' \in Nat /\ cRecved' \in Nat /\ cFile' \in Seq(Units)
    BY <2>1, ClientTypes, ServerTypes DEF downVars
  <2>3. downLoad' = downLoad
    BY <2>1 DEF downVars
  <2>4. garbled' \in {"no", "server", "client"}
    BY <2>1, ClientTypes
  <2>5. c2s' \in Seq(Units)
    BY <2>1, Replied, ServerTypes DEF Silent
  <2> QED
    BY <1>1, <2>1, <2>2, <2>3, <2>4, <2>5, BaseOfGets
<1>8. CASE GetSending
  <2>1. PICK unit :
          /\ unit.kind = "sending" /\ Gets(unit) /\ cTotal' = unit.n
          /\ \/ downLoad' = TRUE /\ cRecved' = 0 /\ cFile' = <<>> /\ box' = box
             \/ box' = "note" /\ UNCHANGED <<downLoad, cRecved, cFile>>
          /\ garbled' = garbled /\ c2s' = c2s
    BY <1>8 DEF GetSending, Silent
  <2>2. unit.n \in Nat
    BY <2>1, GetsOne, UnitFields
  <2>3. cTotal' \in Nat /\ cRecved' \in Nat
    BY <2>1, <2>2, ClientTypes
  <2>4. cFile' \in Seq(Units)
    <3>1. <<>> \in Seq(Units)
      OBVIOUS
    <3> QED
      BY <2>1, <3>1, ServerTypes
  <2>5. downLoad' \in BOOLEAN
    <3>1. downLoad' = TRUE \/ downLoad' = downLoad
      BY <2>1
    <3> QED
      BY <1>1, <3>1
  <2>6. box' \in {"none", "note", "refresh", "question"} /\ garbled' \in {"no", "server", "client"}
    BY <2>1, ClientTypes
  <2>7. c2s' \in Seq(Units)
    BY <2>1, ServerTypes
  <2> QED
    BY <2>1, <2>3, <2>4, <2>5, <2>6, <2>7, BaseOfGets
<1>9. CASE GetGarbage
  <2>1. PICK unit : Gets(unit) /\ garbled' = "client" /\ UNCHANGED <<downVars, box, failed, c2s>>
    BY <1>9 DEF GetGarbage, Silent
  <2>2. /\ cTotal' \in Nat /\ cRecved' \in Nat /\ cFile' \in Seq(Units)
        /\ c2s' \in Seq(Units)
    BY <2>1, ClientTypes, ServerTypes DEF downVars
  <2>3. downLoad' = downLoad
    BY <2>1 DEF downVars
  <2>4. box' \in {"none", "note", "refresh", "question"} /\ garbled' \in {"no", "server", "client"}
    BY <2>1, ClientTypes
  <2> QED
    BY <1>1, <2>1, <2>2, <2>3, <2>4, BaseOfGets
<1>10. CASE GetData
  <2>1. PICK data \in Seq(Units) :
          /\ cBuf' = <<>> /\ s2c' \in Seq(Units) /\ cFile' = cFile \o data
          /\ IF Complete(cTotal, cRecved + Len(data))
             THEN /\ downLoad' = FALSE /\ cTotal' = 0 /\ cRecved' = 0 /\ box' = "note"
                  /\ got' = <<"download", cFile'>>
             ELSE /\ cRecved' = cRecved + Len(data)
                  /\ UNCHANGED <<downLoad, cTotal, box, got>>
    BY <1>10, GetDataEffect
  <2>2. /\ (downLoad' = FALSE \/ downLoad' = downLoad)
        /\ (cTotal' = 0 \/ cTotal' = cTotal) /\ (cRecved' = 0 \/ cRecved' = cRecved + Len(data))
        /\ (box' = "note" \/ box' = box)
    BY <2>1
  <2>3. UNCHANGED <<c2s, sBuf, serverVars, upVars, history, garbled>>
    BY <1>10 DEF GetData
  <2>4. cBuf' \in Seq(Units) /\ cFile' \in Seq(Units)
    BY <2>1, ServerTypes
  <2>5. StreamTypes'
    BY <2>1, <2>3, <2>4, ServerTypes DEF StreamTypes
  <2>6. cTotal' \in Nat /\ cRecved' \in Nat /\ box' \in {"none", "note", "refresh", "question"}
    BY <2>2, ClientTypes
  <2>7. downLoad' \in BOOLEAN
    BY <1>1, <2>2
  <2>8. /\ upFile' \in Files /\ clicks' \in 0..MaxClicks /\ op' \in {"none", "other", "upload", "download", "several"}
        /\ garbled' \in {"no", "server", "client"}
    BY <2>3, ClientTypes DEF upVars, history
  <2>9. upTimer' = upTimer
    BY <2>3 DEF upVars
  <2> QED
    BY <1>1, <2>3, <2>5, <2>6, <2>7, <2>8, <2>9, TypesOfClient
<1>11. CASE ArriveSilently
  <2>1. /\ cBuf' = cBuf \o s2c /\ s2c' = <<>>
        /\ UNCHANGED <<c2s, sBuf, serverVars, downVars, upVars, box, history, garbled>>
    BY <1>11 DEF ArriveSilently
  <2>2. cBuf' \in Seq(Units) /\ s2c' \in Seq(Units)
    BY <2>1, ServerTypes
  <2>3. StreamTypes'
    BY <2>1, <2>2, ServerTypes DEF StreamTypes, downVars
  <2>4. /\ cTotal' \in Nat /\ cRecved' \in Nat /\ upFile' \in Files /\ clicks' \in 0..MaxClicks
        /\ box' \in {"none", "note", "refresh", "question"} /\ op' \in {"none", "other", "upload", "download", "several"}
        /\ garbled' \in {"no", "server", "client"}
    BY <2>1, ClientTypes DEF downVars, upVars, history
  <2>5. downLoad' = downLoad /\ upTimer' = upTimer
    BY <2>1 DEF downVars, upVars
  <2> QED
    BY <1>1, <2>1, <2>3, <2>4, <2>5, TypesOfClient
<1>12. CASE CloseBox
  <2>1. /\ box' = "none"
        /\ UNCHANGED <<s2c, sBuf, cBuf, serverVars, downVars, upVars, history, garbled>>
    BY <1>12 DEF CloseBox
  <2>2. c2s' \in Seq(Units)
    BY <1>12, Closed, Replied, ServerTypes DEF Silent
  <2>3. StreamTypes'
    BY <2>1, <2>2, ServerTypes DEF StreamTypes, downVars
  <2>4. /\ cTotal' \in Nat /\ cRecved' \in Nat /\ upFile' \in Files /\ clicks' \in 0..MaxClicks
        /\ box' \in {"none", "note", "refresh", "question"} /\ op' \in {"none", "other", "upload", "download", "several"}
        /\ garbled' \in {"no", "server", "client"}
    BY <2>1, ClientTypes DEF downVars, upVars, history
  <2>5. downLoad' = downLoad /\ upTimer' = upTimer
    BY <2>1 DEF downVars, upVars
  <2> QED
    BY <1>1, <2>1, <2>3, <2>4, <2>5, TypesOfClient
<1> QED
  BY <1>2, <1>3, <1>4, <1>5, <1>6, <1>8, <1>9, <1>10, <1>11, <1>12 DEF Client

-----------------------------------------------------------------------------
(* What a step does to what is on its way.                                 *)

LEMMA ServesKinds ==
  ASSUME Base, NEW unit, Serves(unit), NEW kinds, Kinds(Out, kinds)
  PROVE  unit.kind \in kinds /\ Kinds(Out', kinds)
<1>1. Out \in Seq(Units) /\ Out # <<>> /\ unit = Head(Out) /\ Out' = Tail(Out)
  BY ServesOne, StreamsAreUnits
<1>2. Head(Out).kind \in kinds /\ Kinds(Tail(Out), kinds)
  BY <1>1, HeadAndTail
<1> QED
  BY <1>1, <1>2

LEMMA GetsKinds ==
  ASSUME Base, NEW unit, Gets(unit), NEW kinds, Kinds(In, kinds)
  PROVE  unit.kind \in kinds /\ Kinds(In', kinds)
<1>1. In \in Seq(Units) /\ In # <<>> /\ unit = Head(In) /\ In' = Tail(In)
  BY GetsOne, StreamsAreUnits
<1>2. Head(In).kind \in kinds /\ Kinds(Tail(In), kinds)
  BY <1>1, HeadAndTail
<1> QED
  BY <1>1, <1>2

LEMMA TellsMore ==
  ASSUME Base, NEW unit \in Units, Tells(unit), cBuf' = cBuf
  PROVE  In' = In \o <<unit>> /\ <<unit>> \in Seq(Units)
<1>1. s2c' = s2c \o <<unit>> /\ <<unit>> \in Seq(Units)
  BY AppendIsSending, ServerTypes DEF Tells
<1> QED
  BY <1>1, Sending

LEMMA TellsKinds ==
  ASSUME Base, NEW unit \in Units, Tells(unit), cBuf' = cBuf,
         NEW kinds, Kinds(In, kinds), unit.kind \in kinds
  PROVE  Kinds(In', kinds)
<1>1. In' = In \o <<unit>> /\ <<unit>> \in Seq(Units) /\ In \in Seq(Units)
  BY TellsMore, StreamsAreUnits
<1>2. Kinds(<<unit>>, kinds)
  BY KindsOfOne
<1> QED
  BY <1>1, <1>2, KindsOfConcat

LEMMA FirstOfMany ==
  ASSUME NEW unit \in Units, NEW s \in Seq(Units)
  PROVE  Head(<<unit>> \o s) = unit /\ Tail(<<unit>> \o s) = s /\ <<unit>> \o s # <<>>
OBVIOUS

LEMMA Silently ==
  ASSUME Base, ArriveSilently
  PROVE  In' = In /\ Out' = Out /\ box # "none"
<1>1. cBuf' = cBuf \o s2c /\ s2c' = <<>> /\ sBuf' = sBuf /\ c2s' = c2s /\ box # "none"
  BY DEF ArriveSilently
<1>2. (cBuf \o s2c) \o <<>> = cBuf \o s2c
  BY ServerTypes
<1> QED
  BY <1>1, <1>2 DEF In, Out

LEMMA NoticeKinds ==
  ASSUME Base, NEW kind \in Notices, Tells(Unit(kind, 0)), cBuf' = cBuf,
         NEW kinds, Kinds(In, kinds), Notices \subseteq kinds
  PROVE  Kinds(In', kinds)
<1>1. Unit(kind, 0) \in Units /\ Unit(kind, 0).kind \in kinds
  BY NoticesAreUnits
<1> QED
  BY <1>1, TellsKinds

\* What the client writes of itself is a request.
LEMMA RepliesKinds ==
  ASSUME Base, Silent \/ \E kind \in Asks : Replies(kind), sBuf' = sBuf,
         NEW kinds, Kinds(Out, kinds), Asks \subseteq kinds
  PROVE  Kinds(Out', kinds)
<1>1. CASE Silent
  BY <1>1 DEF Silent, Out
<1>2. CASE \E kind \in Asks : Replies(kind)
  <2>1. PICK kind \in Asks : Replies(kind)
    BY <1>2
  <2>2. /\ <<Unit(kind, 0)>> \in Seq(Units) /\ Out' = Out \o <<Unit(kind, 0)>>
        /\ Kinds(<<Unit(kind, 0)>>, kinds)
    BY <2>1, Replied, Sending, KindsOfOne
  <2> QED
    BY <2>2, KindsOfConcat, StreamsAreUnits
<1> QED
  BY <1>1, <1>2

\* Closing a box, and getting a PDU that is only shown, followed by a request, or
\* opens a box, for kinds of units that take what may be written.
LEMMA Closing ==
  ASSUME Base, CloseBox, NEW kinds, Kinds(Out, kinds), Asks \subseteq kinds
  PROVE  In' = In /\ Kinds(Out', kinds)
<1>1. s2c' = s2c /\ cBuf' = cBuf /\ sBuf' = sBuf
  BY DEF CloseBox
<1>2. Kinds(Out', kinds)
  BY <1>1, Closed, RepliesKinds
<1> QED
  BY <1>1, <1>2 DEF In

LEMMA Noticing ==
  ASSUME Base, GetNote \/ GetChanged \/ GetTold, NEW outKinds, NEW inKinds,
         Kinds(Out, outKinds), Kinds(In, inKinds), Asks \subseteq outKinds
  PROVE  /\ Kinds(Out', outKinds) /\ Kinds(In', inKinds)
         /\ UNCHANGED <<serverVars, downVars, upVars, history, got>>
<1>1. PICK unit : Gets(unit)
  BY Noticed
<1>2. Kinds(In', inKinds)
  BY <1>1, GetsKinds
<1>3. UNCHANGED <<sBuf, serverVars, upVars, history, got>>
  BY <1>1 DEF Gets
<1>4. Kinds(Out', outKinds)
  BY <1>3, Noticed, RepliesKinds
<1> QED
  BY <1>2, <1>3, <1>4, Noticed

\* A PDU of the client's own disturbs nothing but an upload.
LEMMA Disturbing ==
  ASSUME Silent \/ \E kind \in Asks : Replies(kind)
  PROVE  /\ disturbed => disturbed'
         /\ Silent \/ (op = "upload" /\ got = <<>> => disturbed')
<1>1. CASE Silent
  BY <1>1 DEF Silent
<1>2. CASE \E kind \in Asks : Replies(kind)
  <2>1. disturbed' = (disturbed \/ Transferring("upload"))
    BY <1>2 DEF Replies
  <2>2. disturbed => disturbed'
    BY <2>1
  <2>3. op = "upload" /\ got = <<>> => disturbed'
    BY <2>1 DEF Transferring
  <2> QED
    BY <2>2, <2>3
<1> QED
  BY <1>1, <1>2

-----------------------------------------------------------------------------
(* At rest.                                                                *)

LEMMA RestingKept ==
  ASSUME Resting, UNCHANGED <<upLoad, sTimer, upTimer, downLoad, op, want, got>>,
         Kinds(Out', Requests), Kinds(In', Notices)
  PROVE  Resting'
BY DEF Resting

LEMMA RestingStays ==
  ASSUME Base, Resting, Server \/ UploadFileData \/ CloseBox \/ GetNote \/ GetChanged \/ GetTold
                        \/ GetSending \/ GetGarbage \/ GetData \/ ArriveSilently
  PROVE  Resting' /\ ~ServeGarbage /\ ~GetGarbage
<1>1. Kinds(Out, Requests) /\ Kinds(In, Notices) /\ Asks \subseteq Requests
  BY Vocabulary DEF Resting
<1>2. ~upLoad /\ ~sTimer /\ ~upTimer /\ ~downLoad
  BY DEF Resting
<1>3. /\ ~ServeUpload /\ ~ServeGarbage /\ ~GetSending /\ ~GetGarbage
  <2>1. \A unit : Serves(unit) => unit.kind \in Requests
    BY <1>1, ServesKinds
  <2>2. \A unit : Gets(unit) => unit.kind \in Notices
    BY <1>1, GetsKinds
  <2> QED
    BY <2>1, <2>2, Vocabulary DEF ServeUpload, ServeGarbage, GetSending, GetGarbage
<1>4. ~ServeData /\ ~SendFileToClient /\ ~UploadFileData /\ ~GetData
  BY <1>2 DEF ServeData, SendFileToClient, UploadFileData, GetData
<1>5. CASE ServeAsk
  <2>1. PICK unit : /\ Serves(unit) /\ UNCHANGED serverVars
                    /\ UNCHANGED s2c \/ \E kind \in Notices : Tells(Unit(kind, 0))
    BY <1>5, Answered
  <2>2. UNCHANGED <<cBuf, downVars, upVars, history, got>>
    BY <2>1 DEF Serves
  <2>3. Kinds(Out', Requests)
    BY <1>1, <2>1, ServesKinds
  <2>4. Kinds(In', Notices)
    <3>1. CASE UNCHANGED s2c
      BY <1>1, <2>2, <3>1 DEF In
    <3>2. CASE \E kind \in Notices : Tells(Unit(kind, 0))
      BY <1>1, <2>2, <3>2, NoticeKinds
    <3> QED
      BY <2>1, <3>1, <3>2
  <2> QED
    BY <1>3, <2>1, <2>2, <2>3, <2>4, RestingKept DEF serverVars, downVars, upVars, history
<1>6. CASE ServeDownload
  <2>1. PICK unit :
          /\ Serves(unit)
          /\ \/ unit.kind = "download"
             \/ Tells(Unit("told", 0)) /\ UNCHANGED sTimer
             \/ UNCHANGED <<s2c, sTimer>>
          /\ UNCHANGED <<upLoad>>
    BY <1>6 DEF ServeDownload
  <2>2. UNCHANGED <<cBuf, downVars, upVars, history, got>>
    BY <2>1 DEF Serves
  <2>3. Kinds(Out', Requests) /\ unit.kind # "download"
    BY <1>1, <2>1, ServesKinds, Vocabulary
  <2>4. Kinds(In', Notices)
    <3>1. CASE Tells(Unit("told", 0))
      BY <1>1, <2>2, <3>1, NoticeKinds, Vocabulary
    <3>2. CASE s2c' = s2c
      <4>1. In' = In
        BY <2>2, <3>2 DEF In
      <4> QED
        BY <1>1, <4>1
    <3> QED
      BY <2>1, <2>3, <3>1, <3>2
  <2>5. sTimer' = sTimer /\ upLoad' = upLoad
    BY <2>1, <2>3
  <2> QED
    BY <1>3, <2>2, <2>3, <2>4, <2>5, RestingKept DEF downVars, upVars, history
<1>7. CASE Push
  <2>1. UNCHANGED <<c2s, sBuf, cBuf, serverVars, downVars, upVars, op, want, got>>
    BY <1>7 DEF Push
  <2>2. Kinds(In', Notices)
    BY <1>1, <1>7, <2>1, Pushed, NoticeKinds
  <2>3. Out' = Out
    BY <2>1 DEF Out
  <2> QED
    BY <1>1, <1>3, <2>1, <2>2, <2>3, RestingKept DEF serverVars, downVars, upVars
<1>8. CASE CloseBox
  <2>1. UNCHANGED <<serverVars, downVars, upVars, history, got>>
    BY <1>8 DEF CloseBox
  <2>2. In' = In /\ Kinds(Out', Requests)
    BY <1>1, <1>8, Closing
  <2> QED
    BY <1>1, <1>3, <2>1, <2>2, RestingKept DEF serverVars, downVars, upVars, history
<1>9. CASE GetNote \/ GetChanged \/ GetTold
  <2>1. /\ Kinds(Out', Requests) /\ Kinds(In', Notices)
        /\ UNCHANGED <<serverVars, downVars, upVars, history, got>>
    BY <1>1, <1>9, Noticing
  <2> QED
    BY <1>3, <2>1, RestingKept DEF serverVars, downVars, upVars, history
<1>10. CASE ArriveSilently
  <2>1. UNCHANGED <<serverVars, downVars, upVars, history, got>>
    BY <1>10 DEF ArriveSilently
  <2>2. In' = In /\ Out' = Out
    BY <1>10, Silently
  <2> QED
    BY <1>1, <1>3, <2>1, <2>2, RestingKept DEF serverVars, downVars, upVars, history
<1> QED
  BY <1>3, <1>4, <1>5, <1>6, <1>7, <1>8, <1>9, <1>10 DEF Server

-----------------------------------------------------------------------------
(* An upload.                                                              *)

LEMMA UploadingKept ==
  ASSUME Uploading, Out' = Out, Kinds(In', Notices),
         UNCHANGED <<upLoad, sTotal, sRecved, sFile, sTimer, downLoad, upFile, upTimer, op,
                     disturbed, got, want>>
  PROVE  Uploading'
BY DEF Uploading

\* What the server is to take for the file.
LEMMA UploadIsAnnounced ==
  ASSUME Base, Uploading
  PROVE  /\ want = Pieces(upFile) /\ want \in Seq(Units) /\ Len(want) = upFile.size
         /\ upFile.size \in Nat /\ Unit("upload", upFile.size) \in Units
         /\ Unit("upload", upFile.size).kind = "upload"
         /\ Unit("upload", upFile.size).n = upFile.size
<1>1. want = Pieces(upFile) /\ upFile \in Files
  BY ClientTypes DEF Uploading
<1>2. want \in Seq(Units) /\ Len(want) = upFile.size /\ upFile.size \in Nat
  BY <1>1, PiecesAreUnits
<1> QED
  BY <1>1, <1>2, PDUs

LEMMA UploadIsServed ==
  ASSUME Base, Uploading, NEW unit, Serves(unit)
  PROVE  unit = Unit("upload", upFile.size) /\ Out' = IF upTimer THEN <<>> ELSE want
<1>1. Out = <<Unit("upload", upFile.size)>> \o (IF upTimer THEN <<>> ELSE want)
  BY DEF Uploading, Serves
<1>2. (IF upTimer THEN <<>> ELSE want) \in Seq(Units)
  <2>1. <<>> \in Seq(Units)
    OBVIOUS
  <2> QED
    BY <2>1, UploadIsAnnounced
<1>3. Unit("upload", upFile.size) \in Units
  BY UploadIsAnnounced
<1>4. unit = Head(Out) /\ Out' = Tail(Out)
  BY ServesOne
<1> HIDE DEF Uploading
<1> QED
  BY <1>1, <1>2, <1>3, <1>4, FirstOfMany

LEMMA UploadProgress ==
  ASSUME Base, Uploading, ServeData, Alone
  PROVE  (Uploading \/ Resting)'
<1>1. PICK data \in Seq(Units) :
           /\ data # <<>> /\ data \o Out' = Out /\ Out' \in Seq(Units)
           /\ sRecved' = sRecved + Len(data)
           /\ LET written == IF sFile.open THEN sFile.data \o data ELSE sFile.data
              IN  IF Complete(sTotal, sRecved')
                  THEN /\ upLoad' = FALSE
                       /\ sFile' = [sFile EXCEPT !.open = FALSE, !.data = written]
                       /\ Tells(Unit("uploaded", 0)) /\ got' = <<"upload", written>>
                  ELSE sFile' = [sFile EXCEPT !.data = written] /\ UNCHANGED <<upLoad, s2c, got>>
  BY ServeDataEffect
<1>2. upLoad /\ UNCHANGED <<cBuf, sTotal, sTimer, downVars, upVars, box, history, disturbed, failed, garbled>>
  BY DEF ServeData
<1>3. /\ ~sTimer /\ ~downLoad /\ op = "upload" /\ got = <<>> /\ want = Pieces(upFile)
      /\ Kinds(In, Notices) /\ ~disturbed
  BY DEF Uploading
<1>4. /\ ~upLoad => Out = <<Unit("upload", upFile.size)>> \o (IF upTimer THEN <<>> ELSE want)
      /\ upLoad => /\ sFile.open /\ sTotal = upFile.size /\ sRecved = Len(sFile.data)
                   /\ IF upTimer THEN sFile.data = <<>> /\ Out = <<>> ELSE sFile.data \o Out = want
  BY DEF Uploading
<1>5. sFile.open /\ sTotal = upFile.size /\ sRecved = Len(sFile.data)
  BY <1>2, <1>4
<1>6. ~upTimer /\ sFile.data \o Out = want
  <2>1. Out # <<>>
    <3>1. \A t \in Seq(Units) : data \o t # <<>>
      BY <1>1
    <3> QED
      BY <1>1, <3>1
  <2> QED
    BY <1>2, <1>4, <2>1
<1> DEFINE written == sFile.data \o data
<1>7. sFile.data \in Seq(Units)
  BY ServerTypes DEF ServerFile
<1>8. written \in Seq(Units) /\ written \o Out' = want /\ Len(written) = sRecved'
  <2>1. (sFile.data \o data) \o Out' = sFile.data \o (data \o Out')
    BY <1>1, <1>7, Associative
  <2>2. Len(sFile.data \o data) = Len(sFile.data) + Len(data) /\ written \in Seq(Units)
    BY <1>7
  <2> QED
    BY <1>1, <1>5, <1>6, <2>1, <2>2
<1>9. \/ /\ Complete(sTotal, sRecved') /\ ~upLoad' /\ Tells(Unit("uploaded", 0))
         /\ got' = <<"upload", written>>
      \/ /\ ~Complete(sTotal, sRecved') /\ sFile' = [sFile EXCEPT !.data = written]
         /\ UNCHANGED <<upLoad, s2c, got>>
  BY <1>1, <1>5
<1> HIDE DEF written
<1>10. Len(written) + Len(Out') = sTotal /\ sTotal \in Nat /\ sRecved' \in Nat
  <2>1. Len(written \o Out') = Len(written) + Len(Out')
    BY <1>1, <1>8
  <2> QED
    BY <1>5, <1>8, <2>1, UploadIsAnnounced
<1>11. UNCHANGED <<sTimer, downLoad, upTimer, upFile, op, disturbed, want>>
  BY <1>2 DEF downVars, upVars, history
<1>12. CASE Complete(sTotal, sRecved')
  <2>1. Out' = <<>>
    <3>1. sTotal <= Len(written)
      BY <1>8, <1>12 DEF Complete
    <3>2. Len(Out') = 0
      BY <1>1, <1>8, <1>10, <3>1
    <3> QED
      BY <1>1, <3>2
  <2>2. written = want
    BY <1>8, <2>1
  <2>3. got' = <<op', want'>>
    BY <1>3, <1>9, <1>11, <1>12, <2>2
  <2>4. Kinds(Out', Requests)
    BY <2>1 DEF Kinds
  <2>5. Kinds(In', Notices)
    BY <1>2, <1>3, <1>9, <1>12, NoticeKinds, Vocabulary
  <2>6. ~upLoad' /\ ~sTimer' /\ ~upTimer' /\ ~downLoad'
    BY <1>3, <1>6, <1>9, <1>11, <1>12
  <2>7. Resting'
    BY <2>3, <2>4, <2>5, <2>6 DEF Resting
  <2> QED
    BY <2>7
<1>13. CASE ~Complete(sTotal, sRecved')
  <2>1. sFile' = [sFile EXCEPT !.data = written] /\ UNCHANGED <<upLoad, s2c, got>>
    BY <1>9, <1>13
  <2>2. sFile'.data = written /\ sFile'.open = sFile.open
    BY <2>1, ServerTypes DEF ServerFile
  <2>3. In' = In
    BY <1>2, <2>1 DEF In
  <2>4. sRecved' < sTotal'
    BY <1>2, <1>10, <1>13 DEF Complete
  <2>5. upLoad' /\ sFile'.open
    BY <1>2, <1>5, <2>1, <2>2
  <2>6. sTotal' = upFile'.size /\ sRecved' = Len(sFile'.data)
    BY <1>2, <1>5, <1>8, <1>11, <2>2
  <2>7. sFile'.data \o Out' = want'
    BY <1>8, <1>11, <2>2
  <2>8. ~upTimer' /\ ~sTimer' /\ ~downLoad' /\ op' = "upload" /\ got' = <<>>
    BY <1>3, <1>6, <1>11, <2>1
  <2>9. want' = Pieces(upFile') /\ Kinds(In', Notices) /\ ~disturbed'
    BY <1>3, <1>11, <2>3
  <2>10. Uploading'
    BY <2>4, <2>5, <2>6, <2>7, <2>8, <2>9 DEF Uploading
  <2> QED
    BY <2>10
<1> QED
  BY <1>12, <1>13

LEMMA UploadIsTaken ==
  ASSUME Base, Uploading, ServeUpload, Alone'
  PROVE  Uploading'
<1>1. PICK unit :
        /\ Serves(unit)
        /\ \/ /\ sFile' = [there |-> TRUE, open |-> TRUE, data |-> <<>>]
              /\ upLoad' = TRUE /\ sTotal' = unit.n /\ sRecved' = ReceivedAtStart
           \/ failed' = TRUE
        /\ UNCHANGED <<s2c, sTimer>>
  BY DEF ServeUpload
<1>2. UNCHANGED <<cBuf, downVars, upVars, box, history, disturbed, got>>
  BY <1>1 DEF Serves
<1>3. /\ sFile' = [there |-> TRUE, open |-> TRUE, data |-> <<>>]
      /\ upLoad' = TRUE /\ sTotal' = unit.n /\ sRecved' = 0
  BY <1>1 DEF Alone, ReceivedAtStart
<1>4. sFile'.open /\ sFile'.data = <<>> /\ upLoad'
  BY <1>3
<1>5. unit.n = upFile.size /\ upFile.size \in Nat /\ Out' = (IF upTimer THEN <<>> ELSE want)
      /\ want \in Seq(Units)
  BY <1>1, UploadIsServed, UploadIsAnnounced
<1>6. UNCHANGED <<sTimer, downLoad, upTimer, upFile, op, disturbed, want, got>>
  BY <1>1, <1>2 DEF downVars, upVars, history
<1>7. /\ ~sTimer /\ ~downLoad /\ op = "upload" /\ got = <<>> /\ want = Pieces(upFile)
      /\ Kinds(In, Notices) /\ ~disturbed
  BY DEF Uploading
<1>8. In' = In
  BY <1>1, <1>2 DEF In
<1>9. sTotal' = upFile'.size /\ sRecved' = Len(sFile'.data) /\ (sTotal' > 0 => sRecved' < sTotal')
  BY <1>3, <1>4, <1>5, <1>6
<1>10. IF upTimer' THEN sFile'.data = <<>> /\ Out' = <<>> ELSE sFile'.data \o Out' = want'
  <2>1. CASE upTimer
    BY <1>4, <1>5, <1>6, <2>1
  <2>2. CASE ~upTimer
    <3>1. Out' = want /\ <<>> \o want = want
      BY <1>5, <2>2
    <3> QED
      BY <1>4, <1>6, <2>2, <3>1
  <2> QED
    BY <2>1, <2>2
<1>11. ~sTimer' /\ ~downLoad' /\ op' = "upload" /\ got' = <<>> /\ want' = Pieces(upFile')
       /\ Kinds(In', Notices) /\ ~disturbed'
  BY <1>6, <1>7, <1>8
<1> QED
  BY <1>4, <1>9, <1>10, <1>11 DEF Uploading

LEMMA UploadIsSent ==
  ASSUME Base, Uploading, UploadFileData, Alone'
  PROVE  Uploading'
<1>1. UNCHANGED <<s2c, sBuf, cBuf, serverVars, downVars, upFile, box, history, disturbed, got>>
  BY DEF UploadFileData
<1>2. UNCHANGED <<upLoad, sTotal, sRecved, sFile, sTimer, downLoad, op, disturbed, want>>
  BY <1>1 DEF serverVars, downVars, history
<1>3. /\ ~sTimer /\ ~downLoad /\ op = "upload" /\ got = <<>> /\ want = Pieces(upFile)
      /\ Kinds(In, Notices) /\ ~disturbed
  BY DEF Uploading
<1>4. In' = In
  BY <1>1 DEF In
<1>5. ~sTimer' /\ ~downLoad' /\ op' = "upload" /\ got' = <<>> /\ want' = Pieces(upFile')
      /\ Kinds(In', Notices) /\ ~disturbed'
  BY <1>1, <1>2, <1>3, <1>4
<1>6. upTimer /\ ~upTimer' /\ Out' = Out \o want
  BY <1>3, Uploaded DEF Alone
<1>7. Unit("upload", upFile.size) \in Units /\ want \in Seq(Units)
  BY UploadIsAnnounced
<1>8. CASE ~upLoad
  <2>1. Out = <<Unit("upload", upFile.size)>> \o <<>>
    BY <1>6, <1>8 DEF Uploading
  <2>2. <<Unit("upload", upFile.size)>> \o <<>> = <<Unit("upload", upFile.size)>>
    BY <1>7
  <2>3. Out' = <<Unit("upload", upFile'.size)>> \o (IF upTimer' THEN <<>> ELSE want')
    BY <1>1, <1>2, <1>6, <2>1, <2>2
  <2>4. ~upLoad'
    BY <1>2, <1>8
  <2> QED
    BY <1>5, <2>3, <2>4 DEF Uploading
<1>9. CASE upLoad
  <2>1. /\ sFile.open /\ sTotal = upFile.size /\ sRecved = Len(sFile.data)
        /\ (sTotal > 0 => sRecved < sTotal)
        /\ sFile.data = <<>> /\ Out = <<>>
    BY <1>6, <1>9 DEF Uploading
  <2>2. <<>> \o want = want
    BY <1>7
  <2>3. Out' = want' /\ sFile'.data = <<>> /\ <<>> \o want' = want'
    BY <1>2, <1>6, <2>1, <2>2
  <2>4. sFile'.data \o Out' = want'
    BY <2>3
  <2>5. upLoad' /\ sFile'.open
    BY <1>2, <1>9, <2>1
  <2>6. /\ sTotal' = upFile'.size /\ sRecved' = Len(sFile'.data)
        /\ (sTotal' > 0 => sRecved' < sTotal')
    BY <1>1, <1>2, <2>1
  <2> QED
    BY <1>5, <1>6, <2>4, <2>5, <2>6 DEF Uploading
<1> QED
  BY <1>8, <1>9

\* What is known of an upload's units when something gets in their way.
LEMMA UploadKinds ==
  ASSUME Base, Uploading
  PROVE  Kinds(Out, OutOfUpload)
<1>1. /\ Unit("upload", upFile.size) \in Units /\ Unit("upload", upFile.size).kind = "upload"
      /\ want \in Seq(Units) /\ Kinds(want, {"data"})
  BY UploadIsAnnounced, PiecesAreUnits, ClientTypes
<1>2. /\ Kinds(<<Unit("upload", upFile.size)>>, OutOfUpload) /\ Kinds(<<>>, OutOfUpload)
      /\ <<Unit("upload", upFile.size)>> \in Seq(Units) /\ <<>> \in Seq(Units)
  BY <1>1, KindsOfOne DEF OutOfUpload
<1>3. Kinds(want, OutOfUpload)
  BY <1>1 DEF Kinds, OutOfUpload
<1>4. CASE Out = <<Unit("upload", upFile.size)>> \o (IF upTimer THEN <<>> ELSE want)
  <2>1. /\ (IF upTimer THEN <<>> ELSE want) \in Seq(Units)
        /\ Kinds(IF upTimer THEN <<>> ELSE want, OutOfUpload)
    BY <1>1, <1>2, <1>3
  <2> QED
    BY <1>2, <1>4, <2>1, KindsOfConcat
<1>5. CASE Out = <<>>
  BY <1>2, <1>5
<1>6. CASE sFile.data \o Out = want
  <2>1. sFile.data \in Seq(Units) /\ Out \in Seq(Units)
    BY ServerTypes, StreamsAreUnits DEF ServerFile
  <2> QED
    BY <1>3, <1>6, <2>1, KindsOfConcat
<1> QED
  BY <1>4, <1>5, <1>6 DEF Uploading

\* What the client writes of itself: it gets into the upload.
LEMMA UploadingOrDisturbed ==
  ASSUME Base, Uploading, Silent \/ \E kind \in Asks : Replies(kind), Kinds(In', Notices),
         UNCHANGED <<sBuf, serverVars, downVars, upVars, history, got>>
  PROVE  (Uploading \/ DisturbedUp)'
<1>1. CASE Silent
  <2>1. Out' = Out /\ disturbed' = disturbed
    BY <1>1 DEF Silent, Out
  <2> QED
    BY <2>1, UploadingKept DEF serverVars, downVars, upVars, history
<1>2. CASE ~Silent
  <2>1. op = "upload" /\ got = <<>> /\ ~sTimer /\ ~downLoad
    BY DEF Uploading
  <2>2. disturbed'
    BY <1>2, <2>1, Disturbing
  <2>3. Asks \subseteq OutOfUpload
    BY DEF OutOfUpload
  <2>4. Kinds(Out', OutOfUpload)
    BY <2>3, UploadKinds, RepliesKinds
  <2>5. op' = "upload" /\ ~sTimer' /\ ~downLoad'
    BY <2>1 DEF serverVars, downVars, history
  <2> QED
    BY <2>2, <2>4, <2>5 DEF DisturbedUp
<1> QED
  BY <1>1, <1>2

LEMMA UploadingStays ==
  ASSUME Base, Uploading, Alone', Alone,
         Server \/ UploadFileData \/ CloseBox \/ GetNote \/ GetChanged \/ GetTold
         \/ GetSending \/ GetGarbage \/ GetData \/ ArriveSilently
  PROVE  (Uploading \/ Resting \/ DisturbedUp)' /\ ~ServeGarbage /\ ~GetGarbage
<1>1. /\ ~sTimer /\ ~downLoad /\ Kinds(In, Notices)
  BY DEF Uploading
<1>2. ~ServeAsk /\ ~ServeDownload /\ ~ServeGarbage
  <2>1. \A unit : Serves(unit) => unit.kind = "upload"
    BY UploadIsServed, UploadIsAnnounced
  <2>2. ~ServeAsk
    BY <2>1, Answered, Vocabulary
  <2> QED
    BY <2>1, <2>2 DEF ServeDownload, ServeGarbage
<1>3. ~GetSending /\ ~GetGarbage
  <2>1. \A unit : Gets(unit) => unit.kind \in Notices
    BY <1>1, GetsKinds
  <2> QED
    BY <2>1, Vocabulary DEF GetSending, GetGarbage
<1>4. ~SendFileToClient /\ ~GetData
  BY <1>1 DEF SendFileToClient, GetData
<1>5. CASE ServeUpload
  BY <1>2, <1>3, <1>5, UploadIsTaken
<1>6. CASE ServeData
  BY <1>2, <1>3, <1>6, UploadProgress
<1>7. CASE UploadFileData
  BY <1>2, <1>3, <1>7, UploadIsSent
<1>8. CASE Push
  <2>1. /\ UNCHANGED <<c2s, sBuf, cBuf, serverVars, downVars, upVars, op, want, got>>
        /\ disturbed' = (disturbed \/ Transferring("download"))
    BY <1>8 DEF Push
  <2>2. Kinds(In', Notices)
    BY <1>1, <1>8, <2>1, Pushed, NoticeKinds
  <2>3. Out' = Out
    BY <2>1 DEF Out
  <2>4. ~disturbed /\ ~disturbed'
    BY <2>1 DEF Uploading, Transferring
  <2>5. Uploading'
    BY <2>1, <2>2, <2>3, <2>4 DEF Uploading, serverVars, downVars, upVars
  <2> QED
    BY <1>2, <1>3, <2>5
<1>9. CASE GetNote \/ GetChanged \/ GetTold
  <2>1. /\ Kinds(In', Notices) /\ UNCHANGED <<serverVars, downVars, upVars, history, got>>
    BY <1>1, <1>9, UploadKinds, Noticing DEF OutOfUpload
  <2>2. sBuf' = sBuf
    <3>1. PICK unit : Gets(unit)
      BY <1>9, Noticed
    <3> QED
      BY <3>1 DEF Gets
  <2>3. Silent \/ \E kind \in Asks : Replies(kind)
    BY <1>9, Noticed
  <2> QED
    BY <1>2, <1>3, <2>1, <2>2, <2>3, UploadingOrDisturbed
<1>10. CASE CloseBox
  <2>1. UNCHANGED <<s2c, sBuf, cBuf, serverVars, downVars, upVars, history, got>>
    BY <1>10 DEF CloseBox
  <2>2. Kinds(In', Notices)
    BY <1>1, <2>1 DEF In
  <2> QED
    BY <1>2, <1>3, <1>10, <2>1, <2>2, Closed, UploadingOrDisturbed
<1>11. CASE ArriveSilently
  <2>1. UNCHANGED <<serverVars, downVars, upVars, history, disturbed, got>>
    BY <1>11 DEF ArriveSilently
  <2>2. In' = In /\ Out' = Out
    BY <1>11, Silently
  <2> QED
    BY <1>1, <1>2, <1>3, <2>1, <2>2, UploadingKept DEF serverVars, downVars, upVars, history
<1> QED
  BY <1>2, <1>3, <1>4, <1>5, <1>6, <1>7, <1>8, <1>9, <1>10, <1>11 DEF Server

-----------------------------------------------------------------------------
(* A download that no other user's PDU has got into.                       *)

LEMMA DownloadFacts ==
  ASSUME NEW file \in Files
  PROVE  /\ Pieces(file) \in Seq(Units) /\ Len(Pieces(file)) = file.size /\ file.size \in Nat
         /\ Unit("download", file) \in Units /\ Unit("download", file).kind = "download"
         /\ Unit("download", file).n = file
         /\ Unit("sending", file.size) \in Units /\ Unit("sending", file.size).kind = "sending"
         /\ Unit("sending", file.size).n = file.size
BY PiecesAreUnits, PDUs

LEMMA DownloadIsServed ==
  ASSUME Base, NEW file \in Files, DownloadingOf(file), ServeDownload
  PROVE  DownloadingOf(file)'
<1>1. PICK unit :
        /\ Serves(unit)
        /\ unit.kind = "download" =>
             /\ sFile' = [there |-> TRUE, open |-> FALSE, data |-> Pieces(unit.n)]
             /\ Tells(Unit("sending", unit.n.size)) /\ sTimer' = TRUE
        /\ UNCHANGED upLoad
  BY DEF ServeDownload
<1>2. UNCHANGED <<cBuf, downVars, upVars, box, history, disturbed, got>>
  BY <1>1 DEF Serves
<1>3. Out # <<>> /\ unit = Head(Out) /\ Out' = Tail(Out)
  BY <1>1, ServesOne
<1>4. Out = <<Unit("download", file)>> /\ In = <<>> /\ ~downLoad
  BY <1>3 DEF DownloadingOf
<1>5. unit = Unit("download", file) /\ Out' = <<>>
  BY <1>3, <1>4
<1>6. unit.kind = "download" /\ unit.n = file
  BY <1>5, DownloadFacts
<1>7. /\ sFile' = [there |-> TRUE, open |-> FALSE, data |-> Pieces(file)]
      /\ Tells(Unit("sending", file.size)) /\ sTimer' = TRUE
  BY <1>1, <1>6
<1>8. Unit("sending", file.size) \in Units
  BY DownloadFacts
<1>9. In' = <<Unit("sending", file.size)>>
  <2>1. In' = In \o <<Unit("sending", file.size)>>
    BY <1>2, <1>7, <1>8, TellsMore
  <2> QED
    BY <1>4, <1>8, <2>1
<1>10. In' = <<Unit("sending", file.size)>> \o <<>>
  BY <1>8, <1>9
<1>11. sFile'.there /\ ~sFile'.open /\ sFile'.data = Pieces(file) /\ sTimer'
  BY <1>7
<1>12. /\ ~upLoad /\ ~upTimer /\ box = "none" /\ got = <<>> /\ want = Pieces(file)
      /\ op = "download" /\ ~disturbed
  BY DEF DownloadingOf
<1>13. UNCHANGED <<upLoad, upTimer, box, got, want, op, disturbed, downLoad>>
  BY <1>1, <1>2 DEF downVars, upVars, history
<1>14. /\ ~upLoad' /\ ~upTimer' /\ box' = "none" /\ got' = <<>> /\ want' = Pieces(file)
       /\ op' = "download" /\ ~disturbed'
       /\ ~downLoad'
  BY <1>4, <1>12, <1>13
<1>15. sFile'.data = want'
  BY <1>11, <1>14
<1> QED
  BY <1>5, <1>10, <1>11, <1>14, <1>15 DEF DownloadingOf

LEMMA DownloadIsSent ==
  ASSUME Base, NEW file \in Files, DownloadingOf(file), SendFileToClient, Alone'
  PROVE  DownloadingOf(file)'
<1>1. sTimer /\ ~sTimer'
  BY DEF SendFileToClient
<1>2. UNCHANGED <<c2s, sBuf, cBuf, upLoad, downVars, upVars, box, history, disturbed, got>>
  BY DEF SendFileToClient
<1>3. Out = <<>> /\ sFile.there /\ ~sFile.open /\ sFile.data = want
  BY <1>1 DEF DownloadingOf
<1>4. s2c' = s2c \o want
  BY <1>3 DEF SendFileToClient, Alone
<1>5. want = Pieces(file) /\ want \in Seq(Units)
  BY DownloadFacts DEF DownloadingOf
<1>6. In' = In \o want
  BY <1>2, <1>4, <1>5, Sending
<1>7. Out' = <<>>
  BY <1>2, <1>3 DEF Out
<1>8. UNCHANGED <<upLoad, upTimer, box, got, want, op, disturbed, downLoad, cTotal, cRecved, cFile>>
  BY <1>2 DEF downVars, upVars, history
<1>9. /\ ~upLoad /\ ~upTimer /\ box = "none" /\ got = <<>> /\ op = "download" /\ ~disturbed
  BY DEF DownloadingOf
<1>10. /\ ~upLoad' /\ ~upTimer' /\ box' = "none" /\ got' = <<>> /\ want' = Pieces(file)
       /\ op' = "download" /\ ~disturbed'
  BY <1>5, <1>8, <1>9
<1>11. CASE ~downLoad
  <2>1. In = <<Unit("sending", file.size)>> \o <<>>
    BY <1>1, <1>3, <1>11 DEF DownloadingOf
  <2>2. <<Unit("sending", file.size)>> \o <<>> = <<Unit("sending", file.size)>>
    OBVIOUS
  <2>3. In' = <<Unit("sending", file.size)>> \o want' /\ ~downLoad'
    BY <1>6, <1>8, <1>11, <2>1, <2>2
  <2> QED
    BY <1>1, <1>7, <1>10, <2>3 DEF DownloadingOf
<1>12. CASE downLoad
  <2>1. /\ cTotal = file.size /\ cRecved = Len(cFile) /\ (cTotal > 0 => cRecved < cTotal)
        /\ cFile = <<>> /\ In = <<>>
    BY <1>1, <1>3, <1>12 DEF DownloadingOf
  <2>2. <<>> \o want = want /\ <<>> \o (<<>> \o want) = want
    BY <1>5
  <2>3. cFile' \o In' = want'
    BY <1>6, <1>8, <2>1, <2>2
  <2>4. /\ cTotal' = file.size /\ cRecved' = Len(cFile') /\ (cTotal' > 0 => cRecved' < cTotal')
        /\ downLoad'
    BY <1>8, <1>12, <2>1
  <2> QED
    BY <1>1, <1>7, <1>10, <2>3, <2>4 DEF DownloadingOf
<1> QED
  BY <1>11, <1>12

\* The client opens the copy.
LEMMA DownloadIsAnnounced ==
  ASSUME Base, NEW file \in Files, DownloadingOf(file), NEW unit, Gets(unit)
  PROVE  /\ unit = Unit("sending", file.size) /\ Out = <<>>
         /\ sTimer => sFile.there /\ ~sFile.open /\ sFile.data = want
         /\ In' = IF sTimer THEN <<>> ELSE want
<1>1. In # <<>> /\ unit = Head(In) /\ In' = Tail(In)
  BY GetsOne
<1>2. ~downLoad
  BY DEF Gets
<1>3. /\ Out = <<>> /\ (sTimer => sFile.there /\ ~sFile.open /\ sFile.data = want)
      /\ In = <<Unit("sending", file.size)>> \o (IF sTimer THEN <<>> ELSE want)
  BY <1>1, <1>2 DEF DownloadingOf
<1>4. (IF sTimer THEN <<>> ELSE want) \in Seq(Units)
  <2>1. <<>> \in Seq(Units)
    OBVIOUS
  <2>2. want \in Seq(Units)
    BY DownloadFacts DEF DownloadingOf
  <2> QED
    BY <2>1, <2>2
<1>5. Unit("sending", file.size) \in Units
  BY DownloadFacts
<1>6. unit = Unit("sending", file.size) /\ In' = IF sTimer THEN <<>> ELSE want
  BY <1>1, <1>3, <1>4, <1>5, FirstOfMany
<1> QED
  BY <1>3, <1>6

LEMMA CopyIsOpened ==
  ASSUME Base, NEW file \in Files, DownloadingOf(file), GetSending, Alone'
  PROVE  DownloadingOf(file)'
<1>1. PICK unit :
        /\ Gets(unit) /\ Silent /\ cTotal' = unit.n
        /\ \/ downLoad' = TRUE /\ cRecved' = 0 /\ cFile' = <<>> /\ UNCHANGED box
           \/ failed' = TRUE
  BY DEF GetSending
<1>2. downLoad' = TRUE /\ cRecved' = 0 /\ cFile' = <<>> /\ UNCHANGED box
  BY <1>1 DEF Alone
<1>3. UNCHANGED <<c2s, sBuf, serverVars, upVars, history, disturbed, got>>
  BY <1>1 DEF Gets, Silent
<1>4. /\ unit = Unit("sending", file.size) /\ Out = <<>>
      /\ (sTimer => sFile.there /\ ~sFile.open /\ sFile.data = want)
      /\ In' = IF sTimer THEN <<>> ELSE want
  BY <1>1, DownloadIsAnnounced
<1>5. cTotal' = file.size /\ file.size \in Nat
  BY <1>1, <1>4, DownloadFacts
<1>6. UNCHANGED <<sTimer, sFile, upLoad, upTimer, got, want, op, disturbed>>
  BY <1>3 DEF serverVars, upVars, history
<1>7. /\ ~upLoad /\ ~upTimer /\ box = "none" /\ got = <<>> /\ want = Pieces(file)
      /\ op = "download" /\ ~disturbed
  BY DEF DownloadingOf
<1>8. /\ ~upLoad' /\ ~upTimer' /\ box' = "none" /\ got' = <<>> /\ want' = Pieces(file)
       /\ op' = "download" /\ ~disturbed'
  BY <1>2, <1>6, <1>7
<1>9. Out' = <<>>
  BY <1>3, <1>4 DEF Out
<1>10. sTimer' => sFile'.there /\ ~sFile'.open /\ sFile'.data = want'
  BY <1>4, <1>6
<1>11. cRecved' = Len(cFile') /\ (cTotal' > 0 => cRecved' < cTotal') /\ downLoad'
  BY <1>2, <1>5
<1>12. IF sTimer' THEN cFile' = <<>> /\ In' = <<>> ELSE cFile' \o In' = want'
  <2>1. CASE sTimer
    BY <1>2, <1>4, <1>6, <2>1
  <2>2. CASE ~sTimer
    <3>1. want \in Seq(Units)
      BY <1>7, DownloadFacts
    <3>2. In' = want /\ <<>> \o want = want
      BY <1>4, <2>2, <3>1
    <3> QED
      BY <1>2, <1>6, <2>2, <3>2
  <2> QED
    BY <2>1, <2>2
<1> QED
  BY <1>5, <1>8, <1>9, <1>10, <1>11, <1>12 DEF DownloadingOf

LEMMA DownloadProgress ==
  ASSUME Base, NEW file \in Files, DownloadingOf(file), GetData
  PROVE  (DownloadingOf(file) \/ Resting)'
<1>1. PICK data \in Seq(Units) :
        /\ data # <<>> /\ data \o In' = In /\ In' \in Seq(Units)
        /\ cFile' = cFile \o data
        /\ IF Complete(cTotal, cRecved + Len(data))
           THEN /\ downLoad' = FALSE /\ cTotal' = 0 /\ cRecved' = 0 /\ box' = "note"
                /\ got' = <<"download", cFile'>>
           ELSE /\ cRecved' = cRecved + Len(data)
                /\ UNCHANGED <<downLoad, cTotal, box, got>>
  BY GetDataEffect
<1>2. downLoad /\ UNCHANGED <<c2s, sBuf, serverVars, upVars, history, disturbed>>
  BY DEF GetData
<1>3. UNCHANGED <<sTimer, sFile, upLoad, upTimer, want, op, disturbed>>
  BY <1>2 DEF serverVars, upVars, history
<1>4. /\ ~upLoad /\ ~upTimer /\ box = "none" /\ got = <<>> /\ want = Pieces(file)
      /\ op = "download" /\ ~disturbed
  BY DEF DownloadingOf
<1>5. /\ Out = <<>> /\ cTotal = file.size /\ cRecved = Len(cFile)
      /\ IF sTimer THEN cFile = <<>> /\ In = <<>> ELSE cFile \o In = want
  BY <1>2 DEF DownloadingOf
<1>6. ~sTimer /\ cFile \o In = want
  <2>1. \A t \in Seq(Units) : data \o t # <<>>
    BY <1>1
  <2> QED
    BY <1>1, <1>5, <2>1
<1>7. cFile \in Seq(Units) /\ want \in Seq(Units) /\ Len(want) = file.size /\ file.size \in Nat
  BY <1>4, DownloadFacts, ServerTypes
<1>8. cFile' \in Seq(Units) /\ cFile' \o In' = want /\ Len(cFile') = cRecved + Len(data)
  <2>1. (cFile \o data) \o In' = cFile \o (data \o In')
    BY <1>1, <1>7, Associative
  <2>2. Len(cFile \o data) = Len(cFile) + Len(data) /\ cFile \o data \in Seq(Units)
    BY <1>1, <1>7
  <2> QED
    BY <1>1, <1>5, <1>6, <2>1, <2>2
<1>9. Len(cFile') + Len(In') = cTotal /\ cTotal \in Nat
  <2>1. Len(cFile' \o In') = Len(cFile') + Len(In')
    BY <1>1, <1>8
  <2> QED
    BY <1>5, <1>7, <1>8, <2>1
<1>10. Out' = <<>>
  BY <1>2, <1>5 DEF Out
<1>11. ~sTimer' /\ ~upLoad' /\ ~upTimer' /\ op' = "download" /\ ~disturbed' /\ want' = Pieces(file)
  BY <1>3, <1>4, <1>6
<1>12. CASE Complete(cTotal, cRecved + Len(data))
  <2>1. In' = <<>>
    <3>1. cTotal <= Len(cFile')
      BY <1>8, <1>12 DEF Complete
    <3>2. Len(In') = 0
      BY <1>1, <1>8, <1>9, <3>1
    <3> QED
      BY <1>1, <3>2
  <2>2. cFile' = want
    BY <1>8, <2>1
  <2>3. got' = <<op', want'>> /\ ~downLoad'
    BY <1>1, <1>3, <1>4, <1>12, <2>2
  <2>4. Kinds(Out', Requests) /\ Kinds(In', Notices)
    BY <1>10, <2>1 DEF Kinds
  <2>5. Resting'
    BY <1>11, <2>3, <2>4 DEF Resting
  <2> QED
    BY <2>5
<1>13. CASE ~Complete(cTotal, cRecved + Len(data))
  <2>1. cRecved' = Len(cFile') /\ UNCHANGED <<downLoad, cTotal, box, got>>
    BY <1>1, <1>8, <1>13
  <2>2. cRecved' < cTotal'
    BY <1>8, <1>9, <1>13, <2>1 DEF Complete
  <2>3. cTotal' = file.size /\ downLoad' /\ box' = "none" /\ got' = <<>>
    BY <1>2, <1>4, <1>5, <2>1
  <2>4. cFile' \o In' = want'
    BY <1>3, <1>8
  <2>5. DownloadingOf(file)'
    BY <1>10, <1>11, <2>1, <2>2, <2>3, <2>4 DEF DownloadingOf
  <2> QED
    BY <2>5
<1> QED
  BY <1>12, <1>13

LEMMA DownloadIsDisturbed ==
  ASSUME Base, NEW file \in Files, DownloadingOf(file), Push
  PROVE  DisturbedDown'
<1>1. /\ disturbed' = (disturbed \/ Transferring("download"))
      /\ UNCHANGED <<c2s, sBuf, cBuf, serverVars, downVars, upVars, op>>
  BY DEF Push
<1>2. op = "download" /\ ~upLoad /\ ~upTimer /\ got = <<>> /\ want = Pieces(file)
  BY DEF DownloadingOf
<1>3. /\ Out = <<Unit("download", file)>> \/ Out = <<>>
      /\ sTimer => sFile.data = want
  BY DEF DownloadingOf
<1>4. want \in Seq(Units) /\ Kinds(want, {"data"})
  BY <1>2, PiecesAreUnits
<1>5. Kinds(Out, Asks \cup {"download"})
  <2>1. Unit("download", file) \in Units /\ Unit("download", file).kind = "download"
    BY DownloadFacts
  <2>2. /\ Kinds(<<Unit("download", file)>>, Asks \cup {"download"})
        /\ Kinds(<<>>, Asks \cup {"download"})
    BY <2>1, KindsOfOne
  <2> QED
    BY <1>3, <2>2
<1>6. Kinds(In, InOfDownload)
  <2>1. Unit("sending", file.size) \in Units /\ Unit("sending", file.size).kind = "sending"
    BY DownloadFacts
  <2>2. /\ Kinds(<<Unit("sending", file.size)>>, InOfDownload) /\ Kinds(<<>>, InOfDownload)
        /\ Kinds(want, InOfDownload)
        /\ <<Unit("sending", file.size)>> \in Seq(Units) /\ <<>> \in Seq(Units)
    <3>1. Kinds(<<Unit("sending", file.size)>>, InOfDownload) /\ Kinds(<<>>, InOfDownload)
      BY <2>1, KindsOfOne DEF InOfDownload
    <3>2. Kinds(want, InOfDownload)
      BY <1>4 DEF Kinds, InOfDownload
    <3> QED
      BY <2>1, <3>1, <3>2
  <2>3. CASE In = <<>>
    BY <2>2, <2>3
  <2>4. CASE In = <<Unit("sending", file.size)>> \o (IF sTimer THEN <<>> ELSE want)
    <3>1. /\ (IF sTimer THEN <<>> ELSE want) \in Seq(Units)
          /\ Kinds(IF sTimer THEN <<>> ELSE want, InOfDownload)
      BY <1>4, <2>2
    <3> QED
      BY <2>2, <2>4, <3>1, KindsOfConcat
  <2>5. CASE cFile \o In = want
    <3>1. cFile \in Seq(Units) /\ In \in Seq(Units)
      BY ServerTypes, StreamsAreUnits
    <3> QED
      BY <2>2, <2>5, <3>1, KindsOfConcat
  <2> QED
    BY <2>3, <2>4, <2>5 DEF DownloadingOf
<1>7. Kinds(In', InOfDownload)
  BY <1>1, <1>6, Pushed, NoticeKinds DEF InOfDownload
<1>8. Out' = Out
  BY <1>1 DEF Out
<1>9. UNCHANGED <<upLoad, sTimer, sFile, upTimer>>
  BY <1>1 DEF serverVars, upVars
<1>10. disturbed' /\ op' = "download" /\ ~upLoad' /\ ~upTimer'
  BY <1>1, <1>2, <1>9 DEF Transferring
<1>11. sTimer' => Kinds(sFile'.data, {"data"})
  BY <1>3, <1>4, <1>9
<1> QED
  BY <1>5, <1>7, <1>8, <1>10, <1>11 DEF DisturbedDown

LEMMA DownloadingStays ==
  ASSUME Base, NEW file \in Files, DownloadingOf(file), Alone', Alone,
         Server \/ UploadFileData \/ CloseBox \/ GetNote \/ GetChanged \/ GetTold
         \/ GetSending \/ GetGarbage \/ GetData \/ ArriveSilently
  PROVE  (DownloadingOf(file) \/ Resting \/ DisturbedDown)' /\ ~ServeGarbage /\ ~GetGarbage
<1>1. ~upLoad /\ ~upTimer /\ box = "none"
  BY DEF DownloadingOf
<1>2. ~ServeAsk /\ ~ServeUpload /\ ~ServeGarbage
  <2>1. \A unit : Serves(unit) => unit.kind = "download"
    <3> SUFFICES ASSUME NEW unit, Serves(unit) PROVE unit.kind = "download"
      OBVIOUS
    <3>1. Out # <<>> /\ unit = Head(Out)
      BY ServesOne
    <3>2. Out = <<Unit("download", file)>>
      BY <3>1 DEF DownloadingOf
    <3>3. unit = Unit("download", file)
      BY <3>1, <3>2
    <3> QED
      BY <3>3, DownloadFacts
  <2>2. ~ServeAsk
    BY <2>1, Answered, Vocabulary
  <2> QED
    BY <2>1, <2>2 DEF ServeUpload, ServeGarbage
<1>3. ~(GetNote \/ GetChanged \/ GetTold) /\ ~GetGarbage
  <2>1. \A unit : Gets(unit) => unit.kind = "sending"
    BY DownloadIsAnnounced, DownloadFacts
  <2>2. ~(GetNote \/ GetChanged \/ GetTold)
    BY <2>1, Noticed, Vocabulary
  <2> QED
    BY <2>1, <2>2 DEF GetGarbage
<1>4. ~ServeData /\ ~UploadFileData /\ ~CloseBox /\ ~ArriveSilently
  BY <1>1 DEF ServeData, UploadFileData, CloseBox, ArriveSilently
<1>5. CASE ServeDownload
  BY <1>2, <1>3, <1>5, DownloadIsServed
<1>6. CASE SendFileToClient
  BY <1>2, <1>3, <1>6, DownloadIsSent
<1>7. CASE Push
  BY <1>2, <1>3, <1>7, DownloadIsDisturbed
<1>8. CASE GetSending
  BY <1>2, <1>3, <1>8, CopyIsOpened
<1>9. CASE GetData
  BY <1>2, <1>3, <1>9, DownloadProgress
<1> QED
  BY <1>2, <1>3, <1>4, <1>5, <1>6, <1>7, <1>8, <1>9 DEF Server

-----------------------------------------------------------------------------
(* A transfer that a PDU has got into.                                     *)

LEMMA DisturbedUpStays ==
  ASSUME Base, DisturbedUp,
         Server \/ UploadFileData \/ CloseBox \/ GetNote \/ GetChanged \/ GetTold
         \/ GetSending \/ GetGarbage \/ GetData \/ ArriveSilently
  PROVE  DisturbedUp' /\ ~GetGarbage
<1>1. op = "upload" /\ disturbed /\ ~sTimer /\ ~downLoad
  BY DEF DisturbedUp
<1>2. Kinds(Out, OutOfUpload) /\ Kinds(In, Notices) /\ Asks \subseteq OutOfUpload
  BY DEF DisturbedUp, OutOfUpload
<1> DEFINE Same == UNCHANGED <<op, sTimer, downLoad>> /\ disturbed'
<1>3. ASSUME Same, Kinds(Out', OutOfUpload), Kinds(In', Notices) PROVE DisturbedUp'
  BY <1>1, <1>3 DEF DisturbedUp
<1>4. ~GetSending /\ ~GetGarbage
  <2>1. \A unit : Gets(unit) => unit.kind \in Notices
    BY <1>2, GetsKinds
  <2> QED
    BY <2>1, Vocabulary DEF GetSending, GetGarbage
<1>5. ~SendFileToClient /\ ~GetData
  BY <1>1 DEF SendFileToClient, GetData
<1>6. \A unit : Serves(unit) => /\ unit.kind \in OutOfUpload /\ Kinds(Out', OutOfUpload)
                               /\ UNCHANGED <<cBuf, op, downLoad, disturbed>>
  BY <1>2, ServesKinds DEF Serves, history, downVars
<1>7. CASE ServeAsk
  <2>1. PICK unit : /\ Serves(unit) /\ UNCHANGED serverVars
                    /\ UNCHANGED s2c \/ \E kind \in Notices : Tells(Unit(kind, 0))
    BY <1>7, Answered
  <2>2. Kinds(In', Notices)
    <3>1. CASE UNCHANGED s2c
      BY <1>2, <1>6, <2>1, <3>1 DEF In
    <3>2. CASE \E kind \in Notices : Tells(Unit(kind, 0))
      BY <1>2, <1>6, <2>1, <3>2, NoticeKinds
    <3> QED
      BY <2>1, <3>1, <3>2
  <2>3. Same
    BY <1>1, <1>6, <2>1 DEF serverVars
  <2> QED
    BY <1>3, <1>4, <1>6, <2>1, <2>2, <2>3
<1>8. CASE ServeUpload \/ ServeGarbage
  <2>1. PICK unit : Serves(unit) /\ UNCHANGED <<s2c, sTimer>>
    BY <1>8 DEF ServeUpload, ServeGarbage, serverVars
  <2>2. Same /\ In' = In
    BY <1>1, <1>6, <2>1 DEF In
  <2> QED
    BY <1>2, <1>3, <1>4, <1>6, <2>1, <2>2
<1>9. ~ServeDownload
  BY <1>6, Vocabulary DEF ServeDownload, OutOfUpload
<1>10. CASE ServeData
  <2>1. PICK data \in Seq(Units) :
           /\ data \o Out' = Out /\ Out' \in Seq(Units)
           /\ Tells(Unit("uploaded", 0)) \/ UNCHANGED s2c
    BY <1>10, ServeDataEffect
  <2>2. UNCHANGED <<cBuf, sTimer, downVars, history, disturbed>>
    BY <1>10 DEF ServeData
  <2>3. Kinds(Out', OutOfUpload)
    BY <1>2, <2>1, KindsOfConcat
  <2>4. Kinds(In', Notices)
    <3>1. CASE UNCHANGED s2c
      BY <1>2, <2>2, <3>1 DEF In
    <3>2. CASE Tells(Unit("uploaded", 0))
      BY <1>2, <2>2, <3>2, NoticeKinds, Vocabulary
    <3> QED
      BY <2>1, <3>1, <3>2
  <2>5. Same
    BY <1>1, <2>2 DEF downVars, history
  <2> QED
    BY <1>3, <1>4, <2>3, <2>4, <2>5
<1>11. CASE Push
  <2>1. /\ UNCHANGED <<c2s, sBuf, cBuf, serverVars, downVars, op>>
        /\ disturbed' = (disturbed \/ Transferring("download"))
    BY <1>11 DEF Push
  <2>2. Kinds(In', Notices)
    BY <1>2, <1>11, <2>1, Pushed, NoticeKinds
  <2>3. Out' = Out
    BY <2>1 DEF Out
  <2>4. Same
    BY <1>1, <2>1 DEF serverVars, downVars
  <2> QED
    BY <1>2, <1>3, <1>4, <2>2, <2>3, <2>4
<1>12. CASE UploadFileData
  <2>1. UNCHANGED <<s2c, cBuf, serverVars, downVars, history, disturbed>>
    BY <1>12 DEF UploadFileData
  <2>2. Kinds(Pieces(upFile), OutOfUpload) /\ Pieces(upFile) \in Seq(Units)
    <3>1. Kinds(Pieces(upFile), {"data"}) /\ Pieces(upFile) \in Seq(Units)
      BY ClientTypes, PiecesAreUnits
    <3> QED
      BY <3>1 DEF Kinds, OutOfUpload
  <2>3. Kinds(Out', OutOfUpload)
    <3>1. Out' = Out \o Pieces(upFile) \/ Out' = Out
      BY <1>12, Uploaded
    <3>2. Out \in Seq(Units)
      BY StreamsAreUnits
    <3>3. Kinds(Out \o Pieces(upFile), OutOfUpload)
      BY <1>2, <2>2, <3>2, KindsOfConcat
    <3> QED
      BY <1>2, <3>1, <3>3
  <2>4. Same /\ In' = In
    BY <1>1, <2>1 DEF serverVars, downVars, history, In
  <2> QED
    BY <1>2, <1>3, <1>4, <2>3, <2>4
<1>13. CASE GetNote \/ GetChanged \/ GetTold
  <2>1. /\ Kinds(Out', OutOfUpload) /\ Kinds(In', Notices)
        /\ UNCHANGED <<serverVars, downVars, history>>
    BY <1>2, <1>13, Noticing
  <2>2. disturbed'
    BY <1>1, <1>13, Noticed, Disturbing
  <2>3. Same
    BY <2>1, <2>2 DEF serverVars, downVars, history
  <2> QED
    BY <1>3, <1>4, <2>1, <2>3
<1>14. CASE CloseBox
  <2>1. UNCHANGED <<serverVars, downVars, history>>
    BY <1>14 DEF CloseBox
  <2>2. In' = In /\ Kinds(Out', OutOfUpload)
    BY <1>2, <1>14, Closing
  <2>3. disturbed'
    BY <1>1, <1>14, Closed, Disturbing
  <2>4. Same
    BY <2>1, <2>3 DEF serverVars, downVars, history
  <2> QED
    BY <1>2, <1>3, <1>4, <2>2, <2>4
<1>15. CASE ArriveSilently
  <2>1. UNCHANGED <<serverVars, downVars, history, disturbed>>
    BY <1>15 DEF ArriveSilently
  <2>2. In' = In /\ Out' = Out
    BY <1>15, Silently
  <2>3. Same
    BY <1>1, <2>1 DEF serverVars, downVars, history
  <2> QED
    BY <1>2, <1>3, <1>4, <2>2, <2>3
<1> QED
  BY <1>4, <1>5, <1>7, <1>8, <1>9, <1>10, <1>11, <1>12, <1>13, <1>14, <1>15 DEF Server

LEMMA DisturbedDownStays ==
  ASSUME Base, DisturbedDown,
         Server \/ UploadFileData \/ CloseBox \/ GetNote \/ GetChanged \/ GetTold
         \/ GetSending \/ GetGarbage \/ GetData \/ ArriveSilently
  PROVE  DisturbedDown' /\ ~ServeGarbage
<1> DEFINE out == Asks \cup {"download"}
<1>1. op = "download" /\ disturbed /\ ~upLoad /\ ~upTimer
  BY DEF DisturbedDown
<1>2. Kinds(Out, out) /\ Kinds(In, InOfDownload) /\ (sTimer => Kinds(sFile.data, {"data"}))
  BY DEF DisturbedDown
<1>3. Asks \subseteq out /\ Notices \subseteq InOfDownload
  BY DEF InOfDownload
<1>4. \A unit : Serves(unit) => /\ unit.kind \in out /\ Kinds(Out', out)
                               /\ UNCHANGED <<cBuf, op, upTimer, disturbed>>
  BY <1>2, ServesKinds DEF Serves, history, upVars
<1>5. ~ServeUpload /\ ~ServeGarbage
  BY <1>4, Vocabulary DEF ServeUpload, ServeGarbage
<1> HIDE DEF out
<1> DEFINE Same == UNCHANGED <<op, upLoad, upTimer>> /\ disturbed'
           SameFile == UNCHANGED <<sTimer, sFile>>
<1>6. ASSUME Same, Kinds(Out', out), Kinds(In', InOfDownload),
             SameFile \/ ~sTimer' \/ Kinds(sFile'.data, {"data"})
      PROVE  DisturbedDown'
  BY <1>1, <1>2, <1>6 DEF DisturbedDown, out
<1>7. ~ServeData /\ ~UploadFileData
  BY <1>1 DEF ServeData, UploadFileData
<1>8. CASE ServeAsk
  <2>1. PICK unit : /\ Serves(unit) /\ UNCHANGED serverVars
                    /\ UNCHANGED s2c \/ \E kind \in Notices : Tells(Unit(kind, 0))
    BY <1>8, Answered
  <2>2. Kinds(In', InOfDownload)
    <3>1. CASE UNCHANGED s2c
      BY <1>2, <1>4, <2>1, <3>1 DEF In
    <3>2. CASE \E kind \in Notices : Tells(Unit(kind, 0))
      BY <1>2, <1>3, <1>4, <2>1, <3>2, NoticeKinds
    <3> QED
      BY <2>1, <3>1, <3>2
  <2>3. Same /\ SameFile
    BY <1>1, <1>4, <2>1 DEF serverVars
  <2> QED
    BY <1>4, <1>5, <1>6, <2>1, <2>2, <2>3
<1>9. CASE ServeDownload
  <2>1. PICK unit :
          /\ Serves(unit)
          /\ unit.kind = "download" =>
               /\ sFile' = [there |-> TRUE, open |-> FALSE, data |-> Pieces(unit.n)]
               /\ Tells(Unit("sending", unit.n.size))
          /\ unit.kind \in {"download", "downloadDir", "downloadNone"}
          /\ UNCHANGED upLoad
    BY <1>9 DEF ServeDownload
  <2>2. unit.kind = "download" /\ unit \in Units
    BY <1>4, <2>1, Vocabulary, ServesOne DEF out
  <2>3. unit.n \in Files
    BY <2>2, UnitFields
  <2>4. Unit("sending", unit.n.size) \in Units /\ Unit("sending", unit.n.size).kind \in InOfDownload
    BY <2>3, DownloadFacts DEF InOfDownload
  <2>5. Kinds(In', InOfDownload)
    BY <1>2, <1>4, <2>1, <2>2, <2>4, TellsKinds
  <2>6. sFile'.data = Pieces(unit.n) /\ Kinds(Pieces(unit.n), {"data"})
    BY <2>1, <2>2, <2>3, PiecesAreUnits
  <2>7. Same
    BY <1>1, <1>4, <2>1
  <2> QED
    BY <1>4, <1>5, <1>6, <2>1, <2>5, <2>6, <2>7
<1>10. CASE SendFileToClient
  <2>1. /\ sTimer /\ ~sTimer' /\ (s2c' = s2c \/ s2c' = s2c \o sFile.data)
        /\ UNCHANGED <<c2s, sBuf, cBuf, upLoad, upVars, history, disturbed>>
    BY <1>10 DEF SendFileToClient
  <2>2. Kinds(In', InOfDownload)
    <3>1. CASE s2c' = s2c
      <4>1. In' = In
        BY <2>1, <3>1 DEF In
      <4> QED
        BY <1>2, <4>1
    <3>2. CASE s2c' = s2c \o sFile.data
      <4>1. sFile.data \in Seq(Units)
        BY ServerTypes DEF ServerFile
      <4>2. In' = In \o sFile.data
        BY <2>1, <3>2, <4>1, Sending
      <4>3. Kinds(sFile.data, InOfDownload)
        BY <1>2, <2>1 DEF Kinds, InOfDownload
      <4> QED
        BY <1>2, <4>1, <4>2, <4>3, StreamsAreUnits, KindsOfConcat
    <3> QED
      BY <2>1, <3>1, <3>2
  <2>3. Out' = Out /\ Same
    BY <1>1, <2>1 DEF Out, upVars, history
  <2> QED
    BY <1>2, <1>5, <1>6, <2>1, <2>2, <2>3
<1>11. CASE Push
  <2>1. /\ UNCHANGED <<c2s, sBuf, cBuf, serverVars, upVars, op>>
        /\ disturbed' = (disturbed \/ Transferring("download"))
    BY <1>11 DEF Push
  <2>2. Kinds(In', InOfDownload)
    BY <1>2, <1>3, <1>11, <2>1, Pushed, NoticeKinds
  <2>3. Out' = Out
    BY <2>1 DEF Out
  <2>4. Same /\ SameFile
    BY <1>1, <2>1 DEF serverVars, upVars
  <2> QED
    BY <1>2, <1>5, <1>6, <2>2, <2>3, <2>4
<1>12. CASE GetNote \/ GetChanged \/ GetTold
  <2>1. /\ Kinds(Out', out) /\ Kinds(In', InOfDownload)
        /\ UNCHANGED <<serverVars, upVars, history>>
    BY <1>2, <1>3, <1>12, Noticing
  <2>2. disturbed'
    BY <1>1, <1>12, Noticed, Disturbing
  <2>3. Same /\ SameFile
    BY <2>1, <2>2 DEF serverVars, upVars, history
  <2> QED
    BY <1>5, <1>6, <2>1, <2>3
<1>13. CASE GetSending \/ GetGarbage
  <2>1. PICK unit : Gets(unit) /\ Silent
    BY <1>13 DEF GetSending, GetGarbage
  <2>2. UNCHANGED <<c2s, sBuf, serverVars, upVars, history, disturbed>>
    BY <2>1 DEF Gets, Silent
  <2>3. Kinds(In', InOfDownload)
    BY <1>2, <2>1, GetsKinds
  <2>4. Out' = Out
    BY <2>2 DEF Out
  <2>5. Same /\ SameFile
    BY <1>1, <2>2 DEF serverVars, upVars, history
  <2> QED
    BY <1>2, <1>5, <1>6, <2>3, <2>4, <2>5
<1>14. CASE GetData
  <2>1. PICK data \in Seq(Units) : data \o In' = In /\ In' \in Seq(Units)
    BY <1>14, GetDataEffect
  <2>2. UNCHANGED <<c2s, sBuf, serverVars, upVars, history, disturbed>>
    BY <1>14 DEF GetData
  <2>3. Kinds(In', InOfDownload)
    BY <1>2, <2>1, KindsOfConcat
  <2>4. Out' = Out
    BY <2>2 DEF Out
  <2>5. Same /\ SameFile
    BY <1>1, <2>2 DEF serverVars, upVars, history
  <2> QED
    BY <1>2, <1>5, <1>6, <2>3, <2>4, <2>5
<1>15. CASE CloseBox
  <2>1. UNCHANGED <<serverVars, upVars, history>>
    BY <1>15 DEF CloseBox
  <2>2. In' = In /\ Kinds(Out', out)
    BY <1>2, <1>3, <1>15, Closing
  <2>3. disturbed'
    BY <1>1, <1>15, Closed, Disturbing
  <2>4. Same /\ SameFile
    BY <2>1, <2>3 DEF serverVars, upVars, history
  <2> QED
    BY <1>2, <1>5, <1>6, <2>2, <2>4
<1>16. CASE ArriveSilently
  <2>1. UNCHANGED <<serverVars, upVars, history, disturbed>>
    BY <1>16 DEF ArriveSilently
  <2>2. In' = In /\ Out' = Out
    BY <1>16, Silently
  <2>3. Same /\ SameFile
    BY <1>1, <2>1 DEF serverVars, upVars, history
  <2> QED
    BY <1>2, <1>5, <1>6, <2>2, <2>3
<1> QED
  BY <1>5, <1>7, <1>8, <1>9, <1>10, <1>11, <1>12, <1>13, <1>14, <1>15, <1>16 DEF Server

-----------------------------------------------------------------------------
(* A new operation.                                                        *)

\* What is left when an operation starts alone.
LEMMA ClickWhenQuiet ==
  ASSUME Base, NEW operation, NEW unit \in Units, NEW contents,
         Clicks(operation, unit, contents), Alone'
  PROVE  /\ ~upLoad' /\ ~sTimer' /\ ~downLoad' /\ ~upTimer /\ box' = "none" /\ got' = <<>>
         /\ op' = operation /\ want' = contents /\ ~disturbed' /\ Out' = <<unit>> /\ In' = <<>>
<1>1. op' = (IF Quiet THEN operation ELSE "several") /\ op' # "several"
  BY DEF Clicks, Alone
<1>2. Quiet /\ op' = operation
  BY <1>1
<1>3. c2s = <<>> /\ s2c = <<>> /\ sBuf = <<>> /\ cBuf = <<>> /\ box = "none"
  BY <1>2 DEF Quiet
<1>4. ~upLoad /\ ~downLoad /\ ~upTimer /\ ~sTimer
  BY <1>2 DEF Quiet
<1>5. /\ UNCHANGED <<s2c, sBuf, cBuf, serverVars, downVars, box>>
      /\ want' = contents /\ got' = <<>> /\ c2s' = Append(c2s, unit)
  BY DEF Clicks
<1>6. ~disturbed'
  BY DEF Clicks
<1>7. UNCHANGED <<upLoad, downLoad, sTimer>>
  BY <1>5 DEF serverVars, downVars
<1>8. ~upLoad' /\ ~sTimer' /\ ~downLoad'
  BY <1>4, <1>7
<1>9. Out' = <<unit>> /\ In' = <<>>
  BY <1>3, <1>5 DEF Out, In
<1>10. box' = "none"
  BY <1>3, <1>5
<1> QED
  BY <1>2, <1>4, <1>5, <1>6, <1>8, <1>9, <1>10

\* An operation that is answered with one PDU, or not at all.
LEMMA AskedAtRest ==
  ASSUME Base, NEW operation, NEW unit \in Units, Clicks(operation, unit, <<>>), Alone',
         UNCHANGED upVars, unit.kind \in Requests
  PROVE  Resting'
<1>1. /\ ~upLoad' /\ ~sTimer' /\ ~downLoad' /\ ~upTimer /\ got' = <<>>
      /\ Out' = <<unit>> /\ In' = <<>>
  BY ClickWhenQuiet
<1>2. Kinds(Out', Requests) /\ Kinds(In', Notices)
  BY <1>1, KindsOfOne
<1>3. ~upTimer'
  BY <1>1 DEF upVars
<1> QED
  BY <1>1, <1>2, <1>3 DEF Resting

LEMMA ClicksStart ==
  ASSUME Base, ClickAsk \/ ClickUpload \/ ClickDownload, Alone'
  PROVE  (Resting \/ Uploading \/ Downloading)'
<1>1. CASE ClickAsk
  <2>1. PICK kind \in Asks : Clicks("other", Unit(kind, 0), <<>>)
    BY <1>1 DEF ClickAsk, Asks
  <2>2. Unit(kind, 0) \in Units /\ Unit(kind, 0).kind \in Requests
    BY Vocabulary, PDUs
  <2>3. Resting'
    BY <1>1, <2>1, <2>2, AskedAtRest DEF ClickAsk
  <2> QED
    BY <2>3
<1>2. CASE ClickUpload
  <2>1. PICK size \in Sizes :
          /\ Clicks("upload", Unit("upload", size), Pieces([op |-> clicks + 1, size |-> size]))
          /\ upFile' = [op |-> clicks + 1, size |-> size] /\ upTimer' = TRUE
    BY <1>2 DEF ClickUpload
  <2>2. clicks < MaxClicks
    BY <2>1 DEF Clicks
  <2>3. upFile' \in Files /\ size \in Nat /\ upFile'.size = size
    BY <2>1, <2>2, FileClicked
  <2>4. Unit("upload", size) \in Units /\ upTimer'
    BY <2>1, <2>3, PDUs
  <2>5. /\ ~upLoad' /\ ~sTimer' /\ ~downLoad' /\ got' = <<>> /\ op' = "upload" /\ ~disturbed'
        /\ want' = Pieces([op |-> clicks + 1, size |-> size])
        /\ Out' = <<Unit("upload", size)>> /\ In' = <<>>
    BY <2>1, <2>4, ClickWhenQuiet
  <2>6. want' = Pieces(upFile')
    BY <2>1, <2>5
  <2>7. <<Unit("upload", size)>> \o <<>> = <<Unit("upload", size)>>
    BY <2>4
  <2>8. Out' = <<Unit("upload", upFile'.size)>> \o (IF upTimer' THEN <<>> ELSE want')
    BY <2>3, <2>4, <2>5, <2>7
  <2>9. Kinds(In', Notices)
    BY <2>5 DEF Kinds
  <2>10. Uploading'
    BY <2>5, <2>6, <2>8, <2>9 DEF Uploading
  <2> QED
    BY <2>10
<1>3. CASE ClickDownload
  <2>1. UNCHANGED upVars
    BY <1>3 DEF ClickDownload
  <2>2. CASE \E size \in Sizes : Clicks("download", Unit("download", [op |-> clicks + 1, size |-> size]),
                                      Pieces([op |-> clicks + 1, size |-> size]))
    <3>1. PICK size \in Sizes : Clicks("download", Unit("download", [op |-> clicks + 1, size |-> size]),
                                      Pieces([op |-> clicks + 1, size |-> size]))
      BY <2>2
    <3>2. clicks < MaxClicks
      BY <3>1 DEF Clicks
    <3>3. PICK file \in Files : file = [op |-> clicks + 1, size |-> size]
      BY <3>2, FileClicked
    <3>4. Unit("download", file) \in Units /\ Clicks("download", Unit("download", file), Pieces(file))
      BY <3>1, <3>3, DownloadFacts
    <3>7. /\ ~upLoad' /\ ~sTimer' /\ ~downLoad' /\ ~upTimer /\ box' = "none" /\ got' = <<>>
          /\ op' = "download" /\ want' = Pieces(file) /\ ~disturbed'
          /\ Out' = <<Unit("download", file)>> /\ In' = <<>>
      BY <3>4, ClickWhenQuiet
    <3>8. ~upTimer'
      BY <2>1, <3>7 DEF upVars
    <3>9. DownloadingOf(file)'
      BY <3>7, <3>8 DEF DownloadingOf
    <3>10. Downloading'
      BY <3>9 DEF Downloading
    <3> QED
      BY <3>10
  <2>3. CASE Clicks("download", Unit("downloadDir", 0), <<>>) \/ Clicks("download", Unit("downloadNone", 0), <<>>)
    <3>1. /\ Unit("downloadDir", 0) \in Units /\ Unit("downloadDir", 0).kind \in Requests
          /\ Unit("downloadNone", 0) \in Units /\ Unit("downloadNone", 0).kind \in Requests
      BY Vocabulary, PDUs
    <3>2. Resting'
      BY <2>1, <2>3, <3>1, AskedAtRest
    <3> QED
      BY <3>2
  <2> QED
    BY <1>3, <2>2, <2>3 DEF ClickDownload
<1> QED
  BY <1>1, <1>2, <1>3

-----------------------------------------------------------------------------
(* The invariant.                                                          *)

Clicking == ClickAsk \/ ClickUpload \/ ClickDownload
Working ==
  Server \/ UploadFileData \/ CloseBox \/ GetNote \/ GetChanged \/ GetTold
  \/ GetSending \/ GetGarbage \/ GetData \/ ArriveSilently

\* What was not alone stays so until the user's next operation.
LEMMA StaysApart ==
  ASSUME Working, Alone'
  PROVE  Alone
<1>1. op' = op
  <2>1. \A unit : Serves(unit) => op' = op
    BY DEF Serves, history
  <2>2. \A unit : Gets(unit) => op' = op
    BY DEF Gets, history
  <2>3. Server => op' = op
    BY <2>1 DEF Server, ServeAsk, ServeUpload, ServeDownload, ServeGarbage, ServeData,
                SendFileToClient, Push, history
  <2>4. UploadFileData \/ CloseBox \/ GetData \/ ArriveSilently => op' = op
    BY DEF UploadFileData, CloseBox, GetData, ArriveSilently, history
  <2>5. GetNote \/ GetChanged \/ GetTold \/ GetSending \/ GetGarbage => op' = op
    BY <2>2 DEF GetNote, GetChanged, GetTold, GetSending, GetGarbage
  <2> QED
    BY <2>3, <2>4, <2>5 DEF Working
<1>2. failed => failed'
  <2>1. Server => (failed => failed')
    BY DEF Server, ServeAsk, ServeUpload, ServeDownload, ServeGarbage, ServeData,
           SendFileToClient, Push
  <2>2. UploadFileData \/ CloseBox \/ GetData \/ ArriveSilently => (failed => failed')
    BY DEF UploadFileData, CloseBox, GetData, ArriveSilently
  <2>3. GetNote \/ GetChanged \/ GetTold \/ GetSending \/ GetGarbage => (failed => failed')
    BY DEF GetNote, GetChanged, GetTold, GetSending, GetGarbage
  <2> QED
    BY <2>1, <2>2, <2>3 DEF Working
<1> QED
  BY <1>1, <1>2 DEF Alone

LEMMA StepsAreDefined ==
  ASSUME Next
  PROVE  /\ garbled = "no"
         /\ ~ServeGarbage /\ ~GetGarbage => garbled' = "no"
         /\ ServeGarbage => garbled' = "server"
         /\ GetGarbage => garbled' = "client"
<1>1. /\ \A unit : Serves(unit) => garbled = "no"
      /\ \A unit : Gets(unit) => garbled = "no"
      /\ \A operation, unit, contents :
           Clicks(operation, unit, contents) => garbled = "no" /\ garbled' = "no"
  BY DEF Serves, Gets, Clicks, Defined
<1>2. Server => garbled = "no" /\ (~ServeGarbage => garbled' = "no")
  BY <1>1 DEF Server, ServeAsk, ServeUpload, ServeDownload, ServeGarbage, ServeData,
              SendFileToClient, Push, Defined
<1>3. Client => garbled = "no" /\ (~GetGarbage => garbled' = "no")
  <2>1. UploadFileData \/ CloseBox \/ GetData \/ ArriveSilently => garbled = "no" /\ garbled' = "no"
    BY DEF UploadFileData, CloseBox, GetData, ArriveSilently, Defined
  <2>2. GetNote \/ GetChanged \/ GetTold \/ GetSending => garbled = "no" /\ garbled' = "no"
    BY <1>1 DEF GetNote, GetChanged, GetTold, GetSending
  <2>3. ClickAsk \/ ClickUpload \/ ClickDownload => garbled = "no" /\ garbled' = "no"
    BY <1>1 DEF ClickAsk, ClickUpload, ClickDownload
  <2>4. GetGarbage => garbled = "no"
    BY <1>1 DEF GetGarbage
  <2> QED
    BY <2>1, <2>2, <2>3, <2>4 DEF Client
<1> QED
  BY <1>2, <1>3 DEF Next, ServeGarbage, GetGarbage

LEMMA TransferInit ==
  Init => TransferInv
<1> SUFFICES ASSUME Init PROVE TransferInv
  OBVIOUS
<1>1. Out = <<>> /\ In = <<>>
  BY DEF Init, Out, In
<1>2. Resting
  BY <1>1 DEF Init, Resting, Kinds
<1>3. StreamTypes
  BY DEF Init, StreamTypes
<1>4. sFile \in ServerFile /\ sFile.there \in BOOLEAN /\ sFile.open \in BOOLEAN
  <2>1. <<>> \in Seq(Units)
    OBVIOUS
  <2>2. NoFile \in ServerFile
    BY <2>1, NewFile DEF NoFile
  <2> QED
    BY <2>2 DEF Init, NoFile
<1>5. upFile \in Files /\ clicks \in 0..MaxClicks
  BY SizesAssumption DEF Init, Files
<1>6. upLoad \in BOOLEAN /\ downLoad \in BOOLEAN /\ upTimer \in BOOLEAN /\ sTimer \in BOOLEAN
  BY DEF Init
<1>7. {sTotal, sRecved, cTotal, cRecved} \subseteq Nat
  BY DEF Init
<1>8. /\ box \in {"none", "note", "refresh", "question"} /\ op \in {"none", "other", "upload", "download", "several"}
      /\ garbled \in {"no", "server", "client"} /\ garbled = "no"
  BY DEF Init
<1>9. TypeOK
  BY <1>4, <1>5, <1>6, <1>7, <1>8 DEF TypeOK
<1>10. NotGarbled
  BY <1>8 DEF NotGarbled
<1> QED
  BY <1>2, <1>3, <1>4, <1>5, <1>9, <1>10 DEF TransferInv, Base

LEMMA TransferStep ==
  ASSUME TransferInv, Next
  PROVE  TransferInv'
<1>1. Base /\ (Alone => Resting \/ Uploading \/ Downloading \/ DisturbedUp \/ DisturbedDown)
  BY DEF TransferInv
<1>2. Base'
  BY <1>1, BaseOfServer, BaseOfClient DEF Next
<1>3. Clicking \/ Working
  BY DEF Next, Server, Client, Clicking, Working
<1>4. CASE Clicking
  <2>1. Alone' => (Resting \/ Uploading \/ Downloading)'
    BY <1>1, <1>4, ClicksStart DEF Clicking
  <2>2. garbled' = "no"
    <3>1. \A operation, unit, contents :
            Clicks(operation, unit, contents) => garbled = "no" /\ garbled' = "no"
      BY DEF Clicks, Defined
    <3> QED
      BY <1>4, <3>1 DEF Clicking, ClickAsk, ClickUpload, ClickDownload
  <2>3. NotGarbled'
    BY <2>2 DEF NotGarbled
  <2> QED
    BY <1>2, <2>1, <2>3 DEF TransferInv
<1>5. CASE Working
  <2>1. Alone' => Alone
    BY <1>5, StaysApart
  <2>2. CASE ~Alone'
    <3>1. NotGarbled'
      BY <2>2 DEF NotGarbled
    <3> QED
      BY <1>2, <2>2, <3>1 DEF TransferInv
  <2>3. CASE Alone' /\ Resting
    <3>1. Resting' /\ ~ServeGarbage /\ ~GetGarbage
      BY <1>1, <1>5, <2>3, RestingStays DEF Working
    <3>2. garbled' = "no"
      BY <3>1, StepsAreDefined
    <3>3. NotGarbled'
      BY <3>2 DEF NotGarbled
    <3> QED
      BY <1>2, <3>1, <3>3 DEF TransferInv
  <2>4. CASE Alone' /\ Uploading
    <3>1. (Uploading \/ Resting \/ DisturbedUp)' /\ ~ServeGarbage /\ ~GetGarbage
      BY <1>1, <1>5, <2>1, <2>4, UploadingStays DEF Working
    <3>2. garbled' = "no"
      BY <3>1, StepsAreDefined
    <3>3. NotGarbled'
      BY <3>2 DEF NotGarbled
    <3> QED
      BY <1>2, <3>1, <3>3 DEF TransferInv
  <2>5. CASE Alone' /\ Downloading
    <3>1. PICK file \in Files : DownloadingOf(file)
      BY <2>5 DEF Downloading
    <3>2. (DownloadingOf(file) \/ Resting \/ DisturbedDown)' /\ ~ServeGarbage /\ ~GetGarbage
      BY <1>1, <1>5, <2>1, <2>5, <3>1, DownloadingStays DEF Working
    <3>3. garbled' = "no"
      BY <3>2, StepsAreDefined
    <3>4. NotGarbled'
      BY <3>3 DEF NotGarbled
    <3>5. DownloadingOf(file)' => Downloading'
      BY DEF Downloading
    <3> QED
      BY <1>2, <3>2, <3>4, <3>5 DEF TransferInv
  <2>6. CASE Alone' /\ DisturbedUp
    <3>1. DisturbedUp' /\ ~GetGarbage
      BY <1>1, <1>5, <2>6, DisturbedUpStays DEF Working
    <3>2. garbled' # "client"
      BY <3>1, StepsAreDefined
    <3>3. NotGarbled'
      BY <3>1, <3>2 DEF NotGarbled, DisturbedUp
    <3> QED
      BY <1>2, <3>1, <3>3 DEF TransferInv
  <2>7. CASE Alone' /\ DisturbedDown
    <3>1. DisturbedDown' /\ ~ServeGarbage
      BY <1>1, <1>5, <2>7, DisturbedDownStays DEF Working
    <3>2. garbled' # "server"
      BY <3>1, StepsAreDefined
    <3>3. NotGarbled'
      BY <3>1, <3>2 DEF NotGarbled, DisturbedDown
    <3> QED
      BY <1>2, <3>1, <3>3 DEF TransferInv
  <2> QED
    BY <1>1, <2>1, <2>2, <2>3, <2>4, <2>5, <2>6, <2>7
<1> QED
  BY <1>3, <1>4, <1>5

LEMMA TransferStutter ==
  ASSUME TransferInv, UNCHANGED vars
  PROVE  TransferInv'
<1>1. UNCHANGED <<c2s, s2c, sBuf, cBuf, upLoad, sTotal, sRecved, sFile, sTimer, downLoad, cTotal,
                  cRecved, cFile, upFile, upTimer, box, clicks, op, disturbed, want, failed, got,
                  garbled>>
  BY DEF vars, streams, serverVars, downVars, upVars, history
<1>2. Base'
  <2>1. TypeOK'
    BY <1>1 DEF TransferInv, Base, TypeOK
  <2>2. StreamTypes'
    BY <1>1 DEF TransferInv, Base, StreamTypes
  <2> QED
    BY <1>1, <2>1, <2>2 DEF TransferInv, Base
<1>3. NotGarbled'
  BY <1>1 DEF TransferInv, NotGarbled, Alone
<1>4. Alone' => Alone
  BY <1>1 DEF Alone
<1>5. Out' = Out /\ In' = In
  BY <1>1 DEF Out, In
<1>6. Resting => Resting'
  BY <1>1, <1>5 DEF Resting, Kinds
<1>7. Uploading => Uploading'
  BY <1>1, <1>5 DEF Uploading, Kinds
<1>8. \A file : DownloadingOf(file) => DownloadingOf(file)'
  BY <1>1, <1>5 DEF DownloadingOf
<1>9. Downloading => Downloading'
  BY <1>8 DEF Downloading
<1>10. DisturbedUp => DisturbedUp'
  BY <1>1, <1>5 DEF DisturbedUp, Kinds
<1>11. DisturbedDown => DisturbedDown'
  BY <1>1, <1>5 DEF DisturbedDown, Kinds
<1> QED
  BY <1>2, <1>3, <1>4, <1>6, <1>7, <1>9, <1>10, <1>11 DEF TransferInv

LEMMA TransferInvIsInvariant ==
  Spec => []TransferInv
<1>1. Init => TransferInv
  BY TransferInit
<1>2. TransferInv /\ [Next]_vars => TransferInv'
  BY TransferStep, TransferStutter
<1> QED
  BY <1>1, <1>2, PTL DEF Spec

LEMMA WholeWhenInv ==
  ASSUME TransferInv
  PROVE  TransfersWhole
<1>1. Base /\ TypeOK
  BY DEF TransferInv, Base
<1>2. sTotal \in Nat /\ cTotal \in Nat
  BY <1>1, ServerTypes, ClientTypes
<1>3. ASSUME Undisturbed
      PROVE  Resting \/ Uploading \/ Downloading
  BY <1>3 DEF TransferInv, Undisturbed, DisturbedUp, DisturbedDown
<1>4. ASSUME got # <<>>, Undisturbed
      PROVE  got = <<op, want>>
  <2>1. ~Uploading /\ ~Downloading
    BY <1>4 DEF Uploading, Downloading, DownloadingOf
  <2> QED
    BY <1>3, <1>4, <2>1 DEF Resting
<1>5. ASSUME upLoad, Undisturbed, c2s = <<>>, sBuf = <<>>, ~upTimer
      PROVE  sTotal = 0
  <2>1. ~Resting /\ ~Downloading
    BY <1>5 DEF Resting, Downloading, DownloadingOf
  <2>2. Uploading
    BY <1>3, <1>5, <2>1
  <2>3. /\ sTotal = upFile.size /\ sRecved = Len(sFile.data) /\ (sTotal > 0 => sRecved < sTotal)
        /\ sFile.data \o Out = want
    BY <1>5, <2>2 DEF Uploading
  <2>4. Out = <<>>
    BY <1>1, <1>5, StreamsAreUnits
  <2>5. sFile.data \in Seq(Units)
    BY <1>1, ServerTypes DEF ServerFile
  <2>6. sFile.data = want
    BY <2>3, <2>4, <2>5
  <2>7. Len(want) = sTotal
    BY <1>1, <2>2, <2>3, UploadIsAnnounced
  <2> QED
    BY <1>2, <2>3, <2>6, <2>7
<1>6. ASSUME downLoad, Undisturbed, s2c = <<>>, cBuf = <<>>, ~sTimer
      PROVE  cTotal = 0
  <2>1. ~Resting /\ ~Uploading
    BY <1>6 DEF Resting, Uploading
  <2>2. PICK file \in Files : DownloadingOf(file)
    BY <1>3, <1>6, <2>1 DEF Downloading
  <2>3. /\ cTotal = file.size /\ cRecved = Len(cFile) /\ (cTotal > 0 => cRecved < cTotal)
        /\ cFile \o In = want /\ want = Pieces(file)
    BY <1>6, <2>2 DEF DownloadingOf
  <2>4. In = <<>>
    BY <1>1, <1>6, StreamsAreUnits
  <2>5. cFile \in Seq(Units)
    BY <1>1, ServerTypes
  <2>6. cFile = want
    BY <2>3, <2>4, <2>5
  <2>7. Len(want) = cTotal
    BY <2>3, DownloadFacts
  <2> QED
    BY <1>2, <2>3, <2>6, <2>7
<1> QED
  BY <1>1, <1>4, <1>5, <1>6 DEF TransfersWhole

\* For files of every size, in units, and however many operations and pushes: a
\* transfer that is reported as complete is the file, whole and once, if it was
\* alone and not disturbed, and no side is left in file mode with nothing on the
\* way (readyRead of mytcpsocket.cpp and of tcpclient.cpp, the timers of the two
\* sides, and what the client writes for the PDUs it gets).
THEOREM TransfersAreWhole == Spec => []TransfersWhole
<1>1. TransferInv => TransfersWhole
  BY WholeWhenInv
<1> QED
  BY <1>1, TransferInvIsInvariant, PTL

\* As long as operations are alone the server never takes a piece of a file for a
\* PDU but in an upload that a PDU of the client's own got into, and the client
\* never but in a download that another user's PDU got into.
THEOREM PiecesAreNoPDUs == Spec => []NotGarbled
<1>1. TransferInv => NotGarbled
  BY DEF TransferInv
<1> QED
  BY <1>1, TransferInvIsInvariant, PTL
=============================================================================
