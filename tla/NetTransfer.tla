---------------------------- MODULE NetTransfer ----------------------------
(***************************************************************************)
(* The net disk's uploads and downloads between one client program and its *)
(* socket in the server.  Files travel raw on the connection that carries  *)
(* the PDUs: the receiver is in file mode from the PDU that announces the  *)
(* file until it has counted the announced size, and takes whatever        *)
(* arrives for the file; the sender waits a second, so that the receiver   *)
(* is in that mode before the data comes.  The timers and the network are  *)
(* not timed here: a timer fires sometime.  What the client writes on the  *)
(* same connection for a PDU that another user caused is here too.         *)
(*                                                                         *)
(* A unit is a PDU or a piece of a file; a PDU counts as a unit when it is *)
(* taken for a piece of a file.  Outside file mode a readyRead takes one   *)
(* PDU, as in NetSession.  Nothing is defined once data has been taken for *)
(* a PDU (its first bytes become a length): the model stops there.         *)
(***************************************************************************)
EXTENDS Naturals, Sequences

CONSTANTS Sizes,     \* sizes of files, in units
          MaxClicks, \* operations the user starts
          MaxPushes  \* PDUs of other users that are forwarded to the client

ASSUME SizesAssumption == Sizes \subseteq Nat /\ MaxClicks \in Nat

VARIABLES
  c2s, s2c,          \* units on their way
  sBuf, cBuf,        \* units in the sockets' buffers, after the last readyRead
  upLoad,            \* m_upLoad
  sTotal, sRecved,   \* the server's m_iTotal, m_iRecved
  sFile,             \* the server's m_file: whether its path can be read, is open; contents
  sTimer,            \* m_Timer runs
  downLoad,          \* m_downLoad
  cTotal, cRecved,   \* the client's m_iTotal, m_iRecved
  cFile,             \* the contents of the client's m_file
  upFile,            \* the file of m_strUploadFilePath
  upTimer,           \* book's m_pTimer runs
  box,               \* the message box that recvMsg has opened
  clicks, pushes,
  op,                \* history: the operation started when all was quiet, or "several"
  disturbed,         \* history: a PDU that is none of its own got in its way
  failed,            \* history: a file could not be opened since then
  want,              \* history: the contents of the last file transferred
  got,               \* history: <<kind, contents>> of its copy once complete
  garbled            \* "no", or the side that took a piece of a file for a PDU

streams == <<c2s, s2c, sBuf, cBuf>>
serverVars == <<upLoad, sTotal, sRecved, sFile, sTimer>>
downVars == <<downLoad, cTotal, cRecved, cFile>>
upVars == <<upFile, upTimer>>
history == <<clicks, pushes, op, want>>
vars == <<streams, serverVars, downVars, upVars, box, history, disturbed, failed, got, garbled>>

Unit(kind, n) == [kind |-> kind, n |-> n]
Pieces(file) == [i \in 1..file.size |-> Unit("data", <<file.op, i>>)]
Files == [op : 0..MaxClicks, size : Sizes \cup {0}]

\* A request that is no transfer, and what the server may answer: a list is
\* asked for; something is shown, done or refused; a file is moved, a share
\* answered or a friend removed; a chat, a share or a friend request is passed on.
Answers == [ask |-> {"shown"}, change |-> {"shown", "changed", "told"},
            move |-> {"moved"}, note |-> {}]

\* What another user's request makes the server send to the client: a chat or a
\* refusal, which are shown; the success of a friend request, for which the
\* client asks for a list; a share; the answer to a share, or a friend request,
\* each a box and then a request that is answered with a list (a yes or a no to
\* a friend falls through to FLUSH_FRIEND_REQUEST).
Pushes == {"shown", "changed", "offered", "moved"}

\* The boxes of the PDUs that open one, and what is sent when they are closed:
\* nothing, a request for a list, the answer to a share (a no falls through to
\* MOVE_FILE_REQUEST, so that both are answered as a move is).
BoxOf == [told |-> "note", uploaded |-> "refresh", moved |-> "refresh", offered |-> "question"]
ReplyOf == [refresh |-> "ask", question |-> "move"]

NoFile == [there |-> FALSE, open |-> FALSE, data |-> <<>>]

TypeOK ==
  /\ upLoad \in BOOLEAN /\ downLoad \in BOOLEAN /\ upTimer \in BOOLEAN /\ sTimer \in BOOLEAN
  /\ {sTotal, sRecved, cTotal, cRecved} \subseteq Nat
  /\ sFile.there \in BOOLEAN /\ sFile.open \in BOOLEAN /\ upFile \in Files
  /\ box \in {"none", "note", "refresh", "question"}
  /\ op \in {"none", "other", "upload", "download", "several"}
  /\ garbled \in {"no", "server", "client"}

Init ==
  /\ c2s = <<>> /\ s2c = <<>> /\ sBuf = <<>> /\ cBuf = <<>>
  /\ upLoad = FALSE /\ sTotal = 0 /\ sRecved = 0 /\ sFile = NoFile /\ sTimer = FALSE
  /\ downLoad = FALSE /\ cTotal = 0 /\ cRecved = 0 /\ cFile = <<>>
  /\ upFile = [op |-> 0, size |-> 0] /\ upTimer = FALSE
  /\ box = "none" /\ clicks = 0 /\ pushes = 0
  /\ op = "none" /\ disturbed = FALSE /\ failed = FALSE
  /\ want = <<>> /\ got = <<>> /\ garbled = "no"

\* Every action's guard.
Defined == garbled = "no"

\* No operation is under way, as far as the whole system is concerned.
Quiet ==
  /\ c2s = <<>> /\ s2c = <<>> /\ sBuf = <<>> /\ cBuf = <<>> /\ box = "none"
  /\ ~upLoad /\ ~downLoad /\ ~upTimer /\ ~sTimer

\* The user's operation is a transfer in this direction, not yet complete.
Transferring(direction) == op = direction /\ got = <<>>

-----------------------------------------------------------------------------
(* The server's socket.                                                    *)

Tells(unit) == s2c' = Append(s2c, unit)

\* readyRead outside upload mode: recvMsg takes the first unit for a PDU.
Serves(unit) ==
  /\ Defined /\ ~upLoad
  /\ \E k \in 1..Len(c2s) :
       LET data == sBuf \o SubSeq(c2s, 1, k)
       IN /\ unit = Head(data)
          /\ sBuf' = Tail(data) /\ c2s' = SubSeq(c2s, k + 1, Len(c2s))
  /\ UNCHANGED <<cBuf, downVars, upVars, box, history, disturbed, got>>

NextAtServer == IF sBuf # <<>> THEN {Head(sBuf)} ELSE IF c2s # <<>> THEN {Head(c2s)} ELSE {}

\* Requests that are no transfers (FLUSH_FILE_REQUEST and others).
ServeAsk == \E unit \in NextAtServer :
  /\ unit.kind \in DOMAIN Answers /\ Serves(unit)
  /\ \/ Answers[unit.kind] = {} /\ UNCHANGED s2c
     \/ \E kind \in Answers[unit.kind] : Tells(Unit(kind, 0))
  /\ UNCHANGED <<serverVars, failed, garbled>>

\* Mutant of ReceivedAtStart: the count of the previous upload is kept.
ReceivedKept == sRecved

\* m_iRecved = 0.
ReceivedAtStart == 0

\* UPLOAD_FILE_REQUEST: a new file is opened, if it can be; no answer.
ServeUpload == \E unit \in NextAtServer, ok \in BOOLEAN :
  /\ unit.kind = "upload" /\ Serves(unit)
  /\ sFile' = [there |-> ok, open |-> ok, data |-> <<>>]
  /\ IF ok
     THEN /\ upLoad' = TRUE /\ sTotal' = unit.n /\ sRecved' = ReceivedAtStart
          /\ UNCHANGED failed
     ELSE failed' = TRUE /\ UNCHANGED <<upLoad, sTotal, sRecved>>
  /\ UNCHANGED <<s2c, sTimer, garbled>>

\* DOWNLOAD_FILE_REQUEST: m_file takes the name in any case.  A file is
\* announced and follows in a second, a directory is refused, and for a name
\* that is not there is no answer.
ServeDownload == \E unit \in NextAtServer :
  /\ Serves(unit)
  /\ \/ /\ unit.kind = "download"
        /\ sFile' = [there |-> TRUE, open |-> FALSE, data |-> Pieces(unit.n)]
        /\ Tells(Unit("sending", unit.n.size)) /\ sTimer' = TRUE
     \/ /\ unit.kind = "downloadDir" /\ sFile' = NoFile
        /\ Tells(Unit("told", 0)) /\ UNCHANGED sTimer
     \/ /\ unit.kind = "downloadNone" /\ sFile' = NoFile /\ UNCHANGED <<s2c, sTimer>>
  /\ UNCHANGED <<upLoad, sTotal, sRecved, failed, garbled>>

ServeGarbage == \E unit \in NextAtServer :
  /\ unit.kind = "data" /\ Serves(unit)
  /\ garbled' = "server"
  /\ UNCHANGED <<s2c, serverVars, failed>>

\* m_iTotal <= m_iRecved.
Complete(total, recved) == total <= recved

\* readyRead in upload mode: all there is goes to the file (nothing is written
\* if it has been closed) and is counted.
ServeData ==
  /\ Defined /\ upLoad
  /\ \E k \in 1..Len(c2s) :
       LET data == sBuf \o SubSeq(c2s, 1, k)
           written == IF sFile.open THEN sFile.data \o data ELSE sFile.data
       IN /\ sBuf' = <<>> /\ c2s' = SubSeq(c2s, k + 1, Len(c2s))
          /\ sRecved' = sRecved + Len(data)
          /\ IF Complete(sTotal, sRecved')
             THEN /\ upLoad' = FALSE /\ sFile' = [sFile EXCEPT !.open = FALSE, !.data = written]
                  /\ Tells(Unit("uploaded", 0)) /\ got' = <<"upload", written>>
             ELSE sFile' = [sFile EXCEPT !.data = written] /\ UNCHANGED <<upLoad, s2c, got>>
  /\ UNCHANGED <<cBuf, sTotal, sTimer, downVars, upVars, box, history, disturbed, failed,
                 garbled>>

\* sendFileToClient: m_file is opened, unless it is open, sent and closed.
SendFileToClient == \E ok \in BOOLEAN :
  /\ Defined /\ sTimer /\ sTimer' = FALSE
  /\ sFile' = [sFile EXCEPT !.open = FALSE]
  /\ IF sFile.there /\ ~sFile.open /\ ok THEN s2c' = s2c \o sFile.data ELSE UNCHANGED s2c
  /\ failed' = (failed \/ ~ok)
  /\ UNCHANGED <<c2s, sBuf, cBuf, upLoad, sTotal, sRecved, downVars, upVars, box, history,
                 disturbed, got, garbled>>

\* A PDU that another user's request causes, written by his socket.
Push ==
  /\ Defined /\ pushes < MaxPushes /\ pushes' = pushes + 1
  /\ \E kind \in Pushes : Tells(Unit(kind, 0))
  /\ disturbed' = (disturbed \/ Transferring("download"))
  /\ UNCHANGED <<c2s, sBuf, cBuf, serverVars, downVars, upVars, box, clicks, op, want, failed,
                 got, garbled>>

-----------------------------------------------------------------------------
(* The client program.                                                     *)

\* A button, while no box is open: the operation's PDU is sent.
Clicks(operation, unit, contents) ==
  /\ Defined /\ box = "none" /\ clicks < MaxClicks /\ clicks' = clicks + 1
  /\ c2s' = Append(c2s, unit)
  /\ want' = contents /\ got' = <<>>
  /\ op' = IF Quiet THEN operation ELSE "several"
  /\ disturbed' = FALSE /\ failed' = FALSE
  /\ UNCHANGED <<s2c, sBuf, cBuf, serverVars, downVars, box, pushes, garbled>>

ClickAsk ==
  /\ \E kind \in DOMAIN Answers : Clicks("other", Unit(kind, 0), <<>>)
  /\ UNCHANGED upVars

\* on_UploadPB_clicked: the timer is started, again if it was running.
ClickUpload == \E size \in Sizes :
  LET file == [op |-> clicks + 1, size |-> size]
  IN /\ Clicks("upload", Unit("upload", size), Pieces(file))
     /\ upFile' = file /\ upTimer' = TRUE

\* on_DownLoadPB_clicked, for a file, a directory, or a name that has gone.
ClickDownload ==
  /\ UNCHANGED upVars
  /\ \/ \E size \in Sizes :
          LET file == [op |-> clicks + 1, size |-> size]
          IN Clicks("download", Unit("download", file), Pieces(file))
     \/ Clicks("download", Unit("downloadDir", 0), <<>>)
     \/ Clicks("download", Unit("downloadNone", 0), <<>>)

\* Mutant of TimerStopped: the timer is left running.
TimerNotStopped == UNCHANGED upTimer

\* m_pTimer.stop().
TimerStopped == upTimer' = FALSE

\* uploadFileData: the whole file is written, if it can be opened.
UploadFileData == \E ok \in BOOLEAN :
  /\ Defined /\ upTimer /\ TimerStopped
  /\ IF ok THEN c2s' = c2s \o Pieces(upFile) /\ UNCHANGED failed
           ELSE failed' = TRUE /\ UNCHANGED c2s
  /\ UNCHANGED <<s2c, sBuf, cBuf, serverVars, downVars, upFile, box, history, disturbed, got,
                 garbled>>

\* The client program writes a PDU that no button asked for, or none.
Replies(kind) ==
  /\ c2s' = Append(c2s, Unit(kind, 0))
  /\ disturbed' = (disturbed \/ Transferring("upload"))
Silent == UNCHANGED <<c2s, disturbed>>

\* readyRead outside download mode.
Gets(unit) ==
  /\ Defined /\ ~downLoad /\ box = "none"
  /\ \E k \in 1..Len(s2c) :
       LET data == cBuf \o SubSeq(s2c, 1, k)
       IN /\ unit = Head(data)
          /\ cBuf' = Tail(data) /\ s2c' = SubSeq(s2c, k + 1, Len(s2c))
  /\ UNCHANGED <<sBuf, serverVars, upVars, history, got>>

NextAtClient == IF cBuf # <<>> THEN {Head(cBuf)} ELSE IF s2c # <<>> THEN {Head(s2c)} ELSE {}

\* Answers that only change what is shown, and chats.
GetNote == \E unit \in NextAtClient :
  /\ unit.kind = "shown" /\ Gets(unit) /\ Silent
  /\ UNCHANGED <<downVars, box, failed, garbled>>

\* A directory was made, something deleted or renamed, a friend gained: the
\* list is asked for again.
GetChanged == \E unit \in NextAtClient :
  /\ unit.kind = "changed" /\ Gets(unit) /\ Replies("ask")
  /\ UNCHANGED <<downVars, box, failed, garbled>>

\* PDUs that open a message box.
GetTold == \E unit \in NextAtClient :
  /\ unit.kind \in DOMAIN BoxOf /\ Gets(unit) /\ Silent
  /\ box' = BoxOf[unit.kind]
  /\ UNCHANGED <<downVars, failed, garbled>>

\* DOWNLOAD_FILE_RESPOND for a file: the copy is opened, if it can be.
GetSending == \E unit \in NextAtClient, ok \in BOOLEAN :
  /\ unit.kind = "sending" /\ Gets(unit) /\ Silent
  /\ cTotal' = unit.n
  /\ IF ok
     THEN /\ downLoad' = TRUE /\ cRecved' = 0 /\ cFile' = <<>>
          /\ UNCHANGED <<box, failed>>
     ELSE box' = "note" /\ failed' = TRUE /\ UNCHANGED <<downLoad, cRecved, cFile>>
  /\ UNCHANGED garbled

GetGarbage == \E unit \in NextAtClient :
  /\ unit.kind = "data" /\ Gets(unit) /\ Silent
  /\ garbled' = "client"
  /\ UNCHANGED <<downVars, box, failed>>

\* readyRead in download mode.
GetData ==
  /\ Defined /\ downLoad
  /\ \E k \in 1..Len(s2c) :
       LET data == cBuf \o SubSeq(s2c, 1, k)
       IN /\ cBuf' = <<>> /\ s2c' = SubSeq(s2c, k + 1, Len(s2c))
          /\ cFile' = cFile \o data
          /\ IF Complete(cTotal, cRecved + Len(data))
             THEN /\ downLoad' = FALSE /\ cTotal' = 0 /\ cRecved' = 0 /\ box' = "note"
                  /\ got' = <<"download", cFile'>>
             ELSE /\ cRecved' = cRecved + Len(data)
                  /\ UNCHANGED <<downLoad, cTotal, box, got>>
  /\ UNCHANGED <<c2s, sBuf, serverVars, upVars, history, disturbed, failed, garbled>>

\* Inside recvMsg no readyRead comes.
ArriveSilently ==
  /\ Defined /\ box # "none" /\ s2c # <<>>
  /\ cBuf' = cBuf \o s2c /\ s2c' = <<>>
  /\ UNCHANGED <<c2s, sBuf, serverVars, downVars, upVars, box, history, disturbed, failed, got,
                 garbled>>

\* After an upload or a move the list is asked for again; a question is answered,
\* with yes or no.
CloseBox ==
  /\ Defined /\ box # "none" /\ box' = "none"
  /\ IF box \in DOMAIN ReplyOf THEN Replies(ReplyOf[box]) ELSE Silent
  /\ UNCHANGED <<s2c, sBuf, cBuf, serverVars, downVars, upVars, history, failed, got, garbled>>

-----------------------------------------------------------------------------
Server == ServeAsk \/ ServeUpload \/ ServeDownload \/ ServeGarbage \/ ServeData
          \/ SendFileToClient \/ Push
Client == ClickAsk \/ ClickUpload \/ ClickDownload \/ UploadFileData \/ CloseBox
          \/ GetNote \/ GetChanged \/ GetTold \/ GetSending \/ GetGarbage \/ GetData \/ ArriveSilently

Next == Server \/ Client

\* Nothing is promised to happen (see NetSession).
Spec == Init /\ [][Next]_vars

-----------------------------------------------------------------------------
(* Properties.  An operation is alone if the user started it when all was  *)
(* quiet and has started no other since; what happened before that, and    *)
(* how badly, does not matter.  It is disturbed: a download by any PDU that *)
(* other users cause to be written to the client, an upload by any that    *)
(* the client program writes of itself, before the transfer is complete.   *)

Alone == op # "several" /\ ~failed
Undisturbed == Alone /\ ~disturbed

\* A transfer that is reported as complete is the file, whole and once, if it
\* was alone and not disturbed: whether its pieces came together with their
\* announcement, one by one or with a rest of the mode's last use; chats that
\* come during an upload, and boxes left open, do no harm.  And it ends: no
\* side is left in file mode, where it would take the next PDU for a piece of
\* a file, with nothing on the way any more, unless the file was empty.
TransfersWhole ==
  /\ TypeOK
  /\ got # <<>> /\ Undisturbed => got = <<op, want>>
  /\ upLoad /\ Undisturbed /\ c2s = <<>> /\ sBuf = <<>> /\ ~upTimer => sTotal = 0
  /\ downLoad /\ Undisturbed /\ s2c = <<>> /\ cBuf = <<>> /\ ~sTimer => cTotal = 0

\* A piece of a file is never taken for a PDU as long as operations are alone,
\* but by the receiver of a transfer that was disturbed.
NotGarbled ==
  /\ garbled = "server" /\ Alone => op = "upload" /\ disturbed
  /\ garbled = "client" /\ Alone => op = "download" /\ disturbed
=============================================================================
