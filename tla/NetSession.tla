----------------------------- MODULE NetSession -----------------------------
(***************************************************************************)
(* The net disk's accounts, sessions and friends: the server's sockets     *)
(* (MyTcpSocket, MyTcpServer) over its database (OpeDB), and the client    *)
(* programs of the users.  The server is one thread, a PDU is handled in   *)
(* one step.                                                               *)
(*                                                                         *)
(* Both sides read one PDU per readyRead signal, and Qt signals once per   *)
(* arrival: PDUs that arrive together wait in the socket's buffer for      *)
(* later ones to push them out.  A client in a message box that an answer  *)
(* opened is inside its readyRead slot, where Qt does not signal at all.   *)
(***************************************************************************)
EXTENDS Naturals, Sequences, FiniteSets

CONSTANTS Users,      \* user names
          Clients,    \* client programs, each with its socket in the server
          MaxStarts,  \* client programs started
          MaxClicks,  \* requests the users make
          MaxCrashes  \* restarts of the server

NoName == "no name"
NoBox == <<"none">>
InputBox == <<"input">>  \* a complaint about what the user typed
ASSUME NameAssumption == NoName \notin Users

VARIABLES
  usrInfo,     \* the names in table usrInfo
  online,      \* those with online = 1
  friendInfo,  \* table friendInfo: pairs <<id, friendId>>
  sockets,     \* m_tcpSocketList
  name,        \* m_strName of each socket
  unread,      \* PDUs in the socket's buffer, after the last readyRead
  toServer,    \* PDUs on their way to the server
  toClient,    \* PDUs on their way to each client
  link,        \* each client program: "off", "on", or "gone" (it has quit)
  window,      \* the window shown: "login" or "main"
  login,       \* m_strLoginName
  box,         \* the message box that is open: NoBox, an information, a question
  held,        \* PDUs in the client's buffer, after the last readyRead
  shown,       \* the names in the client's friend list
  starts, clicks, crashes,
  hasty,       \* history: clients whose login was clicked with the last unanswered
  consent,     \* history: <<p, n>>: p's client said yes to n's request
  crossed      \* history: pairs of users who had asked each other at once

tables == <<usrInfo, online, friendInfo>>
serverVars == <<sockets, name, unread>>
clientVars == <<link, window, login, box, held, shown>>
counters == <<starts, clicks, crashes>>
history == <<hasty, consent, crossed>>
vars == <<tables, serverVars, toServer, toClient, clientVars, counters, history>>

Pdu(type, x, y) == [type |-> type, x |-> x, y |-> y]
Names == Users \cup {NoName}

\* What a client sends.
Requests ==
  [type : {"regist"}, x : Users, y : {NoName}] \cup [type : {"login"}, x : Users, y : BOOLEAN]
  \cup [type : {"flush"}, x : Names, y : {NoName}]
  \cup [type : {"add", "agree", "refuse", "delete", "chat"}, x : Names, y : Names]

\* What the server sends: answers ("box" stands for those that the client only
\* shows in a message box), a list of friends, forwarded requests.
Answers ==
  [type : {"box", "loginOk", "loginFailed", "refused", "added", "deleted"},
   x : {NoName}, y : {NoName}]
  \cup [type : {"friends"}, x : SUBSET Users, y : {NoName}]
  \cup [type : {"add", "chat"}, x : Names, y : Names]

Boxes == {NoBox, InputBox, <<"box">>, <<"loginFailed">>, <<"deleted">>}
         \cup ({"ask"} \X Names \X Names)

TypeOK ==
  /\ usrInfo \subseteq Users /\ online \subseteq usrInfo
  /\ friendInfo \subseteq usrInfo \X usrInfo
  /\ sockets \subseteq Clients /\ name \in [Clients -> Names]
  /\ unread \in [Clients -> Seq(Requests)] /\ toServer \in [Clients -> Seq(Requests)]
  /\ toClient \in [Clients -> Seq(Answers)] /\ held \in [Clients -> Seq(Answers)]
  /\ link \in [Clients -> {"off", "on", "gone"}]
  /\ window \in [Clients -> {"login", "main"}] /\ login \in [Clients -> Names]
  /\ box \in [Clients -> Boxes] /\ shown \in [Clients -> SUBSET Users]
  /\ hasty \subseteq Clients

\* Every user of the database is offline; no client runs.
Init ==
  /\ usrInfo \in SUBSET Users /\ online = {} /\ friendInfo = {}
  /\ sockets = {} /\ name = [c \in Clients |-> NoName]
  /\ unread = [c \in Clients |-> <<>>]
  /\ toServer = [c \in Clients |-> <<>>] /\ toClient = [c \in Clients |-> <<>>]
  /\ link = [c \in Clients |-> "off"] /\ window = [c \in Clients |-> "login"]
  /\ login = [c \in Clients |-> NoName] /\ box = [c \in Clients |-> NoBox]
  /\ held = [c \in Clients |-> <<>>] /\ shown = [c \in Clients |-> {}]
  /\ starts = 0 /\ clicks = 0 /\ crashes = 0
  /\ hasty = {} /\ consent = {} /\ crossed = {}

-----------------------------------------------------------------------------
(* The database.                                                           *)

AreFriends(p, n) == <<p, n>> \in friendInfo \/ <<n, p>> \in friendInfo

\* handleFlushFriend: the friends online, in either direction.
OnlineFriends(table, n) == {u \in online : <<u, n>> \in table \/ <<n, u>> \in table}

-----------------------------------------------------------------------------
(* The server's side of a socket.                                          *)

\* write to a socket; what is written to a client that has quit is lost.
Written(out, c, pdu) ==
  IF link[c] = "on" THEN [out EXCEPT ![c] = Append(@, pdu)] ELSE out

\* Mutant of Resent: any named socket will do.
ResentToAnyone(out, u, pdu) ==
  IF \E c \in sockets : name[c] # NoName
  THEN Written(out, CHOOSE c \in sockets : name[c] # NoName, pdu)
  ELSE out

\* resend: to the (first) socket with that name, if there is one.
Resent(out, u, pdu) ==
  IF \E c \in sockets : name[c] = u
  THEN Written(out, CHOOSE c \in sockets : name[c] = u, pdu)
  ELSE out

\* readyRead: some PDUs have arrived behind those left over, and recvMsg takes
\* the first of them all.
Reads(c, pdu) ==
  /\ c \in sockets
  /\ \E k \in 1..Len(toServer[c]) :
       LET data == unread[c] \o SubSeq(toServer[c], 1, k)
       IN /\ pdu = Head(data)
          /\ unread' = [unread EXCEPT ![c] = Tail(data)]
          /\ toServer' = [toServer EXCEPT ![c] = SubSeq(@, k + 1, Len(@))]
  /\ UNCHANGED <<sockets, clientVars, counters>>

\* The PDUs that may come first in the next readyRead.
Next1(c) == IF unread[c] # <<>> THEN {Head(unread[c])}
            ELSE IF toServer[c] # <<>> THEN {Head(toServer[c])} ELSE {}

\* handleRegist: names are unique; the user's directory is made.
HandleRegist(c) == \E pdu \in Next1(c) :
  /\ pdu.type = "regist" /\ Reads(c, pdu)
  /\ usrInfo' = usrInfo \cup {pdu.x}
  /\ toClient' = Written(toClient, c, Pdu("box", NoName, NoName))
  /\ UNCHANGED <<online, friendInfo, name, history>>

\* Mutant of MayLogin: a user who is online may log in again.
MayLoginAgain(u, ok) == ok /\ u \in usrInfo

\* handleLogin: the name, its password (ok), and online = 0.
MayLogin(u, ok) == ok /\ u \in usrInfo /\ u \notin online

\* The socket takes the name; it may have had another one.
HandleLogin(c) == \E pdu \in Next1(c) :
  /\ pdu.type = "login" /\ Reads(c, pdu)
  /\ IF MayLogin(pdu.x, pdu.y)
     THEN /\ online' = online \cup {pdu.x}
          /\ name' = [name EXCEPT ![c] = pdu.x]
          /\ toClient' = Written(toClient, c, Pdu("loginOk", NoName, NoName))
     ELSE /\ toClient' = Written(toClient, c, Pdu("loginFailed", NoName, NoName))
          /\ UNCHANGED <<online, name>>
  /\ UNCHANGED <<usrInfo, friendInfo, history>>

\* A request of n to p that has been forwarded and not been answered.
Elements(s) == {s[i] : i \in DOMAIN s}
Asked(p, n) ==
  \E c \in Clients :
    \/ Pdu("add", p, n) \in Elements(held[c] \o toClient[c])
    \/ box[c] = <<"ask", p, n>>
    \/ Pdu("agree", p, n) \in Elements(unread[c] \o toServer[c])

\* ADD_FRIEND_REQUEST from y to x: forwarded to x if he is online and not yet
\* a friend, answered otherwise.
HandleAddFriend(c) == \E pdu \in Next1(c) :
  /\ pdu.type = "add" /\ Reads(c, pdu)
  /\ IF ~AreFriends(pdu.x, pdu.y) /\ pdu.x \in online
     THEN /\ toClient' = Resent(toClient, pdu.x, pdu)
          /\ crossed' = IF Asked(pdu.y, pdu.x) THEN crossed \cup {{pdu.x, pdu.y}} ELSE crossed
     ELSE toClient' = Written(toClient, c, Pdu("refused", NoName, NoName)) /\ UNCHANGED crossed
  /\ UNCHANGED <<tables, name, hasty, consent>>

\* FLUSH_FRIEND_REQUEST of x: his friends who are online.
Friends(out, c, x) == Written(out, c, Pdu("friends", OnlineFriends(friendInfo, x), NoName))

\* ADD_FRIEND_AGGREE: the pair is inserted unless it is there; then the code
\* falls through to the refusal and to the refresh.
HandleAgree(c) == \E pdu \in Next1(c) :
  /\ pdu.type = "agree" /\ Reads(c, pdu)
  /\ LET pair == <<pdu.x, pdu.y>>
         ok == pair \notin friendInfo /\ {pdu.x, pdu.y} \subseteq usrInfo
         told == IF ok THEN Resent(toClient, pdu.y, Pdu("added", NoName, NoName))
                 ELSE toClient
         refused == Resent(told, pdu.y, Pdu("refused", NoName, NoName))
     IN /\ friendInfo' = IF ok THEN friendInfo \cup {pair} ELSE friendInfo
        /\ toClient' = Written(refused, c, Pdu("friends", OnlineFriends(friendInfo', pdu.x), NoName))
  /\ UNCHANGED <<usrInfo, online, name, history>>

\* ADD_FRIEND_REFUSE, which falls through to the refresh.
HandleRefuse(c) == \E pdu \in Next1(c) :
  /\ pdu.type = "refuse" /\ Reads(c, pdu)
  /\ toClient' = Friends(Resent(toClient, pdu.y, Pdu("refused", NoName, NoName)), c, pdu.x)
  /\ UNCHANGED <<tables, name, history>>

HandleFlush(c) == \E pdu \in Next1(c) :
  /\ pdu.type = "flush" /\ Reads(c, pdu)
  /\ toClient' = Friends(toClient, c, pdu.x)
  /\ UNCHANGED <<tables, name, history>>

\* DELETE_FRIEND_REQUEST: both directions.
HandleDelete(c) == \E pdu \in Next1(c) :
  /\ pdu.type = "delete" /\ Reads(c, pdu)
  /\ friendInfo' = friendInfo \ {<<pdu.x, pdu.y>>, <<pdu.y, pdu.x>>}
  /\ toClient' = Written(toClient, c, Pdu("deleted", NoName, NoName))
  /\ UNCHANGED <<usrInfo, online, name, history>>

\* PRIVATE_CHAT_REQUEST to x.
HandleChat(c) == \E pdu \in Next1(c) :
  /\ pdu.type = "chat" /\ Reads(c, pdu)
  /\ toClient' = Resent(toClient, pdu.x, pdu)
  /\ UNCHANGED <<tables, name, history>>

\* Mutant of GoOffline: the row keeps online = 1.
GoOfflineNever(u) == UNCHANGED online

\* handleOffline.
GoOffline(u) == online' = online \ {u}

\* disconnected: clientOffline, and deleteSocket takes the socket off the list.
ClientOffline(c) ==
  /\ link[c] = "gone" /\ c \in sockets
  /\ GoOffline(name[c])
  /\ sockets' = sockets \ {c} /\ name' = [name EXCEPT ![c] = NoName]
  /\ unread' = [unread EXCEPT ![c] = <<>>] /\ toServer' = [toServer EXCEPT ![c] = <<>>]
  /\ link' = [link EXCEPT ![c] = "off"]
  /\ hasty' = hasty \ {c}
  /\ UNCHANGED <<usrInfo, friendInfo, toClient, window, login, box, held, shown, counters,
                 consent, crossed>>

\* The server process ends and is started again: the tables are all it keeps.
Crash ==
  /\ crashes < MaxCrashes
  /\ crashes' = crashes + 1
  /\ sockets' = {} /\ name' = [c \in Clients |-> NoName]
  /\ unread' = [c \in Clients |-> <<>>]
  /\ toServer' = [c \in Clients |-> <<>>] /\ toClient' = [c \in Clients |-> <<>>]
  /\ link' = [c \in Clients |-> "off"]
  /\ window' = [c \in Clients |-> "login"] /\ login' = [c \in Clients |-> NoName]
  /\ box' = [c \in Clients |-> NoBox] /\ held' = [c \in Clients |-> <<>>]
  /\ shown' = [c \in Clients |-> {}]
  /\ hasty' = {}
  /\ UNCHANGED <<tables, starts, clicks, consent, crossed>>

-----------------------------------------------------------------------------
(* The client program.                                                     *)

\* It connects; incomingConnection makes its socket.
Start(c) ==
  /\ link[c] = "off" /\ starts < MaxStarts
  /\ starts' = starts + 1
  /\ link' = [link EXCEPT ![c] = "on"]
  /\ sockets' = sockets \cup {c}
  /\ UNCHANGED <<tables, name, unread, toServer, toClient, window, login, box, held, shown,
                 clicks, crashes, history>>

\* The user closes it; the server will see the connection end.
Quit(c) ==
  /\ link[c] = "on"
  /\ link' = [link EXCEPT ![c] = "gone"]
  /\ window' = [window EXCEPT ![c] = "login"] /\ login' = [login EXCEPT ![c] = NoName]
  /\ box' = [box EXCEPT ![c] = NoBox] /\ held' = [held EXCEPT ![c] = <<>>]
  /\ shown' = [shown EXCEPT ![c] = {}] /\ toClient' = [toClient EXCEPT ![c] = <<>>]
  /\ UNCHANGED <<tables, serverVars, toServer, counters, history>>

Sends(c, pdu) == toServer' = [toServer EXCEPT ![c] = Append(@, pdu)]

\* A button: it works in its window while no message box is open.
Clicks(c, where, pdu) ==
  /\ link[c] = "on" /\ window[c] = where /\ box[c] = NoBox
  /\ clicks < MaxClicks /\ clicks' = clicks + 1
  /\ Sends(c, pdu)
  /\ UNCHANGED <<tables, serverVars, toClient, link, window, box, held, shown, starts,
                 crashes, consent, crossed>>

\* A login of c that has not been answered, or whose answer is not yet read.
LoginPending(c) ==
  \/ \E pdu \in Elements(unread[c] \o toServer[c]) : pdu.type = "login"
  \/ \E pdu \in Elements(held[c] \o toClient[c]) : pdu.type \in {"loginOk", "loginFailed"}

\* on_login_pb_clicked: the name is kept before the server has answered.
ClickLogin(c) == \E u \in Users, ok \in BOOLEAN :
  /\ Clicks(c, "login", Pdu("login", u, ok))
  /\ login' = [login EXCEPT ![c] = u]
  /\ hasty' = IF LoginPending(c) THEN hasty \cup {c} ELSE hasty

\* A field is empty: the name is kept all the same, and nothing is sent.
ClickLoginBlank(c) == \E u \in Names :
  /\ link[c] = "on" /\ window[c] = "login" /\ box[c] = NoBox
  /\ clicks < MaxClicks /\ clicks' = clicks + 1
  /\ login' = [login EXCEPT ![c] = u]
  /\ box' = [box EXCEPT ![c] = InputBox]
  /\ hasty' = IF LoginPending(c) THEN hasty \cup {c} ELSE hasty
  /\ UNCHANGED <<tables, serverVars, toServer, toClient, link, window, held, shown, starts,
                 crashes, consent, crossed>>

ClickRegist(c) == \E u \in Users :
  Clicks(c, "login", Pdu("regist", u, NoName)) /\ UNCHANGED <<login, hasty>>

\* Friend's and Online's buttons.
ClickFlush(c) == Clicks(c, "main", Pdu("flush", login[c], NoName)) /\ UNCHANGED <<login, hasty>>

ClickAdd(c) == \E u \in usrInfo \ {login[c]} :
  Clicks(c, "main", Pdu("add", u, login[c])) /\ UNCHANGED <<login, hasty>>

ClickDelete(c) == \E u \in shown[c] :
  Clicks(c, "main", Pdu("delete", login[c], u)) /\ UNCHANGED <<login, hasty>>

ClickChat(c) == \E u \in shown[c] :
  Clicks(c, "main", Pdu("chat", u, login[c])) /\ UNCHANGED <<login, hasty>>

\* readyRead in the client: recvMsg takes one PDU.  A box opened by a click is
\* no obstacle.
Gets(c, pdu) ==
  /\ link[c] = "on" /\ box[c] \in {NoBox, InputBox}
  /\ \E k \in 1..Len(toClient[c]) :
       LET data == held[c] \o SubSeq(toClient[c], 1, k)
       IN /\ pdu = Head(data)
          /\ held' = [held EXCEPT ![c] = Tail(data)]
          /\ toClient' = [toClient EXCEPT ![c] = SubSeq(@, k + 1, Len(@))]
  /\ UNCHANGED <<tables, serverVars, link, login, counters, history>>

Get1(c) == IF held[c] # <<>> THEN {Head(held[c])}
           ELSE IF toClient[c] # <<>> THEN {Head(toClient[c])} ELSE {}

\* Mutant of IsLoginOk: any answer to a login will do.
IsLoginAnswer(pdu) == pdu.type \in {"loginOk", "loginFailed"}

\* strcmp(caData, LOGIN_OK) == 0.
IsLoginOk(pdu) == pdu.type = "loginOk"

\* LOGIN_OK: the main window, and the first refresh, for the name kept.
GetLoginOk(c) == \E pdu \in Get1(c) :
  /\ IsLoginOk(pdu) /\ Gets(c, pdu)
  /\ window' = [window EXCEPT ![c] = "main"]
  /\ Sends(c, Pdu("flush", login[c], NoName))
  /\ UNCHANGED <<box, shown>>

\* Answers shown in a message box.
GetBox(c) == \E pdu \in Get1(c) :
  /\ pdu.type \in {"box", "loginFailed", "deleted"} /\ Gets(c, pdu)
  /\ box' = [box EXCEPT ![c] = <<pdu.type>>]
  /\ UNCHANGED <<window, shown, toServer>>

\* ADD_FRIEND_REQUEST: the user is asked.
GetAdd(c) == \E pdu \in Get1(c) :
  /\ pdu.type = "add" /\ Gets(c, pdu)
  /\ box' = [box EXCEPT ![c] = <<"ask", pdu.x, pdu.y>>]
  /\ UNCHANGED <<window, shown, toServer>>

\* ADD_FRIEND_RESPOND: a success refreshes the list.
GetAdded(c) == \E pdu \in Get1(c) :
  /\ pdu.type = "added" /\ Gets(c, pdu)
  /\ Sends(c, Pdu("flush", login[c], NoName))
  /\ UNCHANGED <<box, window, shown>>

\* Other ADD_FRIEND_RESPONDs and chats change nothing here.
GetNote(c) == \E pdu \in Get1(c) :
  /\ pdu.type \in {"refused", "chat"} /\ Gets(c, pdu)
  /\ UNCHANGED <<box, window, shown, toServer>>

\* updateFriendList.
GetFriends(c) == \E pdu \in Get1(c) :
  /\ pdu.type = "friends" /\ Gets(c, pdu)
  /\ shown' = [shown EXCEPT ![c] = pdu.x]
  /\ UNCHANGED <<box, window, toServer>>

\* While an answer's box is open PDUs arrive without a signal.
ArriveSilently(c) ==
  /\ link[c] = "on" /\ box[c] \notin {NoBox, InputBox} /\ toClient[c] # <<>>
  /\ held' = [held EXCEPT ![c] = @ \o toClient[c]]
  /\ toClient' = [toClient EXCEPT ![c] = <<>>]
  /\ UNCHANGED <<tables, serverVars, toServer, link, window, login, box, shown, counters,
                 history>>

\* The user closes the box.  The question's answer repeats its names; a
\* deletion is followed by a refresh.
CloseBox(c) ==
  /\ link[c] = "on" /\ box[c] # NoBox
  /\ box' = [box EXCEPT ![c] = NoBox]
  /\ CASE box[c][1] = "ask" ->
            \/ /\ Sends(c, Pdu("agree", box[c][2], box[c][3]))
               /\ consent' = consent \cup {<<IF c \in hasty THEN box[c][2] ELSE login[c],
                                             box[c][3]>>}
            \/ /\ Sends(c, Pdu("refuse", box[c][2], box[c][3]))
               /\ UNCHANGED consent
       [] box[c][1] = "deleted" ->
            Sends(c, Pdu("flush", login[c], NoName)) /\ UNCHANGED consent
       [] OTHER -> UNCHANGED <<toServer, consent>>
  /\ UNCHANGED <<tables, serverVars, toClient, link, window, login, held, shown, counters,
                 hasty, crossed>>

-----------------------------------------------------------------------------
Server(c) ==
  \/ HandleRegist(c) \/ HandleLogin(c) \/ HandleAddFriend(c)
  \/ HandleAgree(c) \/ HandleRefuse(c) \/ HandleFlush(c) \/ HandleDelete(c) \/ HandleChat(c)
  \/ ClientOffline(c)

User(c) ==
  \/ Start(c) \/ Quit(c) \/ ClickLogin(c) \/ ClickLoginBlank(c) \/ ClickRegist(c) \/ ClickFlush(c)
  \/ ClickAdd(c) \/ ClickDelete(c) \/ ClickChat(c) \/ CloseBox(c)

Client(c) ==
  \/ GetLoginOk(c) \/ GetBox(c) \/ GetAdd(c) \/ GetAdded(c) \/ GetNote(c) \/ GetFriends(c)
  \/ ArriveSilently(c)

Next == Crash \/ \E c \in Clients : Server(c) \/ User(c) \/ Client(c)

\* Nothing is promised to happen: a PDU left over in a buffer waits for the
\* next to arrive, which may never come.
Spec == Init /\ [][Next]_vars

-----------------------------------------------------------------------------
(* Properties.                                                             *)

\* A name has at most one session, a session's user is online in the database,
\* and only registered users are: through logins, second logins on one socket,
\* disconnections and restarts.
OneSession ==
  /\ TypeOK
  /\ \A c, d \in sockets : name[c] = name[d] /\ name[c] # NoName => c = d
  /\ \A c \in sockets : name[c] # NoName => name[c] \in online
  /\ \A c \in Clients \ sockets : name[c] = NoName

\* The users whose row says online and who have no session.
Stranded == online \ {name[c] : c \in sockets}

\* A user is stranded only by a restart of the server, or by a second login on
\* the socket of a client that did not wait for the answer to its first; and
\* he is locked out for good, for no login and no disconnection of anybody
\* frees the row again.
LockedOut ==
  [][/\ Stranded \subseteq Stranded'
     /\ \A u \in Stranded' \ Stranded :
          crashes' > crashes \/ \E c \in hasty : name[c] = u]_vars

\* In the main window a client acts for the user its socket is logged in as,
\* unless its login button was clicked before the previous login was answered.
ClientIsItsSession ==
  \A c \in Clients \ hasty :
    link[c] = "on" /\ window[c] = "main" => name[c] = login[c]

\* Two users are friends only if the client of the one who was asked said yes
\* (the request was forwarded to nobody else; a hasty client may say yes for a
\* name that it does not show), and they are in the table once, and so listed
\* and served once, unless they had asked each other at the same time.
FriendsAgreed ==
  /\ friendInfo \subseteq consent
  /\ \A p, n \in Users :
       <<p, n>> \in friendInfo /\ <<n, p>> \in friendInfo => p = n \/ {p, n} \in crossed
=============================================================================
