-------------------------- MODULE NetSessionProofs --------------------------
(***************************************************************************)
(* OneSession, ClientIsItsSession, FriendsAgreed and LockedOut, for any    *)
(* number of users and clients, starts, requests and restarts.             *)
(*                                                                         *)
(* OneSession is inductive as it stands: a login gives a name to a socket  *)
(* only if the row says offline, and then no socket has it.  What has to   *)
(* be carried along is what the queues may hold, because names reach the   *)
(* tables out of PDUs, and PDUs out of message boxes.                      *)
(*                                                                         *)
(* The other three need to know what is on its way, so they rest on three  *)
(* more layers: Links (a program that does not run has nothing to read),   *)
(* OneLogin and Own (of a client that waits for its answers, only one of   *)
(* login request, answer to it and session is there at a time, and what it *)
(* sends and is asked is in its own name) and FriendInv (a request whose   *)
(* opposite is granted or under way has crossed it).  All a layer needs of *)
(* a step is said once, by Handled for the handlers and by Moved for the   *)
(* clients; the steps are shown to be of these kinds, and the layers to be *)
(* kept by the kinds.                                                      *)
(***************************************************************************)
EXTENDS NetSession, TLAPS, SequenceTheorems

\* The PDUs of each kind.
LEMMA RequestFields ==
  ASSUME NEW pdu \in Requests
  PROVE  /\ pdu.type \in {"regist", "login"} => pdu.x \in Users
         /\ pdu.x \in Names
         /\ pdu.type \in {"add", "agree", "refuse", "delete", "chat"} => pdu.y \in Names
         /\ pdu.type \in {"add", "chat"} => pdu \in Answers
  BY DEF Requests, Answers, Names

LEMMA AnswerFields ==
  ASSUME NEW pdu \in Answers
  PROVE  /\ pdu.type = "friends" => pdu.x \in SUBSET Users
         /\ pdu.type \in {"add", "chat"} => pdu.x \in Names /\ pdu.y \in Names
  BY DEF Answers

\* Requests and answers as the code builds them.
LEMMA NewRequests ==
  ASSUME NEW x \in Names, NEW y \in Names
  PROVE  /\ Pdu("flush", x, NoName) \in Requests
         /\ \A t \in {"add", "agree", "refuse", "delete", "chat"} : Pdu(t, x, y) \in Requests
  BY DEF Pdu, Requests, Names

LEMMA NewAnswers ==
  /\ \A t \in {"box", "loginOk", "loginFailed", "refused", "added", "deleted"} :
       Pdu(t, NoName, NoName) \in Answers
  /\ \A S \in SUBSET Users : Pdu("friends", S, NoName) \in Answers
  BY DEF Pdu, Answers

\* One readyRead: the PDU taken is the first, the rest stays or is on its way.
LEMMA OneRead ==
  ASSUME NEW T, NEW s \in Seq(T), NEW t \in Seq(T), NEW k \in 1..Len(t)
  PROVE  LET data == s \o SubSeq(t, 1, k)
         IN Head(data) \in T /\ Tail(data) \in Seq(T) /\ SubSeq(t, k + 1, Len(t)) \in Seq(T)
<1> DEFINE data == s \o SubSeq(t, 1, k)
<1>1. SubSeq(t, 1, k) \in Seq(T) /\ Len(SubSeq(t, 1, k)) = k
  BY SubSeqProperties
<1>2. data \in Seq(T) /\ Len(data) = Len(s) + k
  BY <1>1, ConcatProperties
<1>3. data # <<>>
  BY <1>2
<1>4. Head(data) \in T /\ Tail(data) \in Seq(T)
  BY <1>2, <1>3, HeadTailProperties
<1>5. SubSeq(t, k + 1, Len(t)) \in Seq(T)
  <2>1. \A i \in (k + 1)..Len(t) : t[i] \in T
    BY ElementOfSeq
  <2> QED
    BY <2>1, SubSeqProperties
<1> QED
  BY <1>4, <1>5

LEMMA ReadsTyped ==
  ASSUME TypeOK, NEW c \in Clients, NEW pdu, Reads(c, pdu)
  PROVE  /\ pdu \in Requests /\ c \in sockets
         /\ unread' \in [Clients -> Seq(Requests)] /\ toServer' \in [Clients -> Seq(Requests)]
<1>1. unread[c] \in Seq(Requests) /\ toServer[c] \in Seq(Requests)
  BY DEF TypeOK
<1>2. PICK k \in 1..Len(toServer[c]) :
        LET data == unread[c] \o SubSeq(toServer[c], 1, k)
        IN /\ pdu = Head(data)
           /\ unread' = [unread EXCEPT ![c] = Tail(data)]
           /\ toServer' = [toServer EXCEPT ![c] = SubSeq(@, k + 1, Len(@))]
  BY DEF Reads
<1> DEFINE data == unread[c] \o SubSeq(toServer[c], 1, k)
<1>3. /\ Head(data) \in Requests /\ Tail(data) \in Seq(Requests)
      /\ SubSeq(toServer[c], k + 1, Len(toServer[c])) \in Seq(Requests)
  BY <1>1, OneRead
<1> QED
  BY <1>2, <1>3 DEF TypeOK, Reads

LEMMA GetsTyped ==
  ASSUME TypeOK, NEW c \in Clients, NEW pdu, Gets(c, pdu)
  PROVE  /\ pdu \in Answers
         /\ held' \in [Clients -> Seq(Answers)] /\ toClient' \in [Clients -> Seq(Answers)]
<1>1. held[c] \in Seq(Answers) /\ toClient[c] \in Seq(Answers)
  BY DEF TypeOK
<1>2. PICK k \in 1..Len(toClient[c]) :
        LET data == held[c] \o SubSeq(toClient[c], 1, k)
        IN /\ pdu = Head(data)
           /\ held' = [held EXCEPT ![c] = Tail(data)]
           /\ toClient' = [toClient EXCEPT ![c] = SubSeq(@, k + 1, Len(@))]
  BY DEF Gets
<1> DEFINE data == held[c] \o SubSeq(toClient[c], 1, k)
<1>3. /\ Head(data) \in Answers /\ Tail(data) \in Seq(Answers)
      /\ SubSeq(toClient[c], k + 1, Len(toClient[c])) \in Seq(Answers)
  BY <1>1, OneRead
<1> QED
  BY <1>2, <1>3 DEF TypeOK

\* write, resend and a client's write keep the queues typed.
LEMMA WrittenTyped ==
  ASSUME NEW out \in [Clients -> Seq(Answers)], NEW c \in Clients, NEW pdu \in Answers
  PROVE  Written(out, c, pdu) \in [Clients -> Seq(Answers)]
<1>1. Append(out[c], pdu) \in Seq(Answers)
  BY AppendProperties
<1> QED
  BY <1>1 DEF Written

LEMMA ResentTyped ==
  ASSUME TypeOK, NEW out \in [Clients -> Seq(Answers)], NEW u, NEW pdu \in Answers
  PROVE  Resent(out, u, pdu) \in [Clients -> Seq(Answers)]
<1>1. CASE \E c \in sockets : name[c] = u
  <2>1. PICK d \in Clients : d = CHOOSE c \in sockets : name[c] = u
    BY <1>1 DEF TypeOK
  <2> QED
    BY <1>1, <2>1, WrittenTyped DEF Resent
<1>2. CASE ~\E c \in sockets : name[c] = u
  BY <1>2 DEF Resent
<1> QED
  BY <1>1, <1>2

LEMMA SendsTyped ==
  ASSUME TypeOK, NEW c \in Clients, NEW pdu \in Requests, Sends(c, pdu)
  PROVE  toServer' \in [Clients -> Seq(Requests)]
<1>1. Append(toServer[c], pdu) \in Seq(Requests)
  BY AppendProperties DEF TypeOK
<1> QED
  BY <1>1 DEF Sends, TypeOK

-----------------------------------------------------------------------------
(* The server's steps.                                                     *)

\* A step that leaves the sockets, their names and the rows' online alone
\* keeps OneSession if it keeps the types.
LEMMA SessionsKept ==
  ASSUME OneSession, TypeOK', UNCHANGED <<sockets, name, online>>
  PROVE  OneSession'
  BY DEF OneSession

LEMMA RegistStep ==
  ASSUME OneSession, NEW c \in Clients, HandleRegist(c)
  PROVE  OneSession'
<1>0. TypeOK
  BY DEF OneSession
<1>1. PICK pdu : pdu \in Next1(c) /\ pdu.type = "regist" /\ Reads(c, pdu)
                 /\ usrInfo' = usrInfo \cup {pdu.x}
                 /\ toClient' = Written(toClient, c, Pdu("box", NoName, NoName))
                 /\ UNCHANGED <<online, friendInfo, name, history>>
  BY DEF HandleRegist
<1>2. /\ pdu \in Requests /\ unread' \in [Clients -> Seq(Requests)]
      /\ toServer' \in [Clients -> Seq(Requests)]
  BY <1>0, <1>1, ReadsTyped
<1>3. toClient' \in [Clients -> Seq(Answers)]
  BY <1>0, <1>1, NewAnswers, WrittenTyped DEF TypeOK
<1>4. pdu.x \in Users
  BY <1>1, <1>2, RequestFields
<1>5. TypeOK'
  BY <1>0, <1>1, <1>2, <1>3, <1>4 DEF TypeOK, Reads, clientVars, history
<1> QED
  BY <1>1, <1>5, SessionsKept DEF Reads

\* The name was offline, so no socket has it.
LEMMA LoginStep ==
  ASSUME OneSession, NEW c \in Clients, HandleLogin(c)
  PROVE  OneSession'
<1>0. TypeOK
  BY DEF OneSession
<1>1. PICK pdu : /\ pdu \in Next1(c) /\ pdu.type = "login" /\ Reads(c, pdu)
                 /\ IF MayLogin(pdu.x, pdu.y)
                    THEN /\ online' = online \cup {pdu.x}
                         /\ name' = [name EXCEPT ![c] = pdu.x]
                         /\ toClient' = Written(toClient, c, Pdu("loginOk", NoName, NoName))
                    ELSE /\ toClient' = Written(toClient, c, Pdu("loginFailed", NoName, NoName))
                         /\ UNCHANGED <<online, name>>
                 /\ UNCHANGED <<usrInfo, friendInfo, history>>
  BY DEF HandleLogin
<1>2. /\ pdu \in Requests /\ unread' \in [Clients -> Seq(Requests)] /\ c \in sockets
      /\ toServer' \in [Clients -> Seq(Requests)]
  BY <1>0, <1>1, ReadsTyped
<1>3. toClient' \in [Clients -> Seq(Answers)]
  <2> DEFINE yes == Pdu("loginOk", NoName, NoName)
             no == Pdu("loginFailed", NoName, NoName)
  <2>1. yes \in Answers /\ no \in Answers
    BY NewAnswers
  <2>2. toClient \in [Clients -> Seq(Answers)]
    BY <1>0 DEF TypeOK
  <2>3. /\ Written(toClient, c, yes) \in [Clients -> Seq(Answers)]
        /\ Written(toClient, c, no) \in [Clients -> Seq(Answers)]
    BY <2>1, <2>2, WrittenTyped
  <2> QED
    BY <1>1, <2>3
<1>4. pdu.x \in Users
  BY <1>1, <1>2, RequestFields
<1>5. CASE MayLogin(pdu.x, pdu.y)
  <2>1. pdu.x \in usrInfo /\ pdu.x \notin online
    BY <1>5 DEF MayLogin
  <2>2. online' = online \cup {pdu.x} /\ name' = [name EXCEPT ![c] = pdu.x]
    BY <1>1, <1>5
  <2>3. TypeOK'
    BY <1>0, <1>1, <1>2, <1>3, <1>4, <2>1, <2>2 DEF TypeOK, Reads, clientVars, history, Names
  <2>4. sockets' = sockets
    BY <1>1 DEF Reads
  <2>5. \A d \in Clients : name'[d] = IF d = c THEN pdu.x ELSE name[d]
    BY <1>0, <2>2 DEF TypeOK
  <2>6. pdu.x # NoName
    BY <1>4, NameAssumption
  <2>7. \A d \in sockets : name[d] # pdu.x
    BY <2>1, <2>6 DEF OneSession
  <2>8. \A d, e \in sockets' : name'[d] = name'[e] /\ name'[d] # NoName => d = e
    BY <1>0, <2>4, <2>5, <2>7 DEF OneSession, TypeOK
  <2>9. \A d \in sockets' : name'[d] # NoName => name'[d] \in online'
    BY <1>0, <2>2, <2>4, <2>5 DEF OneSession, TypeOK
  <2>10. \A d \in Clients \ sockets' : name'[d] = NoName
    BY <1>2, <2>4, <2>5 DEF OneSession
  <2> QED
    BY <2>3, <2>8, <2>9, <2>10 DEF OneSession
<1>6. CASE ~MayLogin(pdu.x, pdu.y)
  <2>1. UNCHANGED <<online, name>>
    BY <1>1, <1>6
  <2>2. TypeOK'
    BY <1>0, <1>1, <1>2, <1>3, <2>1 DEF TypeOK, Reads, clientVars, history
  <2> QED
    BY <1>1, <2>1, <2>2, SessionsKept DEF Reads
<1> QED
  BY <1>5, <1>6

\* A forwarding or an answer: only the queues change.
LEMMA AnswerStep ==
  ASSUME OneSession, NEW c \in Clients, NEW pdu, Reads(c, pdu),
         toClient' \in [Clients -> Seq(Answers)], UNCHANGED <<tables, name, hasty>>
  PROVE  OneSession'
<1>0. TypeOK
  BY DEF OneSession
<1>1. unread' \in [Clients -> Seq(Requests)] /\ toServer' \in [Clients -> Seq(Requests)]
  BY <1>0, ReadsTyped
<1>2. TypeOK'
  BY <1>0, <1>1 DEF TypeOK, Reads, clientVars, tables
<1> QED
  BY <1>2, SessionsKept DEF Reads, tables

LEMMA FriendsTyped ==
  ASSUME TypeOK, NEW out \in [Clients -> Seq(Answers)], NEW c \in Clients, NEW table, NEW x
  PROVE  Written(out, c, Pdu("friends", OnlineFriends(table, x), NoName))
           \in [Clients -> Seq(Answers)]
<1>1. OnlineFriends(table, x) \in SUBSET Users
  BY DEF TypeOK, OnlineFriends
<1> QED
  BY <1>1, NewAnswers, WrittenTyped

LEMMA AddFriendStep ==
  ASSUME OneSession, NEW c \in Clients, HandleAddFriend(c)
  PROVE  OneSession'
<1>0. TypeOK
  BY DEF OneSession
<1>1. PICK pdu : /\ pdu.type = "add" /\ Reads(c, pdu)
                 /\ \/ toClient' = Resent(toClient, pdu.x, pdu)
                    \/ toClient' = Written(toClient, c, Pdu("refused", NoName, NoName))
                 /\ UNCHANGED <<tables, name, hasty, consent>>
  BY DEF HandleAddFriend
<1>2. pdu \in Requests
  BY <1>0, <1>1, ReadsTyped
<1>3. pdu \in Answers
  BY <1>1, <1>2, RequestFields
<1>4. toClient' \in [Clients -> Seq(Answers)]
  <2>1. toClient \in [Clients -> Seq(Answers)]
    BY <1>0 DEF TypeOK
  <2>2. Resent(toClient, pdu.x, pdu) \in [Clients -> Seq(Answers)]
    BY <1>0, <1>3, <2>1, ResentTyped
  <2>3. Written(toClient, c, Pdu("refused", NoName, NoName)) \in [Clients -> Seq(Answers)]
    BY <2>1, NewAnswers, WrittenTyped
  <2> QED
    BY <1>1, <2>2, <2>3
<1> QED
  BY <1>1, <1>4, AnswerStep

LEMMA ChatStep ==
  ASSUME OneSession, NEW c \in Clients, HandleChat(c)
  PROVE  OneSession'
<1>0. TypeOK
  BY DEF OneSession
<1>1. PICK pdu : /\ pdu.type = "chat" /\ Reads(c, pdu)
                 /\ toClient' = Resent(toClient, pdu.x, pdu)
                 /\ UNCHANGED <<tables, name, history>>
  BY DEF HandleChat
<1>2. pdu \in Requests
  BY <1>0, <1>1, ReadsTyped
<1>3. pdu \in Answers
  BY <1>1, <1>2, RequestFields
<1>4. toClient' \in [Clients -> Seq(Answers)]
  BY <1>0, <1>1, <1>3, ResentTyped DEF TypeOK
<1> QED
  BY <1>1, <1>4, AnswerStep DEF history

LEMMA RefuseStep ==
  ASSUME OneSession, NEW c \in Clients, HandleRefuse(c)
  PROVE  OneSession'
<1>0. TypeOK
  BY DEF OneSession
<1> DEFINE told(pdu) == Resent(toClient, pdu.y, Pdu("refused", NoName, NoName))
<1>1. PICK pdu : /\ Reads(c, pdu)
                 /\ toClient' = Friends(told(pdu), c, pdu.x)
                 /\ UNCHANGED <<tables, name, history>>
  BY DEF HandleRefuse
<1>2. told(pdu) \in [Clients -> Seq(Answers)]
  BY <1>0, NewAnswers, ResentTyped DEF TypeOK
<1>3. toClient' \in [Clients -> Seq(Answers)]
  BY <1>0, <1>1, <1>2, FriendsTyped DEF Friends
<1> QED
  BY <1>1, <1>3, AnswerStep DEF history

LEMMA FlushStep ==
  ASSUME OneSession, NEW c \in Clients, HandleFlush(c)
  PROVE  OneSession'
<1>0. TypeOK
  BY DEF OneSession
<1>1. PICK pdu : /\ Reads(c, pdu)
                 /\ toClient' = Friends(toClient, c, pdu.x)
                 /\ UNCHANGED <<tables, name, history>>
  BY DEF HandleFlush
<1>2. toClient' \in [Clients -> Seq(Answers)]
  BY <1>0, <1>1, FriendsTyped DEF Friends, TypeOK
<1> QED
  BY <1>1, <1>2, AnswerStep DEF history

\* The pair goes into friendInfo only if both are registered.
LEMMA AgreeStep ==
  ASSUME OneSession, NEW c \in Clients, HandleAgree(c)
  PROVE  OneSession'
<1>0. TypeOK
  BY DEF OneSession
<1>1. PICK pdu :
        /\ Reads(c, pdu)
        /\ LET pair == <<pdu.x, pdu.y>>
               ok == pair \notin friendInfo /\ {pdu.x, pdu.y} \subseteq usrInfo
               told == IF ok THEN Resent(toClient, pdu.y, Pdu("added", NoName, NoName))
                       ELSE toClient
               refused == Resent(told, pdu.y, Pdu("refused", NoName, NoName))
           IN /\ friendInfo' = IF ok THEN friendInfo \cup {pair} ELSE friendInfo
              /\ toClient' = Written(refused, c,
                               Pdu("friends", OnlineFriends(friendInfo', pdu.x), NoName))
        /\ UNCHANGED <<usrInfo, online, name, history>>
  BY DEF HandleAgree
<1> DEFINE ok == <<pdu.x, pdu.y>> \notin friendInfo /\ {pdu.x, pdu.y} \subseteq usrInfo
           told == IF ok THEN Resent(toClient, pdu.y, Pdu("added", NoName, NoName))
                   ELSE toClient
           refused == Resent(told, pdu.y, Pdu("refused", NoName, NoName))
<1>2. told \in [Clients -> Seq(Answers)]
  BY <1>0, NewAnswers, ResentTyped DEF TypeOK
<1>3. refused \in [Clients -> Seq(Answers)]
  BY <1>0, <1>2, NewAnswers, ResentTyped
<1>4. toClient' \in [Clients -> Seq(Answers)]
  BY <1>0, <1>1, <1>3, FriendsTyped
<1>5. unread' \in [Clients -> Seq(Requests)] /\ toServer' \in [Clients -> Seq(Requests)]
  BY <1>0, <1>1, ReadsTyped
<1>6. friendInfo' \subseteq usrInfo' \X usrInfo'
  BY <1>0, <1>1 DEF TypeOK
<1>7. TypeOK'
  BY <1>0, <1>1, <1>4, <1>5, <1>6 DEF TypeOK, Reads, clientVars, history
<1> QED
  BY <1>1, <1>7, SessionsKept DEF Reads

LEMMA DeleteStep ==
  ASSUME OneSession, NEW c \in Clients, HandleDelete(c)
  PROVE  OneSession'
<1>0. TypeOK
  BY DEF OneSession
<1>1. PICK pdu : /\ Reads(c, pdu)
                 /\ friendInfo' = friendInfo \ {<<pdu.x, pdu.y>>, <<pdu.y, pdu.x>>}
                 /\ toClient' = Written(toClient, c, Pdu("deleted", NoName, NoName))
                 /\ UNCHANGED <<usrInfo, online, name, history>>
  BY DEF HandleDelete
<1>2. toClient' \in [Clients -> Seq(Answers)]
  BY <1>0, <1>1, NewAnswers, WrittenTyped DEF TypeOK
<1>3. unread' \in [Clients -> Seq(Requests)] /\ toServer' \in [Clients -> Seq(Requests)]
  BY <1>0, <1>1, ReadsTyped
<1>4. TypeOK'
  BY <1>0, <1>1, <1>2, <1>3 DEF TypeOK, Reads, clientVars, history
<1> QED
  BY <1>1, <1>4, SessionsKept DEF Reads

\* Only one socket had the name that goes offline.
LEMMA OfflineStep ==
  ASSUME OneSession, NEW c \in Clients, ClientOffline(c)
  PROVE  OneSession'
<1>0. TypeOK
  BY DEF OneSession
<1>1. /\ c \in sockets /\ online' = online \ {name[c]}
      /\ sockets' = sockets \ {c} /\ name' = [name EXCEPT ![c] = NoName]
  BY DEF ClientOffline, GoOffline
<1>2. <<>> \in Seq(Requests)
  BY EmptySeq
<1>3. TypeOK'
  BY <1>0, <1>1, <1>2 DEF TypeOK, ClientOffline, Names
<1>4. \A d \in Clients : name'[d] = IF d = c THEN NoName ELSE name[d]
  BY <1>0, <1>1 DEF TypeOK
<1>5. \A d \in sockets' : d \in sockets /\ d # c /\ name'[d] = name[d]
  BY <1>0, <1>1, <1>4 DEF TypeOK
<1>6. \A d \in sockets' : name'[d] # NoName => name'[d] \in online'
  BY <1>1, <1>5 DEF OneSession
<1>7. \A d, e \in sockets' : name'[d] = name'[e] /\ name'[d] # NoName => d = e
  BY <1>5 DEF OneSession
<1>8. \A d \in Clients \ sockets' : name'[d] = NoName
  BY <1>1, <1>4 DEF OneSession
<1> QED
  BY <1>3, <1>6, <1>7, <1>8 DEF OneSession

LEMMA CrashStep ==
  ASSUME OneSession, Crash
  PROVE  OneSession'
<1>1. <<>> \in Seq(Requests) /\ <<>> \in Seq(Answers)
  BY EmptySeq
<1>2. TypeOK'
  BY <1>1 DEF OneSession, TypeOK, Crash, tables, Names, Boxes
<1>3. sockets' = {} /\ \A d \in Clients : name'[d] = NoName
  BY DEF Crash
<1> QED
  BY <1>2, <1>3 DEF OneSession

-----------------------------------------------------------------------------
(* The client's steps: the sockets get no name from them.                  *)

LEMMA StartStep ==
  ASSUME OneSession, NEW c \in Clients, Start(c)
  PROVE  OneSession'
<1>1. link[c] = "off" /\ sockets' = sockets \cup {c} /\ UNCHANGED <<name, online>>
  BY DEF Start, tables
<1>2. TypeOK'
  BY DEF OneSession, TypeOK, Start, tables, history
<1>3. \A d \in Clients \ sockets : name[d] = NoName
  BY DEF OneSession
<1>4. \A d \in sockets' : name'[d] # NoName => d \in sockets
  BY <1>1, <1>3
<1> QED
  BY <1>1, <1>2, <1>3, <1>4 DEF OneSession

LEMMA QuitStep ==
  ASSUME OneSession, NEW c \in Clients, Quit(c)
  PROVE  OneSession'
<1>1. <<>> \in Seq(Answers)
  BY EmptySeq
<1>2. TypeOK'
  BY <1>1 DEF OneSession, TypeOK, Quit, tables, serverVars, history, Names, Boxes
<1> QED
  BY <1>2, SessionsKept DEF Quit, tables, serverVars

LEMMA ClickStep ==
  ASSUME OneSession, NEW c \in Clients, NEW where, NEW pdu \in Requests, Clicks(c, where, pdu),
         login' \in [Clients -> Names], hasty' \subseteq Clients
  PROVE  OneSession'
<1>1. toServer' \in [Clients -> Seq(Requests)]
  BY SendsTyped DEF OneSession, Clicks
<1>2. TypeOK'
  BY <1>1 DEF OneSession, TypeOK, Clicks, tables, serverVars
<1> QED
  BY <1>2, SessionsKept DEF Clicks, tables, serverVars

LEMMA ButtonStep ==
  ASSUME OneSession, NEW c \in Clients,
         \/ ClickLogin(c) \/ ClickLoginBlank(c) \/ ClickRegist(c) \/ ClickFlush(c)
         \/ ClickAdd(c) \/ ClickDelete(c) \/ ClickChat(c)
  PROVE  OneSession'
<1>0. TypeOK /\ login[c] \in Names
  BY DEF OneSession, TypeOK
<1>1. CASE ClickLogin(c)
  <2>1. PICK u \in Users, ok \in BOOLEAN :
          /\ Clicks(c, "login", Pdu("login", u, ok))
          /\ login' = [login EXCEPT ![c] = u]
          /\ hasty' = IF LoginPending(c) THEN hasty \cup {c} ELSE hasty
    BY <1>1 DEF ClickLogin
  <2>2. Pdu("login", u, ok) \in Requests
    BY DEF Pdu, Requests
  <2>3. login' \in [Clients -> Names] /\ hasty' \subseteq Clients
    BY <1>0, <2>1 DEF TypeOK, Names
  <2> QED
    BY <2>1, <2>2, <2>3, ClickStep
<1>2. CASE ClickRegist(c)
  <2>1. PICK u \in Users : Clicks(c, "login", Pdu("regist", u, NoName))
    BY <1>2 DEF ClickRegist
  <2>2. Pdu("regist", u, NoName) \in Requests
    BY DEF Pdu, Requests
  <2>3. login' \in [Clients -> Names] /\ hasty' \subseteq Clients
    BY <1>0, <1>2 DEF TypeOK, ClickRegist
  <2> QED
    BY <2>1, <2>2, <2>3, ClickStep
<1>3. CASE ClickFlush(c)
  <2>1. Clicks(c, "main", Pdu("flush", login[c], NoName))
    BY <1>3 DEF ClickFlush
  <2>2. Pdu("flush", login[c], NoName) \in Requests
    BY <1>0, NewRequests DEF Names
  <2>3. login' \in [Clients -> Names] /\ hasty' \subseteq Clients
    BY <1>0, <1>3 DEF TypeOK, ClickFlush
  <2> QED
    BY <2>1, <2>2, <2>3, ClickStep
<1>4. CASE ClickAdd(c)
  <2>1. PICK u \in usrInfo : Clicks(c, "main", Pdu("add", u, login[c]))
    BY <1>4 DEF ClickAdd
  <2>2. Pdu("add", u, login[c]) \in Requests
    BY <1>0, NewRequests DEF Names, TypeOK
  <2>3. login' \in [Clients -> Names] /\ hasty' \subseteq Clients
    BY <1>0, <1>4 DEF TypeOK, ClickAdd
  <2> QED
    BY <2>1, <2>2, <2>3, ClickStep
<1>5. CASE ClickDelete(c)
  <2>1. PICK u \in shown[c] : Clicks(c, "main", Pdu("delete", login[c], u))
    BY <1>5 DEF ClickDelete
  <2>2. Pdu("delete", login[c], u) \in Requests
    BY <1>0, NewRequests DEF Names, TypeOK
  <2>3. login' \in [Clients -> Names] /\ hasty' \subseteq Clients
    BY <1>0, <1>5 DEF TypeOK, ClickDelete
  <2> QED
    BY <2>1, <2>2, <2>3, ClickStep
<1>6. CASE ClickChat(c)
  <2>1. PICK u \in shown[c] : Clicks(c, "main", Pdu("chat", u, login[c]))
    BY <1>6 DEF ClickChat
  <2>2. Pdu("chat", u, login[c]) \in Requests
    BY <1>0, NewRequests DEF Names, TypeOK
  <2>3. login' \in [Clients -> Names] /\ hasty' \subseteq Clients
    BY <1>0, <1>6 DEF TypeOK, ClickChat
  <2> QED
    BY <2>1, <2>2, <2>3, ClickStep
<1>7. CASE ClickLoginBlank(c)
  <2>1. login' \in [Clients -> Names] /\ hasty' \subseteq Clients
    BY <1>0, <1>7 DEF TypeOK, ClickLoginBlank
  <2>2. box' \in [Clients -> Boxes]
    BY <1>0, <1>7 DEF TypeOK, ClickLoginBlank, Boxes
  <2>3. TypeOK'
    BY <1>0, <1>7, <2>1, <2>2 DEF TypeOK, ClickLoginBlank, tables, serverVars
  <2> QED
    BY <1>7, <2>3, SessionsKept DEF ClickLoginBlank, tables, serverVars
<1> QED
  BY <1>1, <1>2, <1>3, <1>4, <1>5, <1>6, <1>7

\* A PDU read by a client may open a window or a box, change the list, and be
\* followed by a request.
LEMMA GetStep ==
  ASSUME OneSession, NEW c \in Clients, NEW pdu, Gets(c, pdu),
         toServer' \in [Clients -> Seq(Requests)], window' \in [Clients -> {"login", "main"}],
         box' \in [Clients -> Boxes], shown' \in [Clients -> SUBSET Users]
  PROVE  OneSession'
<1>1. held' \in [Clients -> Seq(Answers)] /\ toClient' \in [Clients -> Seq(Answers)]
  BY GetsTyped DEF OneSession
<1>2. TypeOK'
  BY <1>1 DEF OneSession, TypeOK, Gets, tables, serverVars, history
<1> QED
  BY <1>2, SessionsKept DEF Gets, tables, serverVars

LEMMA AnswerReadStep ==
  ASSUME OneSession, NEW c \in Clients,
         \/ GetLoginOk(c) \/ GetBox(c) \/ GetAdd(c) \/ GetAdded(c) \/ GetNote(c) \/ GetFriends(c)
  PROVE  OneSession'
<1>0. TypeOK /\ login[c] \in Names
  BY DEF OneSession, TypeOK
<1>1. Pdu("flush", login[c], NoName) \in Requests
  BY <1>0, NewRequests DEF Names
<1>2. CASE GetLoginOk(c)
  <2>1. PICK pdu : /\ Gets(c, pdu) /\ window' = [window EXCEPT ![c] = "main"]
                   /\ Sends(c, Pdu("flush", login[c], NoName)) /\ UNCHANGED <<box, shown>>
    BY <1>2 DEF GetLoginOk
  <2>2. toServer' \in [Clients -> Seq(Requests)]
    BY <1>0, <1>1, <2>1, SendsTyped
  <2>3. /\ window' \in [Clients -> {"login", "main"}] /\ box' \in [Clients -> Boxes]
        /\ shown' \in [Clients -> SUBSET Users]
    BY <1>0, <2>1 DEF TypeOK
  <2> QED
    BY <2>1, <2>2, <2>3, GetStep
<1>3. CASE GetBox(c)
  <2>1. PICK pdu : /\ pdu.type \in {"box", "loginFailed", "deleted"} /\ Gets(c, pdu)
                   /\ box' = [box EXCEPT ![c] = <<pdu.type>>]
                   /\ UNCHANGED <<window, shown, toServer>>
    BY <1>3 DEF GetBox
  <2>2. <<pdu.type>> \in Boxes
    BY <2>1 DEF Boxes
  <2>3. /\ window' \in [Clients -> {"login", "main"}] /\ box' \in [Clients -> Boxes]
        /\ shown' \in [Clients -> SUBSET Users] /\ toServer' \in [Clients -> Seq(Requests)]
    BY <1>0, <2>1, <2>2 DEF TypeOK
  <2> QED
    BY <2>1, <2>3, GetStep
<1>4. CASE GetAdd(c)
  <2>1. PICK pdu : /\ pdu.type = "add" /\ Gets(c, pdu)
                   /\ box' = [box EXCEPT ![c] = <<"ask", pdu.x, pdu.y>>]
                   /\ UNCHANGED <<window, shown, toServer>>
    BY <1>4 DEF GetAdd
  <2>2. pdu \in Answers
    BY <1>0, <2>1, GetsTyped
  <2>3. pdu.x \in Names /\ pdu.y \in Names
    BY <2>1, <2>2, AnswerFields
  <2>4. <<"ask", pdu.x, pdu.y>> \in Boxes
    BY <2>3 DEF Boxes
  <2>5. /\ window' \in [Clients -> {"login", "main"}] /\ box' \in [Clients -> Boxes]
        /\ shown' \in [Clients -> SUBSET Users] /\ toServer' \in [Clients -> Seq(Requests)]
    BY <1>0, <2>1, <2>4 DEF TypeOK
  <2> QED
    BY <2>1, <2>5, GetStep
<1>5. CASE GetAdded(c)
  <2>1. PICK pdu : /\ Gets(c, pdu) /\ Sends(c, Pdu("flush", login[c], NoName))
                   /\ UNCHANGED <<box, window, shown>>
    BY <1>5 DEF GetAdded
  <2>2. toServer' \in [Clients -> Seq(Requests)]
    BY <1>0, <1>1, <2>1, SendsTyped
  <2>3. /\ window' \in [Clients -> {"login", "main"}] /\ box' \in [Clients -> Boxes]
        /\ shown' \in [Clients -> SUBSET Users]
    BY <1>0, <2>1 DEF TypeOK
  <2> QED
    BY <2>1, <2>2, <2>3, GetStep
<1>6. CASE GetNote(c)
  <2>1. PICK pdu : Gets(c, pdu) /\ UNCHANGED <<box, window, shown, toServer>>
    BY <1>6 DEF GetNote
  <2>2. /\ window' \in [Clients -> {"login", "main"}] /\ box' \in [Clients -> Boxes]
        /\ shown' \in [Clients -> SUBSET Users] /\ toServer' \in [Clients -> Seq(Requests)]
    BY <1>0, <2>1 DEF TypeOK
  <2> QED
    BY <2>1, <2>2, GetStep
<1>7. CASE GetFriends(c)
  <2>1. PICK pdu : /\ pdu.type = "friends" /\ Gets(c, pdu)
                   /\ shown' = [shown EXCEPT ![c] = pdu.x]
                   /\ UNCHANGED <<box, window, toServer>>
    BY <1>7 DEF GetFriends
  <2>2. pdu \in Answers
    BY <1>0, <2>1, GetsTyped
  <2>3. pdu.x \in SUBSET Users
    BY <2>1, <2>2, AnswerFields
  <2>4. /\ window' \in [Clients -> {"login", "main"}] /\ box' \in [Clients -> Boxes]
        /\ shown' \in [Clients -> SUBSET Users] /\ toServer' \in [Clients -> Seq(Requests)]
    BY <1>0, <2>1, <2>3 DEF TypeOK
  <2> QED
    BY <2>1, <2>4, GetStep
<1> QED
  BY <1>2, <1>3, <1>4, <1>5, <1>6, <1>7

LEMMA SilentStep ==
  ASSUME OneSession, NEW c \in Clients, ArriveSilently(c)
  PROVE  OneSession'
<1>0. TypeOK
  BY DEF OneSession
<1>1. held[c] \o toClient[c] \in Seq(Answers) /\ <<>> \in Seq(Answers)
  BY <1>0, ConcatProperties, EmptySeq DEF TypeOK
<1>2. TypeOK'
  BY <1>0, <1>1 DEF TypeOK, ArriveSilently, tables, serverVars, history
<1> QED
  BY <1>2, SessionsKept DEF ArriveSilently, tables, serverVars

\* The answer to a question repeats the names of the box.
LEMMA CloseStep ==
  ASSUME OneSession, NEW c \in Clients, CloseBox(c)
  PROVE  OneSession'
<1>0. TypeOK /\ login[c] \in Names /\ box[c] \in Boxes
  BY DEF OneSession, TypeOK
<1>1. toServer' \in [Clients -> Seq(Requests)]
  <2>1. CASE box[c][1] = "ask"
    <3>1. box[c][2] \in Names /\ box[c][3] \in Names
      BY <1>0, <2>1 DEF Boxes, NoBox, InputBox
    <3>2. \/ Sends(c, Pdu("agree", box[c][2], box[c][3]))
          \/ Sends(c, Pdu("refuse", box[c][2], box[c][3]))
      BY <2>1 DEF CloseBox
    <3>3. /\ Pdu("agree", box[c][2], box[c][3]) \in Requests
          /\ Pdu("refuse", box[c][2], box[c][3]) \in Requests
      BY <3>1, NewRequests
    <3> QED
      BY <1>0, <3>2, <3>3, SendsTyped
  <2>2. CASE box[c][1] = "deleted"
    <3>1. Sends(c, Pdu("flush", login[c], NoName))
      BY <2>2 DEF CloseBox
    <3>2. Pdu("flush", login[c], NoName) \in Requests
      BY <1>0, NewRequests DEF Names
    <3> QED
      BY <1>0, <3>1, <3>2, SendsTyped
  <2>3. CASE box[c][1] \notin {"ask", "deleted"}
    <3>1. toServer' = toServer
      BY <2>3 DEF CloseBox
    <3> QED
      BY <1>0, <3>1 DEF TypeOK
  <2> QED
    BY <2>1, <2>2, <2>3
<1>2. TypeOK'
  BY <1>0, <1>1 DEF TypeOK, CloseBox, tables, serverVars, Boxes
<1> QED
  BY <1>2, SessionsKept DEF CloseBox, tables, serverVars

-----------------------------------------------------------------------------
LEMMA InitSession == Init => OneSession
<1> SUFFICES ASSUME Init PROVE OneSession
  OBVIOUS
<1>1. <<>> \in Seq(Requests) /\ <<>> \in Seq(Answers)
  BY EmptySeq
<1>2. TypeOK
  BY <1>1 DEF Init, TypeOK, Names, Boxes
<1> QED
  BY <1>2 DEF Init, OneSession

LEMMA NextSession == OneSession /\ [Next]_vars => OneSession'
<1> SUFFICES ASSUME OneSession, [Next]_vars PROVE OneSession'
  OBVIOUS
<1>1. CASE Crash
  BY <1>1, CrashStep
<1>2. ASSUME NEW c \in Clients, Server(c) PROVE OneSession'
  BY <1>2, RegistStep, LoginStep, AddFriendStep, AgreeStep, RefuseStep, FlushStep, DeleteStep,
     ChatStep, OfflineStep DEF Server
<1>3. ASSUME NEW c \in Clients, User(c) PROVE OneSession'
  BY <1>3, StartStep, QuitStep, ButtonStep, CloseStep DEF User
<1>4. ASSUME NEW c \in Clients, Client(c) PROVE OneSession'
  BY <1>4, AnswerReadStep, SilentStep DEF Client
<1>5. CASE UNCHANGED vars
  BY <1>5 DEF OneSession, TypeOK, vars, tables, serverVars, clientVars, history
<1> QED
  BY <1>1, <1>2, <1>3, <1>4, <1>5 DEF Next

\* Whatever the users do and whenever the server restarts, a name has one
\* session at most, and a session's user is online in the database
\* (MyTcpSocket::recvMsg's LOGIN_REQUEST over OpeDB::handleLogin, clientOffline
\* over handleOffline); and every table and queue keeps its type.
THEOREM OneSessionInvariance == Spec => []OneSession
  BY InitSession, NextSession, PTL DEF Spec

-----------------------------------------------------------------------------
(* The queues between a client and its socket.                             *)

\* What is between a client and its socket, in either direction.
Up(c) == unread[c] \o toServer[c]
Down(c) == held[c] \o toClient[c]

LEMMA ElementsConcat ==
  ASSUME NEW T, NEW s \in Seq(T), NEW t \in Seq(T)
  PROVE  Elements(s \o t) = Elements(s) \cup Elements(t)
<1> DEFINE st == s \o t
<1>1. /\ st \in Seq(T) /\ Len(st) = Len(s) + Len(t)
      /\ \A i \in 1..Len(s) + Len(t) : st[i] = IF i <= Len(s) THEN s[i] ELSE t[i - Len(s)]
  BY ConcatProperties
<1>2. DOMAIN s = 1..Len(s) /\ DOMAIN t = 1..Len(t) /\ DOMAIN st = 1..Len(s) + Len(t)
  BY <1>1, LenProperties
<1>3. Len(s) \in Nat /\ Len(t) \in Nat
  BY LenProperties
<1> HIDE DEF st
<1>4. \A i \in 1..Len(s) : i \in DOMAIN st /\ st[i] = s[i]
  BY <1>1, <1>2, <1>3
<1>5. \A i \in 1..Len(t) : i + Len(s) \in DOMAIN st /\ st[i + Len(s)] = t[i]
  BY <1>1, <1>2, <1>3
<1>6. ASSUME NEW i \in DOMAIN st PROVE st[i] \in Elements(s) \cup Elements(t)
  <2>1. CASE i <= Len(s)
    BY <1>1, <1>2, <1>3, <2>1 DEF Elements
  <2>2. CASE ~(i <= Len(s))
    <3>1. st[i] = t[i - Len(s)] /\ i - Len(s) \in DOMAIN t
      BY <1>1, <1>2, <1>3, <2>2
    <3> QED
      BY <3>1 DEF Elements
  <2> QED
    BY <2>1, <2>2
<1>7. Elements(s) \subseteq Elements(st) /\ Elements(t) \subseteq Elements(st)
  BY <1>2, <1>4, <1>5 DEF Elements
<1>8. Elements(st) \subseteq Elements(s) \cup Elements(t)
  BY <1>6 DEF Elements
<1>9. Elements(st) = Elements(s) \cup Elements(t)
  BY <1>7, <1>8
<1> QED
  BY <1>9 DEF st

LEMMA ElementsAppend ==
  ASSUME NEW T, NEW s \in Seq(T), NEW e \in T
  PROVE  Elements(Append(s, e)) = Elements(s) \cup {e}
<1> DEFINE se == Append(s, e)
<1>1. /\ se \in Seq(T) /\ Len(se) = Len(s) + 1 /\ se[Len(s) + 1] = e
      /\ \A i \in 1..Len(s) : se[i] = s[i]
  BY AppendProperties
<1>2. DOMAIN s = 1..Len(s) /\ DOMAIN se = 1..Len(s) + 1 /\ Len(s) \in Nat
  BY <1>1, LenProperties
<1> HIDE DEF se
<1>3. Elements(se) = Elements(s) \cup {e}
  BY <1>1, <1>2 DEF Elements
<1> QED
  BY <1>3 DEF se

LEMMA ElementsEmpty == Elements(<<>>) = {}
  BY DEF Elements

LEMMA HeadTailConcat ==
  ASSUME NEW T, NEW s \in Seq(T), NEW t \in Seq(T), s # <<>>
  PROVE  /\ s \o t \in Seq(T) /\ s \o t # <<>> /\ Head(s \o t) = Head(s)
         /\ Tail(s \o t) = Tail(s) \o t
<1> DEFINE st == s \o t
           left == Tail(st)
           rest == Tail(s)
           right == rest \o t
<1>1. PICK m \in Nat, n \in Nat : m = Len(s) /\ n = Len(t)
  BY LenProperties
<1>2. m > 0
  BY <1>1, EmptySeq
<1>3. /\ st \in Seq(T) /\ Len(st) = m + n
      /\ \A i \in 1..(m + n) : st[i] = IF i <= m THEN s[i] ELSE t[i - m]
  BY <1>1, ConcatProperties
<1> HIDE DEF st
<1>4. st # <<>> /\ Head(st) = Head(s)
  BY <1>1, <1>2, <1>3
<1>5. /\ left \in Seq(T) /\ Len(left) = m + n - 1
      /\ \A i \in 1..(m + n - 1) : left[i] = st[i + 1]
  BY <1>3, <1>4, HeadTailProperties
<1>6. /\ rest \in Seq(T) /\ Len(rest) = m - 1 /\ \A i \in 1..(m - 1) : rest[i] = s[i + 1]
  BY <1>1, HeadTailProperties
<1> HIDE DEF left, rest
<1>7. /\ right \in Seq(T) /\ Len(right) = (m - 1) + n
      /\ \A i \in 1..((m - 1) + n) : right[i] = IF i <= m - 1 THEN rest[i] ELSE t[i - (m - 1)]
  <2>1. Len(rest) = m - 1 /\ rest \in Seq(T)
    BY <1>6
  <2>2. /\ right \in Seq(T) /\ Len(right) = Len(rest) + Len(t)
        /\ \A i \in 1..(Len(rest) + Len(t)) :
             right[i] = IF i <= Len(rest) THEN rest[i] ELSE t[i - Len(rest)]
    BY <2>1, ConcatProperties
  <2> HIDE DEF right
  <2>3. Len(rest) = m - 1 /\ Len(t) = n
    BY <1>1, <2>1
  <2> QED
    BY <2>2, <2>3
<1> HIDE DEF right
<1>8. Len(left) = m + n - 1 /\ Len(right) = m + n - 1
  <2>1. Len(left) = m + n - 1
    BY <1>5
  <2>2. Len(right) = (m - 1) + n
    BY <1>7
  <2> QED
    BY <2>1, <2>2
<1>9. ASSUME NEW i \in 1..Len(left) PROVE left[i] = right[i]
  <2>1. i \in 1..(m + n - 1) /\ left[i] = st[i + 1] /\ i + 1 \in 1..(m + n)
    BY <1>5
  <2>2. i \in 1..((m - 1) + n)
    BY <2>1
  <2>3. CASE i <= m - 1
    <3>1. st[i + 1] = s[i + 1]
      BY <1>3, <2>1, <2>3
    <3>2. right[i] = rest[i] /\ rest[i] = s[i + 1]
      BY <1>6, <1>7, <2>2, <2>3
    <3> QED
      BY <2>1, <3>1, <3>2
  <2>4. CASE ~(i <= m - 1)
    <3>1. st[i + 1] = t[(i + 1) - m]
      BY <1>3, <2>1, <2>4
    <3>2. right[i] = t[i - (m - 1)] /\ i - (m - 1) = (i + 1) - m
      BY <1>7, <2>2, <2>4
    <3> QED
      BY <2>1, <3>1, <3>2
  <2> QED
    BY <2>3, <2>4
<1>10. left = right
  BY <1>5, <1>7, <1>8, <1>9, SeqEqual
<1> QED
  BY <1>3, <1>4, <1>10 DEF left, right, rest, st

\* A read takes the first of what is between the two ends, however much of it
\* has arrived.
LEMMA ReadTakesFirst ==
  ASSUME NEW T, NEW s \in Seq(T), NEW t \in Seq(T), NEW k \in 1..Len(t)
  PROVE  LET data == s \o SubSeq(t, 1, k)
         IN /\ s \o t \in Seq(T) /\ s \o t # <<>> /\ Head(data) = Head(s \o t)
            /\ Tail(data) \o SubSeq(t, k + 1, Len(t)) = Tail(s \o t)
<1> DEFINE a == SubSeq(t, 1, k)
           b == SubSeq(t, k + 1, Len(t))
           data == s \o a
<1>0. Len(t) \in Nat /\ \A i \in 1..Len(t) : t[i] \in T
  BY LenProperties, ElementOfSeq
<1>1. a \in Seq(T) /\ Len(a) = k
  BY <1>0, SubSeqProperties
<1>2. b \in Seq(T)
  <2>1. \A i \in (k + 1)..Len(t) : t[i] \in T
    BY <1>0
  <2> QED
    BY <1>0, <2>1, SubSeqProperties
<1>3. a \o b = t
  <2>1. a \o b = SubSeq(t, 1, Len(t))
    BY <1>0, ConcatAdjacentSubSeq
  <2>2. SubSeq(t, 1, Len(t)) = t
    BY SubSeqFull
  <2> QED
    BY <2>1, <2>2
<1> HIDE DEF a, b
<1>4. data \in Seq(T) /\ Len(data) = Len(s) + k
  BY <1>1, ConcatProperties
<1>5. data # <<>>
  <2>1. Len(data) > 0
    BY <1>0, <1>4, LenProperties
  <2> QED
    BY <2>1
<1>6. s \o t = data \o b
  <2>1. (s \o a) \o b = s \o (a \o b)
    BY <1>1, <1>2, ConcatAssociative
  <2> QED
    BY <1>3, <2>1
<1> HIDE DEF data
<1>7. /\ data \o b \in Seq(T) /\ data \o b # <<>> /\ Head(data \o b) = Head(data)
      /\ Tail(data \o b) = Tail(data) \o b
  BY <1>2, <1>4, <1>5, HeadTailConcat
<1> QED
  BY <1>6, <1>7 DEF data, a, b

LEMMA QueuesTyped ==
  ASSUME TypeOK, NEW c \in Clients
  PROVE  /\ unread[c] \in Seq(Requests) /\ toServer[c] \in Seq(Requests)
         /\ held[c] \in Seq(Answers) /\ toClient[c] \in Seq(Answers)
         /\ Up(c) \in Seq(Requests) /\ Down(c) \in Seq(Answers)
<1>1. /\ unread[c] \in Seq(Requests) /\ toServer[c] \in Seq(Requests)
      /\ held[c] \in Seq(Answers) /\ toClient[c] \in Seq(Answers)
  BY DEF TypeOK
<1>2. Up(c) \in Seq(Requests) /\ Down(c) \in Seq(Answers)
  BY <1>1, ConcatProperties DEF Up, Down
<1> QED
  BY <1>1, <1>2

\* A handler's PDU is the first of those under way from its client.
LEMMA ReadsFirst ==
  ASSUME TypeOK, NEW c \in Clients, NEW pdu, Reads(c, pdu)
  PROVE  /\ Up(c) # <<>> /\ pdu = Head(Up(c)) /\ Up(c)' = Tail(Up(c))
         /\ \A d \in Clients : d # c => Up(d)' = Up(d)
<1>1. unread[c] \in Seq(Requests) /\ toServer[c] \in Seq(Requests)
  BY QueuesTyped
<1>2. PICK k \in 1..Len(toServer[c]) :
        LET data == unread[c] \o SubSeq(toServer[c], 1, k)
        IN /\ pdu = Head(data)
           /\ unread' = [unread EXCEPT ![c] = Tail(data)]
           /\ toServer' = [toServer EXCEPT ![c] = SubSeq(@, k + 1, Len(@))]
  BY DEF Reads
<1> DEFINE data == unread[c] \o SubSeq(toServer[c], 1, k)
           left == SubSeq(toServer[c], k + 1, Len(toServer[c]))
<1>3. /\ Up(c) # <<>> /\ Head(data) = Head(Up(c))
      /\ Tail(data) \o left = Tail(Up(c))
  BY <1>1, ReadTakesFirst DEF Up
<1>4. /\ unread'[c] = Tail(data) /\ toServer'[c] = left
      /\ \A d \in Clients : d # c => unread'[d] = unread[d] /\ toServer'[d] = toServer[d]
  BY <1>2 DEF TypeOK
<1> HIDE DEF data, left
<1>5. Up(c)' = Tail(Up(c))
  BY <1>3, <1>4 DEF Up
<1>6. \A d \in Clients : d # c => Up(d)' = Up(d)
  BY <1>4 DEF Up
<1>7. pdu = Head(Up(c))
  BY <1>2, <1>3 DEF data
<1> QED
  BY <1>3, <1>5, <1>6, <1>7

LEMMA GetsFirst ==
  ASSUME TypeOK, NEW c \in Clients, NEW pdu, Gets(c, pdu)
  PROVE  /\ Down(c) # <<>> /\ pdu = Head(Down(c)) /\ Down(c)' = Tail(Down(c))
         /\ \A d \in Clients : d # c => Down(d)' = Down(d)
<1>1. held[c] \in Seq(Answers) /\ toClient[c] \in Seq(Answers)
  BY QueuesTyped
<1>2. PICK k \in 1..Len(toClient[c]) :
        LET data == held[c] \o SubSeq(toClient[c], 1, k)
        IN /\ pdu = Head(data)
           /\ held' = [held EXCEPT ![c] = Tail(data)]
           /\ toClient' = [toClient EXCEPT ![c] = SubSeq(@, k + 1, Len(@))]
  BY DEF Gets
<1> DEFINE data == held[c] \o SubSeq(toClient[c], 1, k)
           left == SubSeq(toClient[c], k + 1, Len(toClient[c]))
<1>3. /\ Down(c) # <<>> /\ Head(data) = Head(Down(c))
      /\ Tail(data) \o left = Tail(Down(c))
  BY <1>1, ReadTakesFirst DEF Down
<1>4. /\ held'[c] = Tail(data) /\ toClient'[c] = left
      /\ \A d \in Clients : d # c => held'[d] = held[d] /\ toClient'[d] = toClient[d]
  BY <1>2 DEF TypeOK
<1> HIDE DEF data, left
<1>5. Down(c)' = Tail(Down(c))
  BY <1>3, <1>4 DEF Down
<1>6. \A d \in Clients : d # c => Down(d)' = Down(d)
  BY <1>4 DEF Down
<1>7. pdu = Head(Down(c))
  BY <1>2, <1>3 DEF data
<1> QED
  BY <1>3, <1>5, <1>6, <1>7

\* What taking the first and appending do to the members of a queue.
LEMMA TailMembers ==
  ASSUME NEW T, NEW s \in Seq(T), s # <<>>
  PROVE  /\ 1 \in DOMAIN s /\ Head(s) = s[1] /\ Head(s) \in Elements(s)
         /\ \A i \in DOMAIN Tail(s) : i \in Nat \ {0} /\ i + 1 \in DOMAIN s /\ Tail(s)[i] = s[i + 1]
         /\ Elements(s) = Elements(Tail(s)) \cup {Head(s)}
<1> DEFINE u == Tail(s)
<1>1. /\ u \in Seq(T) /\ Len(u) = Len(s) - 1
      /\ \A i \in 1..Len(u) : u[i] = s[i + 1]
  BY HeadTailProperties
<1>2. DOMAIN s = 1..Len(s) /\ DOMAIN u = 1..(Len(s) - 1) /\ Len(s) \in Nat \ {0}
  BY <1>1, LenProperties, EmptySeq
<1>3. Head(s) = s[1]
  OBVIOUS
<1> HIDE DEF u
<1>4. \A i \in DOMAIN u : i \in Nat \ {0} /\ i + 1 \in DOMAIN s /\ u[i] = s[i + 1]
  BY <1>1, <1>2
<1>5. 1 \in DOMAIN s
  BY <1>2
<1>6. Elements(u) \subseteq Elements(s) /\ s[1] \in Elements(s)
  BY <1>4, <1>5 DEF Elements
<1>7. ASSUME NEW i \in DOMAIN s PROVE s[i] = s[1] \/ s[i] \in Elements(u)
  <2>1. i = 1 \/ (i - 1 \in 1..(Len(s) - 1) /\ (i - 1) + 1 = i)
    BY <1>2
  <2>2. i = 1 \/ (i - 1 \in DOMAIN u /\ u[i - 1] = s[i])
    BY <1>1, <1>2, <2>1
  <2> QED
    BY <2>2 DEF Elements
<1>8. Elements(s) \subseteq Elements(u) \cup {s[1]}
  BY <1>7 DEF Elements
<1> QED
  BY <1>3, <1>4, <1>5, <1>6, <1>8 DEF u

LEMMA AppendMembers ==
  ASSUME NEW T, NEW s \in Seq(T), NEW e \in T
  PROVE  \A i \in DOMAIN Append(s, e) :
           \/ i \in DOMAIN s /\ Append(s, e)[i] = s[i]
           \/ i = Len(s) + 1 /\ Append(s, e)[i] = e
<1> DEFINE u == Append(s, e)
<1>1. /\ u \in Seq(T) /\ Len(u) = Len(s) + 1 /\ u[Len(s) + 1] = e
      /\ \A i \in 1..Len(s) : u[i] = s[i]
  BY AppendProperties
<1>2. DOMAIN s = 1..Len(s) /\ DOMAIN u = 1..(Len(s) + 1) /\ Len(s) \in Nat
  BY <1>1, LenProperties
<1> HIDE DEF u
<1>3. \A i \in DOMAIN u : (i \in DOMAIN s /\ u[i] = s[i]) \/ (i = Len(s) + 1 /\ u[i] = e)
  BY <1>1, <1>2
<1> QED
  BY <1>3 DEF u

LEMMA SendsLast ==
  ASSUME TypeOK, NEW c \in Clients, NEW pdu \in Requests, Sends(c, pdu), unread' = unread
  PROVE  /\ Up(c)' = Append(Up(c), pdu)
         /\ \A d \in Clients : d # c => Up(d)' = Up(d)
<1>1. unread[c] \in Seq(Requests) /\ toServer[c] \in Seq(Requests)
  BY QueuesTyped
<1>2. /\ toServer'[c] = Append(toServer[c], pdu)
      /\ \A d \in Clients : d # c => toServer'[d] = toServer[d]
  BY DEF Sends, TypeOK
<1>3. /\ Append(toServer[c], pdu) = toServer[c] \o <<pdu>>
      /\ Append(unread[c] \o toServer[c], pdu) = (unread[c] \o toServer[c]) \o <<pdu>>
  BY <1>1, ConcatProperties, AppendIsConcat
<1>4. unread[c] \o (toServer[c] \o <<pdu>>) = (unread[c] \o toServer[c]) \o <<pdu>>
  <2>1. <<pdu>> \in Seq(Requests)
    <3>1. <<>> \in Seq(Requests)
      BY EmptySeq
    <3>2. Append(<<>>, pdu) \in Seq(Requests)
      BY <3>1, AppendProperties
    <3> QED
      BY <3>2
  <2> DEFINE s == unread[c]
             t == toServer[c]
             u == <<pdu>>
  <2>2. s \in Seq(Requests) /\ t \in Seq(Requests) /\ u \in Seq(Requests)
    BY <1>1, <2>1
  <2> HIDE DEF s, t, u
  <2>3. (s \o t) \o u = s \o (t \o u)
    BY <2>2, ConcatAssociative
  <2> QED
    BY <2>3 DEF s, t, u
<1> QED
  BY <1>2, <1>3, <1>4 DEF Up

-----------------------------------------------------------------------------
(* What has been written to a client.                                      *)

Got(out, d) == Elements(held[d] \o out[d])

LEMMA WrittenGot ==
  ASSUME TypeOK, NEW out \in [Clients -> Seq(Answers)], NEW c \in Clients, NEW pdu \in Answers,
         NEW d \in Clients
  PROVE  Got(Written(out, c, pdu), d)
           = Got(out, d) \cup (IF d = c /\ link[c] = "on" THEN {pdu} ELSE {})
<1>1. held[d] \in Seq(Answers) /\ out[d] \in Seq(Answers)
  BY QueuesTyped
<1>2. CASE d = c /\ link[c] = "on"
  <2>1. Written(out, c, pdu)[d] = Append(out[d], pdu)
    BY <1>2 DEF Written
  <2>2. Append(out[d], pdu) \in Seq(Answers)
    BY <1>1, AppendProperties
  <2>3. Elements(held[d] \o Append(out[d], pdu)) = Elements(held[d]) \cup Elements(Append(out[d], pdu))
    BY <1>1, <2>2, ElementsConcat
  <2>4. Elements(Append(out[d], pdu)) = Elements(out[d]) \cup {pdu}
    BY <1>1, ElementsAppend
  <2>5. Elements(held[d] \o out[d]) = Elements(held[d]) \cup Elements(out[d])
    BY <1>1, ElementsConcat
  <2> QED
    BY <1>2, <2>1, <2>3, <2>4, <2>5 DEF Got
<1>3. CASE ~(d = c /\ link[c] = "on")
  <2>1. Written(out, c, pdu)[d] = out[d]
    BY <1>3 DEF Written
  <2> QED
    BY <1>3, <2>1 DEF Got
<1> QED
  BY <1>2, <1>3

LEMMA ResentGot ==
  ASSUME TypeOK, NEW out \in [Clients -> Seq(Answers)], NEW u, NEW pdu \in Answers,
         NEW d \in Clients
  PROVE  \/ Got(Resent(out, u, pdu), d) = Got(out, d)
         \/ /\ Got(Resent(out, u, pdu), d) = Got(out, d) \cup {pdu}
            /\ name[d] = u /\ link[d] = "on"
<1>1. CASE \E e \in sockets : name[e] = u
  <2> DEFINE e == CHOOSE f \in sockets : name[f] = u
  <2>1. e \in Clients /\ name[e] = u
    BY <1>1 DEF TypeOK
  <2>2. Resent(out, u, pdu) = Written(out, e, pdu)
    BY <1>1 DEF Resent
  <2> HIDE DEF e
  <2>3. Got(Written(out, e, pdu), d)
          = Got(out, d) \cup (IF d = e /\ link[e] = "on" THEN {pdu} ELSE {})
    BY <2>1, WrittenGot
  <2> QED
    BY <2>1, <2>2, <2>3
<1>2. CASE ~\E e \in sockets : name[e] = u
  BY <1>2 DEF Resent
<1> QED
  BY <1>1, <1>2

-----------------------------------------------------------------------------
(* What a handler does, as far as sessions and friends are concerned.      *)

\* An answer that a handler of c's pdu may add to those under way to d.
NewAnswer(c, pdu, d, a) ==
  /\ link[d] = "on"
  /\ a.type = "loginOk" => d = c /\ pdu.type = "login" /\ name' = [name EXCEPT ![c] = pdu.x]
  /\ a.type = "add" =>
       /\ a = pdu /\ pdu.x = name[d] /\ pdu.x \in online
       /\ <<pdu.x, pdu.y>> \notin friendInfo /\ <<pdu.y, pdu.x>> \notin friendInfo
       /\ Asked(pdu.y, pdu.x) => {pdu.x, pdu.y} \in crossed'

Handled(c, pdu) ==
  /\ Reads(c, pdu)
  /\ \A d \in Clients :
       /\ Elements(Down(d)) \subseteq Elements(Down(d)')
       /\ \A a \in Elements(Down(d)') \ Elements(Down(d)) : NewAnswer(c, pdu, d, a)
  /\ \/ name' = name
     \/ /\ pdu.type = "login" /\ name' = [name EXCEPT ![c] = pdu.x]
        /\ link[c] = "on" => \E a \in Elements(Down(c)') : a.type = "loginOk"
  /\ friendInfo' \subseteq friendInfo \cup (IF pdu.type = "agree" THEN {<<pdu.x, pdu.y>>} ELSE {})
  /\ UNCHANGED <<hasty, consent>> /\ crossed \subseteq crossed'

LEMMA GotIsR ==
  ASSUME NEW c, NEW pdu, Reads(c, pdu), NEW d \in Clients
  PROVE  Elements(Down(d)) = Got(toClient, d) /\ Elements(Down(d)') = Got(toClient', d)
  BY DEF Reads, clientVars, Got, Down

\* One answer, of a kind that only shows something, is written to c.
LEMMA PlainAnswer ==
  ASSUME TypeOK, NEW c \in Clients, NEW pdu, Reads(c, pdu), NEW a \in Answers,
         a.type \notin {"loginOk", "add"},
         toClient' = Written(toClient, c, a), UNCHANGED <<name, hasty, consent, crossed>>,
         friendInfo' \subseteq friendInfo
  PROVE  Handled(c, pdu)
<1>1. toClient \in [Clients -> Seq(Answers)]
  BY DEF TypeOK
<1>2. ASSUME NEW d \in Clients
      PROVE  Elements(Down(d)') = Elements(Down(d)) \cup (IF d = c /\ link[c] = "on" THEN {a} ELSE {})
  BY <1>1, GotIsR, WrittenGot
<1> QED
  BY <1>2 DEF Handled, NewAnswer

\* out is followed by answers that only show something.
Shows(out, out2) ==
  /\ out2 \in [Clients -> Seq(Answers)]
  /\ \A d \in Clients :
       /\ Got(out, d) \subseteq Got(out2, d)
       /\ \A a \in Got(out2, d) \ Got(out, d) : link[d] = "on" /\ a.type \notin {"loginOk", "add"}

LEMMA ResentShows ==
  ASSUME TypeOK, NEW out \in [Clients -> Seq(Answers)], NEW u, NEW a \in Answers,
         a.type \notin {"loginOk", "add"}
  PROVE  Shows(out, Resent(out, u, a))
<1>1. Resent(out, u, a) \in [Clients -> Seq(Answers)]
  BY ResentTyped
<1>2. ASSUME NEW d \in Clients
      PROVE  \/ Got(Resent(out, u, a), d) = Got(out, d)
             \/ Got(Resent(out, u, a), d) = Got(out, d) \cup {a} /\ link[d] = "on"
  BY ResentGot
<1> QED
  BY <1>1, <1>2 DEF Shows

LEMMA FriendsShows ==
  ASSUME TypeOK, NEW out \in [Clients -> Seq(Answers)], NEW c \in Clients, NEW S \in SUBSET Users
  PROVE  Shows(out, Written(out, c, Pdu("friends", S, NoName)))
<1> DEFINE a == Pdu("friends", S, NoName)
<1>1. a \in Answers /\ a.type = "friends"
  BY NewAnswers DEF Pdu
<1> HIDE DEF a
<1>2. Written(out, c, a) \in [Clients -> Seq(Answers)]
  BY <1>1, WrittenTyped
<1>3. ASSUME NEW d \in Clients
      PROVE  Got(Written(out, c, a), d)
               = Got(out, d) \cup (IF d = c /\ link[c] = "on" THEN {a} ELSE {})
  BY <1>1, WrittenGot
<1>4. Shows(out, Written(out, c, a))
  BY <1>1, <1>2, <1>3 DEF Shows
<1> QED
  BY <1>4 DEF a

LEMMA ShowsTwice ==
  ASSUME NEW o1, NEW o2, NEW o3, Shows(o1, o2), Shows(o2, o3)
  PROVE  Shows(o1, o3)
  BY DEF Shows

\* A handler whose answers only show something.
LEMMA Showing ==
  ASSUME NEW c \in Clients, NEW pdu, Reads(c, pdu), Shows(toClient, toClient'),
         UNCHANGED <<name, hasty, consent, crossed>>,
         friendInfo' \subseteq friendInfo \cup (IF pdu.type = "agree" THEN {<<pdu.x, pdu.y>>} ELSE {})
  PROVE  Handled(c, pdu)
<1>1. ASSUME NEW d \in Clients
      PROVE  Elements(Down(d)) = Got(toClient, d) /\ Elements(Down(d)') = Got(toClient', d)
  BY GotIsR
<1> QED
  BY <1>1 DEF Shows, Handled, NewAnswer

LEMMA LoginHandled ==
  ASSUME TypeOK, NEW c \in Clients, HandleLogin(c)
  PROVE  \E pdu \in Requests : Handled(c, pdu)
<1>1. PICK pdu : /\ pdu.type = "login" /\ Reads(c, pdu)
                 /\ IF MayLogin(pdu.x, pdu.y)
                    THEN /\ online' = online \cup {pdu.x}
                         /\ name' = [name EXCEPT ![c] = pdu.x]
                         /\ toClient' = Written(toClient, c, Pdu("loginOk", NoName, NoName))
                    ELSE /\ toClient' = Written(toClient, c, Pdu("loginFailed", NoName, NoName))
                         /\ UNCHANGED <<online, name>>
                 /\ UNCHANGED <<usrInfo, friendInfo, history>>
  BY DEF HandleLogin
<1>2. pdu \in Requests
  BY <1>1, ReadsTyped
<1>3. toClient \in [Clients -> Seq(Answers)]
  BY DEF TypeOK
<1>4. CASE MayLogin(pdu.x, pdu.y)
  <2> DEFINE a == Pdu("loginOk", NoName, NoName)
  <2>1. a \in Answers /\ a.type = "loginOk"
    BY NewAnswers DEF Pdu
  <2>2. name' = [name EXCEPT ![c] = pdu.x] /\ toClient' = Written(toClient, c, a)
    BY <1>1, <1>4
  <2> HIDE DEF a
  <2>3. ASSUME NEW d \in Clients
        PROVE  Elements(Down(d)') = Elements(Down(d)) \cup (IF d = c /\ link[c] = "on" THEN {a} ELSE {})
    BY <1>1, <1>3, <2>1, <2>2, GotIsR, WrittenGot
  <2>4. \A d \in Clients : \A b \in Elements(Down(d)') \ Elements(Down(d)) : NewAnswer(c, pdu, d, b)
    BY <1>1, <2>1, <2>2, <2>3 DEF NewAnswer
  <2>5. link[c] = "on" => \E b \in Elements(Down(c)') : b.type = "loginOk"
    BY <2>1, <2>3
  <2>6. Handled(c, pdu)
    BY <1>1, <2>2, <2>3, <2>4, <2>5 DEF Handled, history
  <2> QED
    BY <1>2, <2>6
<1>5. CASE ~MayLogin(pdu.x, pdu.y)
  <2> DEFINE a == Pdu("loginFailed", NoName, NoName)
  <2>1. a \in Answers /\ a.type = "loginFailed"
    BY NewAnswers DEF Pdu
  <2>2. toClient' = Written(toClient, c, a) /\ name' = name
    BY <1>1, <1>5
  <2> HIDE DEF a
  <2>3. Handled(c, pdu)
    BY <1>1, <2>1, <2>2, PlainAnswer DEF history
  <2> QED
    BY <1>2, <2>3
<1> QED
  BY <1>4, <1>5

LEMMA AddHandled ==
  ASSUME TypeOK, NEW c \in Clients, HandleAddFriend(c)
  PROVE  \E pdu \in Requests : Handled(c, pdu)
<1>1. PICK pdu :
        /\ pdu.type = "add" /\ Reads(c, pdu)
        /\ IF ~AreFriends(pdu.x, pdu.y) /\ pdu.x \in online
           THEN /\ toClient' = Resent(toClient, pdu.x, pdu)
                /\ crossed' = IF Asked(pdu.y, pdu.x) THEN crossed \cup {{pdu.x, pdu.y}}
                              ELSE crossed
           ELSE /\ toClient' = Written(toClient, c, Pdu("refused", NoName, NoName))
                /\ UNCHANGED crossed
        /\ UNCHANGED <<tables, name, hasty, consent>>
  BY DEF HandleAddFriend
<1>2. pdu \in Requests /\ pdu \in Answers
  BY <1>1, ReadsTyped, RequestFields
<1>3. toClient \in [Clients -> Seq(Answers)]
  BY DEF TypeOK
<1>4. CASE ~AreFriends(pdu.x, pdu.y) /\ pdu.x \in online
  <2>1. /\ toClient' = Resent(toClient, pdu.x, pdu)
        /\ crossed \subseteq crossed' /\ Asked(pdu.y, pdu.x) => {pdu.x, pdu.y} \in crossed'
    BY <1>1, <1>4
  <2>2. ASSUME NEW d \in Clients
        PROVE  \/ Elements(Down(d)') = Elements(Down(d))
               \/ /\ Elements(Down(d)') = Elements(Down(d)) \cup {pdu}
                  /\ name[d] = pdu.x /\ link[d] = "on"
    BY <1>1, <1>2, <1>3, <2>1, GotIsR, ResentGot
  <2>3. ASSUME NEW d \in Clients, NEW a \in Elements(Down(d)') \ Elements(Down(d))
        PROVE  NewAnswer(c, pdu, d, a)
    <3>1. a = pdu /\ name[d] = pdu.x /\ link[d] = "on"
      BY <2>2
    <3> QED
      BY <1>1, <1>4, <2>1, <3>1 DEF NewAnswer, AreFriends
  <2>4. Handled(c, pdu)
    BY <1>1, <2>1, <2>2, <2>3 DEF Handled, tables
  <2> QED
    BY <1>2, <2>4
<1>5. CASE ~(~AreFriends(pdu.x, pdu.y) /\ pdu.x \in online)
  <2> DEFINE a == Pdu("refused", NoName, NoName)
  <2>1. a \in Answers /\ a.type = "refused"
    BY NewAnswers DEF Pdu
  <2>2. toClient' = Written(toClient, c, a) /\ crossed' = crossed
    BY <1>1, <1>5
  <2> HIDE DEF a
  <2>3. Handled(c, pdu)
    BY <1>1, <2>1, <2>2, PlainAnswer DEF tables
  <2> QED
    BY <1>2, <2>3
<1> QED
  BY <1>4, <1>5

LEMMA ChatHandled ==
  ASSUME TypeOK, NEW c \in Clients, HandleChat(c)
  PROVE  \E pdu \in Requests : Handled(c, pdu)
<1>1. PICK pdu : /\ pdu.type = "chat" /\ Reads(c, pdu)
                 /\ toClient' = Resent(toClient, pdu.x, pdu)
                 /\ UNCHANGED <<tables, name, history>>
  BY DEF HandleChat
<1>2. pdu \in Requests /\ pdu \in Answers
  BY <1>1, ReadsTyped, RequestFields
<1>3. toClient \in [Clients -> Seq(Answers)]
  BY DEF TypeOK
<1>4. Shows(toClient, toClient')
  BY <1>1, <1>2, <1>3, ResentShows
<1>5. Handled(c, pdu)
  BY <1>1, <1>4, Showing DEF tables, history
<1> QED
  BY <1>2, <1>5

LEMMA RefuseHandled ==
  ASSUME TypeOK, NEW c \in Clients, HandleRefuse(c)
  PROVE  \E pdu \in Requests : Handled(c, pdu)
<1> DEFINE a == Pdu("refused", NoName, NoName)
           told(pdu) == Resent(toClient, pdu.y, a)
<1>1. PICK pdu : /\ Reads(c, pdu)
                 /\ toClient' = Friends(told(pdu), c, pdu.x)
                 /\ UNCHANGED <<tables, name, history>>
  BY DEF HandleRefuse
<1>2. pdu \in Requests
  BY <1>1, ReadsTyped
<1>3. toClient \in [Clients -> Seq(Answers)]
  BY DEF TypeOK
<1>4. a \in Answers /\ a.type = "refused"
  BY NewAnswers DEF Pdu
<1> HIDE DEF a
<1>5. Shows(toClient, told(pdu)) /\ told(pdu) \in [Clients -> Seq(Answers)]
  BY <1>3, <1>4, ResentShows, ResentTyped
<1>6. OnlineFriends(friendInfo, pdu.x) \in SUBSET Users
  BY DEF TypeOK, OnlineFriends
<1>7. Shows(told(pdu), toClient')
  BY <1>1, <1>5, <1>6, FriendsShows DEF Friends
<1>8. Shows(toClient, toClient')
  BY <1>5, <1>7, ShowsTwice
<1>9. Handled(c, pdu)
  BY <1>1, <1>8, Showing DEF tables, history
<1> QED
  BY <1>2, <1>9

LEMMA AgreeHandled ==
  ASSUME TypeOK, NEW c \in Clients, HandleAgree(c)
  PROVE  \E pdu \in Requests : Handled(c, pdu)
<1>1. PICK pdu :
        /\ pdu.type = "agree" /\ Reads(c, pdu)
        /\ LET pair == <<pdu.x, pdu.y>>
               ok == pair \notin friendInfo /\ {pdu.x, pdu.y} \subseteq usrInfo
               told == IF ok THEN Resent(toClient, pdu.y, Pdu("added", NoName, NoName))
                       ELSE toClient
               refused == Resent(told, pdu.y, Pdu("refused", NoName, NoName))
           IN /\ friendInfo' = IF ok THEN friendInfo \cup {pair} ELSE friendInfo
              /\ toClient' = Written(refused, c,
                               Pdu("friends", OnlineFriends(friendInfo', pdu.x), NoName))
        /\ UNCHANGED <<usrInfo, online, name, history>>
  BY DEF HandleAgree
<1> DEFINE yes == Pdu("added", NoName, NoName)
           no == Pdu("refused", NoName, NoName)
           ok == <<pdu.x, pdu.y>> \notin friendInfo /\ {pdu.x, pdu.y} \subseteq usrInfo
           told == IF ok THEN Resent(toClient, pdu.y, yes) ELSE toClient
           refused == Resent(told, pdu.y, no)
<1>2. pdu \in Requests
  BY <1>1, ReadsTyped
<1>3. toClient \in [Clients -> Seq(Answers)]
  BY DEF TypeOK
<1>4. yes \in Answers /\ yes.type = "added" /\ no \in Answers /\ no.type = "refused"
  BY NewAnswers DEF Pdu
<1> HIDE DEF yes, no
<1>5. Shows(toClient, told) /\ told \in [Clients -> Seq(Answers)]
  <2>1. Shows(toClient, toClient)
    BY <1>3 DEF Shows
  <2>2. Shows(toClient, Resent(toClient, pdu.y, yes))
        /\ Resent(toClient, pdu.y, yes) \in [Clients -> Seq(Answers)]
    BY <1>3, <1>4, ResentShows, ResentTyped
  <2> QED
    BY <1>3, <2>1, <2>2
<1> HIDE DEF told
<1>6. Shows(told, refused) /\ refused \in [Clients -> Seq(Answers)]
  BY <1>4, <1>5, ResentShows, ResentTyped
<1>7. OnlineFriends(friendInfo', pdu.x) \in SUBSET Users
  BY DEF TypeOK, OnlineFriends
<1>8. toClient' = Written(refused, c, Pdu("friends", OnlineFriends(friendInfo', pdu.x), NoName))
  BY <1>1 DEF refused, told, yes, no
<1> HIDE DEF refused
<1>9. Shows(refused, toClient')
  BY <1>6, <1>7, <1>8, FriendsShows
<1>10. Shows(toClient, toClient')
  <2>1. Shows(toClient, refused)
    BY <1>5, <1>6, ShowsTwice
  <2> QED
    BY <1>9, <2>1, ShowsTwice
<1>11. friendInfo' \subseteq friendInfo \cup {<<pdu.x, pdu.y>>}
  BY <1>1
<1>12. Handled(c, pdu)
  BY <1>1, <1>10, <1>11, Showing DEF history
<1> QED
  BY <1>2, <1>12

LEMMA OtherHandled ==
  ASSUME TypeOK, NEW c \in Clients, HandleRegist(c) \/ HandleDelete(c) \/ HandleFlush(c)
  PROVE  \E pdu \in Requests : Handled(c, pdu)
<1>1. CASE HandleRegist(c) \/ HandleDelete(c)
  <2>1. PICK pdu : /\ Reads(c, pdu)
                   /\ \/ toClient' = Written(toClient, c, Pdu("box", NoName, NoName))
                      \/ toClient' = Written(toClient, c, Pdu("deleted", NoName, NoName))
                   /\ friendInfo' \subseteq friendInfo /\ UNCHANGED <<name, history>>
    BY <1>1 DEF HandleRegist, HandleDelete
  <2>2. \A t \in {"box", "deleted"} : /\ Pdu(t, NoName, NoName) \in Answers
                                      /\ Pdu(t, NoName, NoName).type = t
    BY NewAnswers DEF Pdu
  <2>3. PICK a \in Answers : a.type \in {"box", "deleted"} /\ toClient' = Written(toClient, c, a)
    BY <2>1, <2>2
  <2>4. pdu \in Requests
    BY <2>1, ReadsTyped
  <2>5. Handled(c, pdu)
    BY <2>1, <2>3, PlainAnswer DEF history
  <2> QED
    BY <2>4, <2>5
<1>2. CASE HandleFlush(c)
  <2>1. PICK pdu : Reads(c, pdu) /\ toClient' = Friends(toClient, c, pdu.x)
                   /\ UNCHANGED <<tables, name, history>>
    BY <1>2 DEF HandleFlush
  <2>2. pdu \in Requests /\ toClient \in [Clients -> Seq(Answers)]
    BY <2>1, ReadsTyped DEF TypeOK
  <2>3. OnlineFriends(friendInfo, pdu.x) \in SUBSET Users
    BY DEF TypeOK, OnlineFriends
  <2>4. Shows(toClient, toClient')
    BY <2>1, <2>2, <2>3, FriendsShows DEF Friends
  <2>5. Handled(c, pdu)
    BY <2>1, <2>4, Showing DEF tables, history
  <2> QED
    BY <2>2, <2>5
<1> QED
  BY <1>1, <1>2

LEMMA ServerHandles ==
  ASSUME TypeOK, NEW c \in Clients, Server(c)
  PROVE  ClientOffline(c) \/ \E pdu \in Requests : Handled(c, pdu)
  BY LoginHandled, AddHandled, ChatHandled, RefuseHandled, AgreeHandled, OtherHandled DEF Server

-----------------------------------------------------------------------------
(* A client acts for the user its socket is logged in as.                  *)

\* A client program is connected exactly while it has a socket; nothing is
\* written to a program that does not run, and nothing is left of it.
Links(c) ==
  /\ c \in sockets <=> link[c] # "off"
  /\ link[c] # "on" => Elements(Down(c)) = {} /\ box[c] = NoBox /\ window[c] = "login"
  /\ link[c] = "off" => Elements(Up(c)) = {} /\ c \notin hasty

LoggedIn(c) == window[c] = "main" \/ \E a \in Elements(Down(c)) : a.type = "loginOk"

\* A login is under way alone, for a socket without a name.
OneLogin(c) ==
  \A i \in DOMAIN Up(c) : Up(c)[i].type = "login" =>
    /\ name[c] = NoName
    /\ link[c] = "on" => Up(c)[i].x = login[c]
    /\ \A j \in DOMAIN Up(c) : Up(c)[j].type = "login" => i = j

\* The socket has a name exactly when its client was told so, and it is the one
\* the client keeps; who is asked for his friendship is that user.
Own(c) ==
  link[c] = "on" =>
    /\ LoggedIn(c) <=> name[c] # NoName
    /\ name[c] # NoName => login[c] = name[c]
    /\ \A a \in Elements(Down(c)) : a.type = "add" => a.x = name[c] /\ name[c] # NoName
    /\ box[c][1] = "ask" => box[c][2] = name[c] /\ name[c] # NoName

LinkInv == \A c \in Clients : Links(c)
OwnInv == \A c \in Clients \ hasty : OneLogin(c) /\ Own(c)

-----------------------------------------------------------------------------
(* What a client program does, or its user.                                *)

Waiting(c) == window[c] = "login" /\ ~LoginPending(c)

MaySend(c, p) ==
  /\ p.type = "login" => p.x = login'[c] /\ (c \in hasty' \/ Waiting(c))
  /\ p.type = "agree" => /\ box[c] = <<"ask", p.x, p.y>>
                         /\ <<IF c \in hasty THEN p.x ELSE login[c], p.y>> \in consent'

Apart(c) ==
  \A d \in Clients : d # c =>
    /\ Up(d)' = Up(d) /\ Down(d)' = Down(d)
    /\ login'[d] = login[d] /\ box'[d] = box[d] /\ window'[d] = window[d]
    /\ d \in hasty' <=> d \in hasty

Moved(c) ==
  /\ link[c] = "on" /\ UNCHANGED <<sockets, name, link, friendInfo, crossed>>
  /\ Apart(c) /\ hasty \subseteq hasty' /\ consent \subseteq consent'
  /\ Elements(Down(c)') \subseteq Elements(Down(c))
  /\ Up(c)' = Up(c) \/ \E p \in Requests : Up(c)' = Append(Up(c), p) /\ MaySend(c, p)
  /\ c \notin hasty' => /\ LoggedIn(c)' <=> LoggedIn(c)
                        /\ login'[c] = login[c] \/ Waiting(c)
  /\ \/ box'[c] = box[c] \/ box'[c][1] # "ask"
     \/ \E a \in Elements(Down(c)) : a \in Answers /\ a.type = "add" /\ box'[c] = <<"ask", a.x, a.y>>

LEMMA ClickMoves ==
  ASSUME TypeOK, NEW c \in Clients, NEW where, NEW p \in Requests, Clicks(c, where, p),
         MaySend(c, p), hasty \subseteq hasty', hasty' \subseteq hasty \cup {c},
         \A d \in Clients : d # c => login'[d] = login[d],
         c \in hasty' \/ login'[c] = login[c] \/ Waiting(c)
  PROVE  Moved(c)
<1>1. /\ link[c] = "on" /\ Sends(c, p)
      /\ UNCHANGED <<tables, serverVars, toClient, link, window, box, held, consent, crossed>>
  BY DEF Clicks
<1>2. Up(c)' = Append(Up(c), p) /\ \A d \in Clients : d # c => Up(d)' = Up(d)
  BY <1>1, SendsLast DEF serverVars
<1>3. \A d \in Clients : Down(d)' = Down(d)
  BY <1>1 DEF Down
<1>4. LoggedIn(c)' <=> LoggedIn(c)
  BY <1>1, <1>3 DEF LoggedIn
<1> QED
  BY <1>1, <1>2, <1>3, <1>4 DEF Moved, Apart, tables, serverVars

LEMMA ButtonMoves ==
  ASSUME TypeOK, NEW c \in Clients,
         \/ ClickLogin(c) \/ ClickLoginBlank(c) \/ ClickRegist(c) \/ ClickFlush(c)
         \/ ClickAdd(c) \/ ClickDelete(c) \/ ClickChat(c)
  PROVE  Moved(c)
<1>0. login[c] \in Names /\ shown[c] \subseteq Users /\ usrInfo \subseteq Users
  BY DEF TypeOK
<1>1. CASE ClickLogin(c)
  <2>1. PICK u \in Users, ok \in BOOLEAN :
          /\ Clicks(c, "login", Pdu("login", u, ok))
          /\ login' = [login EXCEPT ![c] = u]
          /\ hasty' = IF LoginPending(c) THEN hasty \cup {c} ELSE hasty
    BY <1>1 DEF ClickLogin
  <2> DEFINE p == Pdu("login", u, ok)
  <2>2. p \in Requests /\ p.type = "login" /\ p.x = u
    BY DEF Pdu, Requests
  <2> HIDE DEF p
  <2>3. login'[c] = u /\ \A d \in Clients : d # c => login'[d] = login[d]
    BY <2>1 DEF TypeOK
  <2>4. window[c] = "login" /\ Clicks(c, "login", p)
    BY <2>1 DEF Clicks, p
  <2>5. c \in hasty' \/ Waiting(c)
    BY <2>1, <2>4 DEF Waiting
  <2>6. MaySend(c, p)
    BY <2>2, <2>3, <2>5 DEF MaySend
  <2>7. hasty \subseteq hasty' /\ hasty' \subseteq hasty \cup {c}
    BY <2>1
  <2> QED
    BY <2>2, <2>3, <2>4, <2>5, <2>6, <2>7, ClickMoves
<1>2. CASE ClickLoginBlank(c)
  <2>1. PICK u \in Names :
          /\ link[c] = "on" /\ window[c] = "login"
          /\ login' = [login EXCEPT ![c] = u] /\ box' = [box EXCEPT ![c] = InputBox]
          /\ hasty' = IF LoginPending(c) THEN hasty \cup {c} ELSE hasty
          /\ UNCHANGED <<tables, serverVars, toServer, toClient, link, window, held, consent,
                         crossed>>
    BY <1>2 DEF ClickLoginBlank
  <2>2. \A d \in Clients : Up(d)' = Up(d) /\ Down(d)' = Down(d)
    BY <2>1 DEF Up, Down, serverVars
  <2>3. LoggedIn(c)' <=> LoggedIn(c)
    BY <2>1, <2>2 DEF LoggedIn
  <2>4. c \in hasty' \/ Waiting(c)
    BY <2>1 DEF Waiting
  <2>5. box'[c][1] # "ask" /\ \A d \in Clients : d # c => box'[d] = box[d] /\ login'[d] = login[d]
    BY <2>1 DEF TypeOK, InputBox
  <2> QED
    BY <2>1, <2>2, <2>3, <2>4, <2>5 DEF Moved, Apart, tables, serverVars
<1>3. CASE ClickRegist(c) \/ ClickFlush(c) \/ ClickAdd(c) \/ ClickDelete(c) \/ ClickChat(c)
  <2>1. UNCHANGED <<login, hasty>>
    BY <1>3 DEF ClickRegist, ClickFlush, ClickAdd, ClickDelete, ClickChat
  <2>2. \E where \in {"login", "main"}, p \in Requests : Clicks(c, where, p) /\ p.type \notin {"login", "agree"}
    <3>1. CASE ClickRegist(c)
      <4>1. PICK u \in Users : Clicks(c, "login", Pdu("regist", u, NoName))
        BY <3>1 DEF ClickRegist
      <4>2. Pdu("regist", u, NoName) \in Requests /\ Pdu("regist", u, NoName).type = "regist"
        BY DEF Pdu, Requests
      <4> QED
        BY <4>1, <4>2
    <3>2. CASE ClickFlush(c)
      <4>1. Clicks(c, "main", Pdu("flush", login[c], NoName))
        BY <3>2 DEF ClickFlush
      <4>2. /\ Pdu("flush", login[c], NoName) \in Requests
            /\ Pdu("flush", login[c], NoName).type = "flush"
        BY <1>0 DEF Pdu, Requests, Names
      <4> QED
        BY <4>1, <4>2
    <3>3. CASE ClickAdd(c)
      <4>1. PICK u \in Users : Clicks(c, "main", Pdu("add", u, login[c]))
        BY <1>0, <3>3 DEF ClickAdd
      <4>2. /\ Pdu("add", u, login[c]) \in Requests
            /\ Pdu("add", u, login[c]).type = "add"
        BY <1>0 DEF Pdu, Requests, Names
      <4> QED
        BY <4>1, <4>2
    <3>4. CASE ClickDelete(c)
      <4>1. PICK u \in Users : Clicks(c, "main", Pdu("delete", login[c], u))
        BY <1>0, <3>4 DEF ClickDelete
      <4>2. /\ Pdu("delete", login[c], u) \in Requests
            /\ Pdu("delete", login[c], u).type = "delete"
        BY <1>0 DEF Pdu, Requests, Names
      <4> QED
        BY <4>1, <4>2
    <3>5. CASE ClickChat(c)
      <4>1. PICK u \in Users : Clicks(c, "main", Pdu("chat", u, login[c]))
        BY <1>0, <3>5 DEF ClickChat
      <4>2. /\ Pdu("chat", u, login[c]) \in Requests
            /\ Pdu("chat", u, login[c]).type = "chat"
        BY <1>0 DEF Pdu, Requests, Names
      <4> QED
        BY <4>1, <4>2
    <3> QED
      BY <1>3, <3>1, <3>2, <3>3, <3>4, <3>5
  <2>3. PICK where \in {"login", "main"}, p \in Requests : Clicks(c, where, p) /\ p.type \notin {"login", "agree"}
    BY <2>2
  <2>4. MaySend(c, p)
    BY <2>3 DEF MaySend
  <2> QED
    BY <2>1, <2>3, <2>4, ClickMoves
<1> QED
  BY <1>1, <1>2, <1>3

LEMMA GetMoves ==
  ASSUME TypeOK, NEW c \in Clients,
         \/ GetLoginOk(c) \/ GetBox(c) \/ GetAdd(c) \/ GetAdded(c) \/ GetNote(c) \/ GetFriends(c)
  PROVE  Moved(c)
<1> DEFINE p == Pdu("flush", login[c], NoName)
<1>0. p \in Requests /\ p.type = "flush"
  BY DEF TypeOK, Pdu, Requests, Names
<1> HIDE DEF p
<1>1. PICK a : /\ Gets(c, a)
               /\ toServer' = toServer \/ Sends(c, p)
               /\ \/ a.type = "loginOk" /\ window' = [window EXCEPT ![c] = "main"]
                  \/ a.type # "loginOk" /\ window' = window
               /\ \/ box' = box
                  \/ a.type \in {"box", "loginFailed", "deleted"} /\ box' = [box EXCEPT ![c] = <<a.type>>]
                  \/ a.type = "add" /\ box' = [box EXCEPT ![c] = <<"ask", a.x, a.y>>]
  BY DEF GetLoginOk, GetBox, GetAdd, GetAdded, GetNote, GetFriends, IsLoginOk, p
<1>2. /\ link[c] = "on" /\ UNCHANGED <<tables, serverVars, link, login, history>>
  BY <1>1 DEF Gets
<1>3. /\ Down(c) # <<>> /\ a = Head(Down(c)) /\ Down(c)' = Tail(Down(c))
      /\ \A d \in Clients : d # c => Down(d)' = Down(d)
  BY <1>1, GetsFirst
<1>4. Elements(Down(c)) = Elements(Down(c)') \cup {a} /\ a \in Answers
  BY <1>1, <1>3, QueuesTyped, TailMembers, GetsTyped
<1>5. /\ Up(c)' = Up(c) \/ Up(c)' = Append(Up(c), p)
      /\ \A d \in Clients : d # c => Up(d)' = Up(d)
  <2>1. CASE toServer' = toServer
    BY <1>2, <2>1 DEF Up, serverVars
  <2>2. CASE Sends(c, p)
    BY <1>0, <1>2, <2>2, SendsLast DEF serverVars
  <2> QED
    BY <1>1, <2>1, <2>2
<1>6. MaySend(c, p)
  BY <1>0 DEF MaySend
<1>7. \A d \in Clients : d # c => window'[d] = window[d] /\ box'[d] = box[d]
  BY <1>1 DEF TypeOK
<1>8. LoggedIn(c)' <=> LoggedIn(c)
  <2>1. CASE a.type = "loginOk" /\ window' = [window EXCEPT ![c] = "main"]
    BY <1>4, <2>1 DEF LoggedIn, TypeOK
  <2>2. CASE a.type # "loginOk" /\ window' = window
    BY <1>4, <2>2 DEF LoggedIn
  <2> QED
    BY <1>1, <2>1, <2>2
<1>9. \/ box'[c] = box[c] \/ box'[c][1] # "ask"
      \/ a.type = "add" /\ box'[c] = <<"ask", a.x, a.y>>
  <2>1. CASE a.type \in {"box", "loginFailed", "deleted"} /\ box' = [box EXCEPT ![c] = <<a.type>>]
    <3>1. box'[c] = <<a.type>>
      BY <2>1 DEF TypeOK
    <3> QED
      BY <2>1, <3>1
  <2>2. CASE a.type = "add" /\ box' = [box EXCEPT ![c] = <<"ask", a.x, a.y>>]
    BY <2>2 DEF TypeOK
  <2> QED
    BY <1>1, <2>1, <2>2
<1> QED
  BY <1>0, <1>2, <1>3, <1>4, <1>5, <1>6, <1>7, <1>8, <1>9
  DEF Moved, Apart, tables, serverVars, history

LEMMA SilentMoves ==
  ASSUME TypeOK, NEW c \in Clients, ArriveSilently(c)
  PROVE  Moved(c)
<1>1. held[c] \in Seq(Answers) /\ toClient[c] \in Seq(Answers) /\ Down(c) \in Seq(Answers)
  BY QueuesTyped
<1>2. /\ link[c] = "on"
      /\ held' = [held EXCEPT ![c] = @ \o toClient[c]]
      /\ toClient' = [toClient EXCEPT ![c] = <<>>]
      /\ UNCHANGED <<tables, serverVars, toServer, link, window, login, box, history>>
  BY DEF ArriveSilently
<1>3. /\ held'[c] = Down(c) /\ toClient'[c] = <<>>
      /\ \A d \in Clients : d # c => held'[d] = held[d] /\ toClient'[d] = toClient[d]
  BY <1>2 DEF TypeOK, Down
<1>4. Down(c) \o <<>> = Down(c)
  BY <1>1, ConcatEmptySeq
<1>5. \A d \in Clients : Down(d)' = Down(d) /\ Up(d)' = Up(d)
  BY <1>2, <1>3, <1>4 DEF Down, Up, serverVars
<1>6. LoggedIn(c)' <=> LoggedIn(c)
  BY <1>2, <1>5 DEF LoggedIn
<1> QED
  BY <1>2, <1>5, <1>6 DEF Moved, Apart, tables, serverVars, history

LEMMA CloseMoves ==
  ASSUME TypeOK, NEW c \in Clients, CloseBox(c)
  PROVE  Moved(c)
<1>0. login[c] \in Names /\ box[c] \in Boxes
  BY DEF TypeOK
<1>1. /\ link[c] = "on" /\ box' = [box EXCEPT ![c] = NoBox]
      /\ UNCHANGED <<tables, serverVars, toClient, link, window, login, held, hasty, crossed>>
  BY DEF CloseBox
<1>2. /\ consent \subseteq consent'
      /\ toServer' = toServer \/ \E p \in Requests : Sends(c, p) /\ MaySend(c, p)
  <2>1. CASE box[c][1] = "ask"
    <3>1. PICK x \in Names, y \in Names : box[c] = <<"ask", x, y>>
      BY <1>0, <2>1 DEF Boxes, NoBox, InputBox
    <3>2. \/ /\ Sends(c, Pdu("agree", x, y))
             /\ consent' = consent \cup {<<IF c \in hasty THEN x ELSE login[c], y>>}
          \/ Sends(c, Pdu("refuse", x, y)) /\ UNCHANGED consent
      BY <2>1, <3>1 DEF CloseBox
    <3>3. \A t \in {"agree", "refuse"} :
            /\ Pdu(t, x, y) \in Requests /\ Pdu(t, x, y).type = t
            /\ Pdu(t, x, y).x = x /\ Pdu(t, x, y).y = y
      BY NewRequests DEF Pdu
    <3>4. CASE /\ Sends(c, Pdu("agree", x, y))
               /\ consent' = consent \cup {<<IF c \in hasty THEN x ELSE login[c], y>>}
      <4>1. MaySend(c, Pdu("agree", x, y))
        BY <3>1, <3>3, <3>4 DEF MaySend
      <4> QED
        BY <3>3, <3>4, <4>1
    <3>5. CASE Sends(c, Pdu("refuse", x, y)) /\ UNCHANGED consent
      <4>1. MaySend(c, Pdu("refuse", x, y))
        BY <3>3 DEF MaySend
      <4> QED
        BY <3>3, <3>5, <4>1
    <3> QED
      BY <3>2, <3>4, <3>5
  <2>2. CASE box[c][1] = "deleted"
    <3>1. Sends(c, Pdu("flush", login[c], NoName)) /\ UNCHANGED consent
      BY <2>2 DEF CloseBox
    <3>2. /\ Pdu("flush", login[c], NoName) \in Requests
          /\ Pdu("flush", login[c], NoName).type = "flush"
      BY <1>0, NewRequests DEF Pdu
    <3>3. MaySend(c, Pdu("flush", login[c], NoName))
      BY <3>2 DEF MaySend
    <3> QED
      BY <3>1, <3>2, <3>3
  <2>3. CASE box[c][1] \notin {"ask", "deleted"}
    BY <2>3 DEF CloseBox
  <2> QED
    BY <2>1, <2>2, <2>3
<1>3. \A d \in Clients : Down(d)' = Down(d)
  BY <1>1 DEF Down
<1>4. LoggedIn(c)' <=> LoggedIn(c)
  BY <1>1, <1>3 DEF LoggedIn
<1>5. box'[c][1] # "ask" /\ \A d \in Clients : d # c => box'[d] = box[d]
  BY <1>1 DEF TypeOK, NoBox
<1>6. /\ \A d \in Clients : d # c => Up(d)' = Up(d)
      /\ Up(c)' = Up(c) \/ \E p \in Requests : Up(c)' = Append(Up(c), p) /\ MaySend(c, p)
  <2>1. CASE toServer' = toServer
    BY <1>1, <2>1 DEF Up, serverVars
  <2>2. ASSUME NEW p \in Requests, Sends(c, p), MaySend(c, p)
        PROVE  /\ \A d \in Clients : d # c => Up(d)' = Up(d)
               /\ Up(c)' = Append(Up(c), p)
    BY <1>1, <2>2, SendsLast DEF serverVars
  <2> QED
    BY <1>2, <2>1, <2>2
<1> QED
  BY <1>1, <1>2, <1>3, <1>4, <1>5, <1>6 DEF Moved, Apart, tables, serverVars

LEMMA NobodyLoggedIn ==
  ASSUME NEW c \in Clients, Waiting(c)
  PROVE  /\ ~LoggedIn(c)
         /\ \A i \in DOMAIN Up(c) : Up(c)[i].type # "login"
  BY DEF Waiting, LoggedIn, LoginPending, Elements, Up, Down

\* Clients and handlers: links.
LEMMA HandledLinks ==
  ASSUME TypeOK, LinkInv, NEW c \in Clients, NEW pdu, Handled(c, pdu)
  PROVE  LinkInv'
<1> SUFFICES ASSUME NEW d \in Clients PROVE Links(d)'
  BY DEF LinkInv
<1>1. c \in sockets /\ UNCHANGED <<sockets, link, box, window, hasty>>
  BY DEF Handled, Reads, clientVars
<1>2. Links(c) /\ Links(d)
  BY DEF LinkInv
<1>3. link[d] = "off" => Up(d)' = Up(d)
  BY <1>1, <1>2, ReadsFirst DEF Links, Handled
<1>4. link[d] # "on" => Elements(Down(d)') \subseteq Elements(Down(d))
  BY DEF Handled, NewAnswer
<1> QED
  BY <1>1, <1>2, <1>3, <1>4 DEF Links

LEMMA MovedLinks ==
  ASSUME TypeOK, LinkInv, NEW c \in Clients, Moved(c)
  PROVE  LinkInv'
<1> SUFFICES ASSUME NEW d \in Clients PROVE Links(d)'
  BY DEF LinkInv
<1>1. Links(c) /\ Links(d)
  BY DEF LinkInv
<1>2. CASE d = c
  BY <1>1, <1>2 DEF Moved, Links
<1>3. CASE d # c
  <2>1. /\ UNCHANGED <<sockets, link>>
        /\ Up(d)' = Up(d) /\ Down(d)' = Down(d) /\ box'[d] = box[d] /\ window'[d] = window[d]
        /\ d \in hasty' <=> d \in hasty
    BY <1>3 DEF Moved, Apart
  <2> QED
    BY <1>1, <2>1 DEF Links
<1> QED
  BY <1>2, <1>3

\* A handler: a login is the only one, so that the name stays with the client.
LEMMA HandledOwn ==
  ASSUME TypeOK, OwnInv, NEW c \in Clients, NEW pdu \in Requests, Handled(c, pdu)
  PROVE  OwnInv'
<1> SUFFICES ASSUME NEW d \in Clients \ hasty PROVE OneLogin(d)' /\ Own(d)'
  BY DEF OwnInv, Handled
<1>0. OneLogin(d) /\ Own(d)
  BY DEF OwnInv
<1>1. /\ Reads(c, pdu) /\ UNCHANGED <<link, box, window, login, hasty>>
      /\ Elements(Down(d)) \subseteq Elements(Down(d)')
      /\ \A a \in Elements(Down(d)') : a \in Elements(Down(d)) \/ NewAnswer(c, pdu, d, a)
  BY DEF Handled, Reads, clientVars
<1>2. /\ Up(c) # <<>> /\ pdu = Head(Up(c)) /\ Up(c)' = Tail(Up(c))
      /\ \A e \in Clients : e # c => Up(e)' = Up(e)
  BY <1>1, ReadsFirst
<1>3. /\ 1 \in DOMAIN Up(c) /\ pdu = Up(c)[1]
      /\ \A i \in DOMAIN Up(c)' : i \in Nat \ {0} /\ i + 1 \in DOMAIN Up(c) /\ Up(c)'[i] = Up(c)[i + 1]
  BY <1>2, QueuesTyped, TailMembers
<1>4. CASE d # c
  <2>1. name'[d] = name[d] /\ Up(d)' = Up(d)
    BY <1>2, <1>4 DEF Handled, TypeOK
  <2>2. \A a \in Elements(Down(d)') : a \in Elements(Down(d)) \/
          (a.type # "loginOk" /\ (a.type = "add" => a.x = name[d] /\ a.x # NoName))
    BY <1>1, <1>4, NameAssumption DEF NewAnswer, TypeOK
  <2>3. LoggedIn(d)' <=> LoggedIn(d)
    BY <1>1, <2>2 DEF LoggedIn
  <2>4. OneLogin(d)'
    BY <1>0, <1>1, <2>1 DEF OneLogin
  <2>5. Own(d)'
    BY <1>0, <1>1, <2>1, <2>2, <2>3 DEF Own
  <2> QED
    BY <2>4, <2>5
<1>5. CASE d = c /\ pdu.type = "login" /\ name' = [name EXCEPT ![c] = pdu.x]
  <2>1. name[c] = NoName /\ \A j \in DOMAIN Up(c) : Up(c)[j].type = "login" => j = 1
    BY <1>0, <1>3, <1>5 DEF OneLogin
  <2>2. name'[c] = pdu.x /\ pdu.x \in Users
    BY <1>5, RequestFields DEF TypeOK
  <2>3. pdu.x # NoName /\ (link[c] = "on" => pdu.x = login[c])
    BY <1>0, <1>3, <1>5, <2>2, NameAssumption DEF OneLogin
  <2>4. \A i \in DOMAIN Up(c)' : Up(c)'[i].type # "login"
    <3>1. ASSUME NEW i \in DOMAIN Up(c)', Up(c)'[i].type = "login" PROVE FALSE
      <4>1. i + 1 = 1 /\ i \in Nat \ {0}
        BY <1>3, <2>1, <3>1
      <4> QED
        BY <4>1
    <3> QED
      BY <3>1
  <2>5. OneLogin(c)'
    BY <2>4 DEF OneLogin
  <2>6. ASSUME link[c] = "on"
        PROVE  /\ LoggedIn(c)' /\ ~LoggedIn(c)
               /\ \A a \in Elements(Down(c)') : a.type # "add"
               /\ box[c][1] # "ask"
    <3>1. \E a \in Elements(Down(c)') : a.type = "loginOk"
      <4>1. CASE name' = name
        BY <2>1, <2>2, <2>3, <4>1
      <4>2. CASE name' # name
        BY <2>6, <4>2 DEF Handled
      <4> QED
        BY <4>1, <4>2
    <3>2. /\ ~LoggedIn(c) /\ box[c][1] # "ask"
          /\ \A a \in Elements(Down(c)) : a.type # "add"
      BY <1>0, <1>5, <2>1, <2>6 DEF Own
    <3>3. \A a \in Elements(Down(c)') : a.type # "add"
      BY <1>1, <1>5, <3>2 DEF NewAnswer
    <3> QED
      BY <3>1, <3>2, <3>3 DEF LoggedIn
  <2>7. Own(c)'
    BY <1>1, <2>2, <2>3, <2>6 DEF Own
  <2> QED
    BY <1>5, <2>5, <2>7
<1>6. CASE d = c /\ ~(pdu.type = "login" /\ name' = [name EXCEPT ![c] = pdu.x])
  <2>1. name' = name
    BY <1>6 DEF Handled
  <2>2. \A a \in Elements(Down(c)') : a \in Elements(Down(c)) \/
          (a.type # "loginOk" /\ (a.type = "add" => a.x = name[c] /\ a.x # NoName))
    BY <1>1, <1>6, NameAssumption DEF NewAnswer, TypeOK
  <2>3. LoggedIn(c)' <=> LoggedIn(c)
    BY <1>1, <1>6, <2>2 DEF LoggedIn
  <2>4. OneLogin(c)'
    <3> SUFFICES ASSUME NEW i \in DOMAIN Up(c)', Up(c)'[i].type = "login"
                 PROVE  /\ name[c] = NoName
                        /\ link[c] = "on" => Up(c)'[i].x = login[c]
                        /\ \A j \in DOMAIN Up(c)' : Up(c)'[j].type = "login" => i = j
      BY <1>1, <2>1 DEF OneLogin
    <3>1. i \in Nat /\ i + 1 \in DOMAIN Up(c) /\ Up(c)'[i] = Up(c)[i + 1]
      BY <1>3
    <3>2. /\ name[c] = NoName /\ (link[c] = "on" => Up(c)'[i].x = login[c])
          /\ \A j \in DOMAIN Up(c) : Up(c)[j].type = "login" => i + 1 = j
      BY <1>0, <1>6, <3>1 DEF OneLogin
    <3>3. ASSUME NEW j \in DOMAIN Up(c)', Up(c)'[j].type = "login" PROVE i = j
      <4>1. j \in Nat /\ j + 1 \in DOMAIN Up(c) /\ Up(c)'[j] = Up(c)[j + 1]
        BY <1>3
      <4>2. i + 1 = j + 1
        BY <3>2, <3>3, <4>1
      <4> QED
        BY <3>1, <4>1, <4>2
    <3> QED
      BY <3>2, <3>3
  <2>5. Own(c)'
    BY <1>0, <1>1, <1>6, <2>1, <2>2, <2>3 DEF Own
  <2> QED
    BY <1>6, <2>4, <2>5
<1> QED
  BY <1>4, <1>5, <1>6

\* A client: the name it keeps is changed only while its socket has none.
LEMMA MovedOwn ==
  ASSUME TypeOK, OwnInv, NEW c \in Clients, Moved(c)
  PROVE  OwnInv'
<1> SUFFICES ASSUME NEW d \in Clients \ hasty' PROVE OneLogin(d)' /\ Own(d)'
  BY DEF OwnInv
<1>0. OneLogin(d) /\ Own(d) /\ name' = name /\ link' = link
  BY DEF OwnInv, Moved
<1>1. CASE d # c
  <2>1. /\ Up(d)' = Up(d) /\ Down(d)' = Down(d) /\ login'[d] = login[d] /\ box'[d] = box[d]
        /\ window'[d] = window[d]
    BY <1>1 DEF Moved, Apart
  <2>2. LoggedIn(d)' <=> LoggedIn(d)
    BY <2>1 DEF LoggedIn
  <2> QED
    BY <1>0, <2>1, <2>2 DEF OneLogin, Own
<1>2. CASE d = c
  <2>0. /\ link[c] = "on" /\ OneLogin(c) /\ Own(c) /\ c \notin hasty' /\ c \notin hasty
        /\ LoggedIn(c)' <=> LoggedIn(c)
        /\ Elements(Down(c)') \subseteq Elements(Down(c))
        /\ login'[c] = login[c] \/ Waiting(c)
    BY <1>0, <1>2 DEF Moved
  <2>1. Waiting(c) => name[c] = NoName
    BY <2>0, NobodyLoggedIn DEF Own
  <2>2. \/ box'[c] = box[c] \/ box'[c][1] # "ask"
        \/ \E a \in Elements(Down(c)) : a.type = "add" /\ box'[c] = <<"ask", a.x, a.y>>
    BY DEF Moved
  <2>3. box'[c][1] = "ask" => box'[c][2] = name[c] /\ name[c] # NoName
    BY <2>0, <2>2 DEF Own
  <2>4. Own(c)'
    BY <1>0, <2>0, <2>1, <2>3 DEF Own
  <2>5. CASE Up(c)' = Up(c)
    <3>1. Waiting(c) => OneLogin(c)'
      BY <2>5, NobodyLoggedIn DEF OneLogin
    <3>2. login'[c] = login[c] => OneLogin(c)'
      BY <1>0, <2>0, <2>5 DEF OneLogin
    <3> QED
      BY <1>2, <2>0, <2>4, <3>1, <3>2
  <2>6. ASSUME NEW p \in Requests, Up(c)' = Append(Up(c), p), MaySend(c, p)
        PROVE  OneLogin(c)'
    <3>1. \A i \in DOMAIN Up(c)' : \/ i \in DOMAIN Up(c) /\ Up(c)'[i] = Up(c)[i]
                                   \/ i = Len(Up(c)) + 1 /\ Up(c)'[i] = p
      BY <2>6, QueuesTyped, AppendMembers
    <3>2. CASE Waiting(c)
      <4>1. \A i \in DOMAIN Up(c)' : Up(c)'[i].type = "login" => i = Len(Up(c)) + 1 /\ Up(c)'[i] = p
        BY <3>1, <3>2, NobodyLoggedIn
      <4>2. p.type = "login" => p.x = login'[c]
        BY <2>6 DEF MaySend
      <4> QED
        BY <1>0, <2>1, <3>2, <4>1, <4>2 DEF OneLogin
    <3>3. CASE ~Waiting(c)
      <4>1. p.type # "login" /\ login'[c] = login[c]
        BY <2>0, <2>6, <3>3 DEF MaySend
      <4>2. \A i \in DOMAIN Up(c)' : Up(c)'[i].type = "login" => i \in DOMAIN Up(c) /\ Up(c)'[i] = Up(c)[i]
        BY <3>1, <4>1
      <4> QED
        BY <1>0, <2>0, <4>1, <4>2 DEF OneLogin
    <3> QED
      BY <3>2, <3>3
  <2> QED
    BY <1>2, <2>4, <2>5, <2>6 DEF Moved
<1> QED
  BY <1>1, <1>2

\* A program starts or ends, the server notices, or it crashes.
LEMMA EmptyQueues == Elements(<<>> \o <<>>) = {}
<1>1. <<>> \in Seq({})
  BY EmptySeq
<1>2. <<>> \o <<>> = <<>>
  BY <1>1, ConcatEmptySeq
<1> QED
  BY <1>2, ElementsEmpty

LEMMA StartLinks ==
  ASSUME OneSession, LinkInv, OwnInv, NEW c \in Clients, Start(c)
  PROVE  LinkInv' /\ OwnInv'
<1>1. /\ link[c] = "off" /\ sockets' = sockets \cup {c}
      /\ UNCHANGED <<tables, name, unread, toServer, toClient, window, login, box, held, history>>
      /\ link'[c] = "on" /\ \A d \in Clients : d # c => link'[d] = link[d]
  BY DEF Start, OneSession, TypeOK
<1>2. \A d \in Clients : Up(d)' = Up(d) /\ Down(d)' = Down(d) /\ (LoggedIn(d)' <=> LoggedIn(d))
  BY <1>1 DEF Up, Down, LoggedIn
<1>3. Links(c)
  BY DEF LinkInv
<1>4. name[c] = NoName
  BY <1>1, <1>3 DEF Links, OneSession
<1>5. Own(c)' /\ OneLogin(c)'
  <2>1. ~LoggedIn(c) /\ DOMAIN Up(c) = {}
    BY <1>1, <1>3 DEF Links, LoggedIn, Elements
  <2>2. box[c][1] # "ask"
    BY <1>1, <1>3 DEF Links, NoBox
  <2>3. Elements(Down(c)) = {}
    BY <1>1, <1>3 DEF Links
  <2> QED
    BY <1>1, <1>2, <1>4, <2>1, <2>2, <2>3 DEF Own, OneLogin
<1>6. ASSUME NEW d \in Clients, d # c PROVE Links(d)' /\ (d \notin hasty => Own(d)' /\ OneLogin(d)')
  <2>1. Links(d) /\ (d \notin hasty => Own(d) /\ OneLogin(d))
    BY DEF LinkInv, OwnInv
  <2>2. Links(d)'
    BY <1>1, <1>2, <1>6, <2>1 DEF Links, history
  <2>3. Own(d) => Own(d)'
    BY <1>1, <1>2, <1>6 DEF Own
  <2>4. OneLogin(d) => OneLogin(d)'
    BY <1>1, <1>2, <1>6 DEF OneLogin
  <2> QED
    BY <2>1, <2>2, <2>3, <2>4
<1>7. Links(c)'
  BY <1>1, <1>2, <1>3 DEF Links, history
<1> QED
  BY <1>1, <1>5, <1>6, <1>7 DEF LinkInv, OwnInv, history

LEMMA QuitLinks ==
  ASSUME OneSession, LinkInv, OwnInv, NEW c \in Clients, Quit(c)
  PROVE  LinkInv' /\ OwnInv'
<1>0. TypeOK
  BY DEF OneSession
<1>1. /\ link[c] = "on" /\ link'[c] = "gone" /\ window'[c] = "login" /\ box'[c] = NoBox
      /\ held'[c] = <<>> /\ toClient'[c] = <<>>
      /\ UNCHANGED <<tables, serverVars, toServer, history>>
  BY <1>0 DEF Quit, TypeOK
<1>2. \A d \in Clients : d # c =>
        /\ link'[d] = link[d] /\ window'[d] = window[d] /\ box'[d] = box[d] /\ login'[d] = login[d]
        /\ held'[d] = held[d] /\ toClient'[d] = toClient[d]
  BY <1>0 DEF Quit, TypeOK
<1>3. \A d \in Clients : Up(d)' = Up(d) /\ (d # c => Down(d)' = Down(d) /\ (LoggedIn(d)' <=> LoggedIn(d)))
  BY <1>1, <1>2 DEF Up, Down, LoggedIn, serverVars
<1>4. Elements(Down(c)') = {}
  BY <1>1, EmptyQueues DEF Down
<1>5. ASSUME NEW d \in Clients PROVE Links(d)' /\ (d \notin hasty => Own(d)' /\ OneLogin(d)')
  <2>1. Links(d) /\ (d \notin hasty => Own(d) /\ OneLogin(d))
    BY DEF LinkInv, OwnInv
  <2>2. Links(d)'
    BY <1>1, <1>2, <1>3, <1>4, <2>1 DEF Links, history, serverVars
  <2>3. Own(d) => Own(d)'
    BY <1>1, <1>2, <1>3 DEF Own, serverVars
  <2>4. OneLogin(d) => OneLogin(d)'
    BY <1>1, <1>2, <1>3 DEF OneLogin, serverVars
  <2> QED
    BY <2>1, <2>2, <2>3, <2>4
<1> QED
  BY <1>1, <1>5 DEF LinkInv, OwnInv, history

LEMMA OfflineLinks ==
  ASSUME OneSession, LinkInv, OwnInv, NEW c \in Clients, ClientOffline(c)
  PROVE  LinkInv' /\ OwnInv'
<1>0. TypeOK
  BY DEF OneSession
<1>1. /\ link[c] = "gone" /\ link'[c] = "off" /\ name'[c] = NoName
      /\ unread'[c] = <<>> /\ toServer'[c] = <<>> /\ sockets' = sockets \ {c} /\ hasty' = hasty \ {c}
      /\ UNCHANGED <<toClient, window, login, box, held>>
  BY <1>0 DEF ClientOffline, TypeOK
<1>2. \A d \in Clients : d # c =>
        /\ link'[d] = link[d] /\ name'[d] = name[d] /\ unread'[d] = unread[d]
        /\ toServer'[d] = toServer[d]
  BY <1>0 DEF ClientOffline, TypeOK
<1>3. \A d \in Clients : Down(d)' = Down(d) /\ (d # c => Up(d)' = Up(d)) /\ (LoggedIn(d)' <=> LoggedIn(d))
  BY <1>1, <1>2 DEF Up, Down, LoggedIn
<1>4. Elements(Up(c)') = {} /\ DOMAIN Up(c)' = {}
  BY <1>1, EmptyQueues DEF Up, Elements
<1>5. ASSUME NEW d \in Clients PROVE Links(d)' /\ (d \notin hasty' => Own(d)' /\ OneLogin(d)')
  <2>1. Links(d) /\ (d \notin hasty => Own(d) /\ OneLogin(d))
    BY DEF LinkInv, OwnInv
  <2>2. CASE d = c
    BY <1>1, <1>3, <1>4, <2>1, <2>2 DEF Links, Own, OneLogin
  <2>3. CASE d # c
    <3>1. d \in hasty' <=> d \in hasty
      BY <1>1, <2>3
    <3>2. Links(d)'
      BY <1>1, <1>2, <1>3, <2>1, <2>3, <3>1 DEF Links
    <3>3. Own(d) => Own(d)'
      BY <1>1, <1>2, <1>3, <2>3 DEF Own
    <3>4. OneLogin(d) => OneLogin(d)'
      BY <1>1, <1>2, <1>3, <2>3 DEF OneLogin
    <3> QED
      BY <2>1, <3>1, <3>2, <3>3, <3>4
  <2> QED
    BY <2>2, <2>3
<1> QED
  BY <1>5 DEF LinkInv, OwnInv

LEMMA CrashLinks ==
  ASSUME Crash
  PROVE  LinkInv' /\ OwnInv'
<1>1. ASSUME NEW d \in Clients
      PROVE  /\ link'[d] = "off" /\ window'[d] = "login" /\ box'[d] = NoBox
             /\ held'[d] = <<>> /\ toClient'[d] = <<>> /\ unread'[d] = <<>> /\ toServer'[d] = <<>>
             /\ name'[d] = NoName
  BY DEF Crash
<1>2. ASSUME NEW d \in Clients PROVE Elements(Up(d)') = {} /\ Elements(Down(d)') = {}
  BY <1>1, EmptyQueues DEF Up, Down
<1>3. ASSUME NEW d \in Clients PROVE Links(d)' /\ Own(d)' /\ OneLogin(d)'
  <2>1. DOMAIN Up(d)' = {}
    BY <1>2 DEF Elements
  <2>2. sockets' = {} /\ hasty' = {}
    BY DEF Crash
  <2>3. Links(d)'
    BY <1>1, <1>2, <2>2 DEF Links
  <2>4. Own(d)'
    BY <1>1 DEF Own
  <2>5. OneLogin(d)'
    BY <2>1 DEF OneLogin
  <2> QED
    BY <2>3, <2>4, <2>5
<1> QED
  BY <1>3 DEF LinkInv, OwnInv

LEMMA InitLinks == Init => LinkInv /\ OwnInv
<1> SUFFICES ASSUME Init PROVE LinkInv /\ OwnInv
  OBVIOUS
<1>1. ASSUME NEW d \in Clients
      PROVE  /\ link[d] = "off" /\ window[d] = "login" /\ box[d] = NoBox
             /\ held[d] = <<>> /\ toClient[d] = <<>> /\ unread[d] = <<>> /\ toServer[d] = <<>>
  BY DEF Init
<1>2. ASSUME NEW d \in Clients PROVE Elements(Up(d)) = {} /\ Elements(Down(d)) = {}
  BY <1>1, EmptyQueues DEF Up, Down
<1>3. ASSUME NEW d \in Clients PROVE Links(d) /\ Own(d) /\ OneLogin(d)
  <2>1. DOMAIN Up(d) = {}
    BY <1>2 DEF Elements
  <2> QED
    BY <1>1, <1>2, <2>1 DEF Init, Links, Own, OneLogin
<1> QED
  BY <1>3 DEF LinkInv, OwnInv

\* Every step is one of a few kinds.
LEMMA StepKinds ==
  ASSUME TypeOK, Next
  PROVE  \/ Crash
         \/ \E c \in Clients : \/ Start(c) \/ Quit(c) \/ ClientOffline(c) \/ Moved(c)
                               \/ \E pdu \in Requests : Handled(c, pdu)
<1>1. ASSUME NEW c \in Clients, Server(c)
      PROVE  ClientOffline(c) \/ \E pdu \in Requests : Handled(c, pdu)
  BY <1>1, ServerHandles
<1>2. ASSUME NEW c \in Clients, User(c) PROVE Start(c) \/ Quit(c) \/ Moved(c)
  BY <1>2, ButtonMoves, CloseMoves DEF User
<1>3. ASSUME NEW c \in Clients, Client(c) PROVE Moved(c)
  BY <1>3, GetMoves, SilentMoves DEF Client
<1> QED
  BY <1>1, <1>2, <1>3 DEF Next

LEMMA StutterQueues ==
  ASSUME UNCHANGED vars, NEW d
  PROVE  Up(d)' = Up(d) /\ Down(d)' = Down(d)
  BY DEF vars, serverVars, clientVars, Up, Down

LEMMA NextOwn ==
  ASSUME OneSession, LinkInv, OwnInv, [Next]_vars
  PROVE  LinkInv' /\ OwnInv'
<1>0. TypeOK
  BY DEF OneSession
<1>1. CASE UNCHANGED vars
  <2>1. ASSUME NEW d \in Clients PROVE Up(d)' = Up(d) /\ Down(d)' = Down(d)
    BY <1>1, StutterQueues
  <2>2. UNCHANGED <<sockets, name, link, window, login, box, hasty>>
    BY <1>1 DEF vars, serverVars, clientVars, history
  <2>3. ASSUME NEW d \in Clients
        PROVE  /\ Links(d) => Links(d)'
               /\ OneLogin(d) => OneLogin(d)'
               /\ Own(d) => Own(d)'
    <3>1. Links(d) => Links(d)'
      BY <2>1, <2>2 DEF Links
    <3>2. OneLogin(d) => OneLogin(d)'
      BY <2>1, <2>2 DEF OneLogin
    <3>3. Own(d) => Own(d)'
      BY <2>1, <2>2 DEF Own, LoggedIn
    <3> QED
      BY <3>1, <3>2, <3>3
  <2> QED
    BY <2>2, <2>3 DEF LinkInv, OwnInv
<1>2. CASE Next
  BY <1>0, <1>2, StepKinds, StartLinks, QuitLinks, OfflineLinks, CrashLinks, HandledLinks,
     HandledOwn, MovedLinks, MovedOwn
<1> QED
  BY <1>1, <1>2

SessionInv == OneSession /\ LinkInv /\ OwnInv

LEMMA SessionInvariance == Spec => []SessionInv
<1>1. Init => SessionInv
  BY InitSession, InitLinks DEF SessionInv
<1>2. SessionInv /\ [Next]_vars => SessionInv'
  BY NextSession, NextOwn DEF SessionInv
<1> QED
  BY <1>1, <1>2, PTL DEF Spec

\* For any users, clients and bounds: whoever clicks login only once the
\* previous one was answered acts in the main window under the name of his
\* session, because the name his client keeps is changed only while his socket
\* has none (MyTcpSocket::recvMsg's LOGIN_REQUEST, TcpClient::on_login_pb_clicked).
THEOREM ClientActsAsItsSession == Spec => []ClientIsItsSession
<1>1. SessionInv => ClientIsItsSession
  BY DEF SessionInv, OwnInv, Own, LoggedIn, ClientIsItsSession
<1> QED
  BY <1>1, SessionInvariance, PTL

-----------------------------------------------------------------------------
(* Friends.                                                                *)

AskedOf(c, p, n) ==
  \/ Pdu("add", p, n) \in Elements(Down(c))
  \/ box[c] = <<"ask", p, n>>
  \/ Pdu("agree", p, n) \in Elements(Up(c))

\* A yes on its way to the server was said by the client of who was asked.
YesSaid ==
  \A c \in Clients : \A p \in Elements(Up(c)) : p.type = "agree" => <<p.x, p.y>> \in consent

\* A request whose opposite is under way too, or granted already, has crossed it.
Crossing ==
  \A p, n \in Names :
    Asked(p, n) /\ p # n /\ (<<n, p>> \in friendInfo \/ Asked(n, p)) => {p, n} \in crossed

FriendInv == YesSaid /\ Crossing /\ FriendsAgreed

LEMMA AskedMeans == \A p, n : Asked(p, n) <=> \E c \in Clients : AskedOf(c, p, n)
  BY DEF Asked, AskedOf, Up, Down

LEMMA AskedMeansNext == \A p, n : Asked(p, n)' <=> \E c \in Clients : AskedOf(c, p, n)'
  BY DEF Asked, AskedOf, Up, Down

LEMMA PduFields ==
  /\ \A t, x, y : /\ Pdu(t, x, y).type = t /\ Pdu(t, x, y).x = x /\ Pdu(t, x, y).y = y
  /\ \A a \in Answers \cup Requests : a = Pdu(a.type, a.x, a.y)
  BY DEF Pdu, Answers, Requests

\* Steps that ask nobody anew and make nobody friends.
LEMMA NoNewFriends ==
  ASSUME Crossing, FriendsAgreed, \A p, n \in Names : Asked(p, n)' => Asked(p, n),
         friendInfo' \subseteq friendInfo, consent \subseteq consent', crossed \subseteq crossed'
  PROVE  Crossing' /\ FriendsAgreed'
<1>1. Crossing'
  BY DEF Crossing
<1>2. FriendsAgreed'
  BY DEF FriendsAgreed
<1> QED
  BY <1>1, <1>2

LEMMA HandledFriends ==
  ASSUME TypeOK, FriendInv, NEW c \in Clients, NEW pdu \in Requests, Handled(c, pdu)
  PROVE  FriendInv'
<1>1. /\ Reads(c, pdu) /\ UNCHANGED <<box, consent>> /\ crossed \subseteq crossed'
      /\ friendInfo' \subseteq friendInfo \cup (IF pdu.type = "agree" THEN {<<pdu.x, pdu.y>>} ELSE {})
  BY DEF Handled, Reads, clientVars
<1>2. /\ Up(c) # <<>> /\ pdu = Head(Up(c)) /\ Up(c)' = Tail(Up(c))
      /\ \A e \in Clients : e # c => Up(e)' = Up(e)
  BY <1>1, ReadsFirst
<1>3. Elements(Up(c)) = Elements(Up(c)') \cup {pdu}
  BY <1>2, QueuesTyped, TailMembers
<1>4. \A d \in Clients : Elements(Up(d)') \subseteq Elements(Up(d))
  BY <1>2, <1>3
<1>5. YesSaid'
  BY <1>1, <1>4 DEF FriendInv, YesSaid
<1>6. ASSUME NEW p, NEW n, Asked(p, n)'
      PROVE  \/ Asked(p, n)
             \/ /\ pdu.type = "add" /\ p = pdu.x /\ n = pdu.y
                /\ <<p, n>> \notin friendInfo /\ <<n, p>> \notin friendInfo
                /\ Asked(n, p) => {p, n} \in crossed'
  <2>1. PICK d \in Clients : AskedOf(d, p, n)'
    BY <1>6, AskedMeansNext
  <2>2. CASE AskedOf(d, p, n)
    BY <2>2, AskedMeans
  <2>3. CASE ~AskedOf(d, p, n)
    <3> DEFINE a == Pdu("add", p, n)
    <3>1. a \in Elements(Down(d)') \ Elements(Down(d))
      BY <1>1, <1>4, <2>1, <2>3 DEF AskedOf
    <3>2. a.type = "add" /\ a.x = p /\ a.y = n
      BY PduFields
    <3> HIDE DEF a
    <3>3. NewAnswer(c, pdu, d, a)
      BY <3>1 DEF Handled
    <3> QED
      BY <3>2, <3>3 DEF NewAnswer
  <2> QED
    BY <2>2, <2>3
<1>7. CASE pdu.type = "agree"
  <2>1. pdu \in Elements(Up(c)) /\ pdu.x \in Names /\ pdu.y \in Names
    BY <1>3, <1>7, RequestFields
  <2>2. <<pdu.x, pdu.y>> \in consent
    BY <1>7, <2>1 DEF FriendInv, YesSaid
  <2>3. Asked(pdu.x, pdu.y)
    <3>1. AskedOf(c, pdu.x, pdu.y)
      BY <1>7, <2>1, PduFields DEF AskedOf
    <3> QED
      BY <3>1, AskedMeans
  <2>4. \A p, n : Asked(p, n)' => Asked(p, n)
    BY <1>6, <1>7
  <2>5. Crossing'
    <3> SUFFICES ASSUME NEW p \in Names, NEW n \in Names, Asked(p, n)', p # n,
                        <<n, p>> \in friendInfo' \/ Asked(n, p)'
                 PROVE  {p, n} \in crossed'
      BY DEF Crossing
    <3>1. Asked(p, n) /\ (Asked(n, p)' => Asked(n, p))
      BY <2>4
    <3>2. <<n, p>> \in friendInfo \/ Asked(n, p)
      BY <1>1, <1>7, <2>3, <3>1
    <3> QED
      BY <1>1, <3>1, <3>2 DEF FriendInv, Crossing
  <2>6. FriendsAgreed'
    <3>1. friendInfo' \subseteq consent'
      BY <1>1, <1>7, <2>2 DEF FriendInv, FriendsAgreed
    <3>2. ASSUME NEW p \in Users, NEW n \in Users, <<p, n>> \in friendInfo', <<n, p>> \in friendInfo',
                 p # n
          PROVE  {p, n} \in crossed'
      <4>0. p \in Names /\ n \in Names /\ {p, n} = {n, p}
        BY DEF Names
      <4>1. CASE <<p, n>> \in friendInfo /\ <<n, p>> \in friendInfo
        BY <1>1, <3>2, <4>1 DEF FriendInv, FriendsAgreed
      <4>2. CASE <<p, n>> \notin friendInfo
        <5>1. Asked(p, n) /\ <<n, p>> \in friendInfo
          BY <1>1, <1>7, <2>3, <3>2, <4>2
        <5> QED
          BY <1>1, <3>2, <4>0, <5>1 DEF FriendInv, Crossing
      <4>3. CASE <<n, p>> \notin friendInfo
        <5>1. Asked(n, p) /\ <<p, n>> \in friendInfo
          BY <1>1, <1>7, <2>3, <3>2, <4>3
        <5>2. {n, p} \in crossed
          BY <3>2, <4>0, <5>1 DEF FriendInv, Crossing
        <5> QED
          BY <1>1, <4>0, <5>2
      <4> QED
        BY <4>1, <4>2, <4>3
    <3> QED
      BY <3>1, <3>2 DEF FriendsAgreed
  <2> QED
    BY <1>5, <2>5, <2>6 DEF FriendInv
<1>8. CASE pdu.type # "agree"
  <2>1. friendInfo' \subseteq friendInfo
    BY <1>1, <1>8
  <2>2. FriendsAgreed'
    BY <1>1, <2>1 DEF FriendInv, FriendsAgreed
  <2>3. Crossing'
    <3> SUFFICES ASSUME NEW p \in Names, NEW n \in Names, Asked(p, n)', p # n,
                        <<n, p>> \in friendInfo' \/ Asked(n, p)'
                 PROVE  {p, n} \in crossed'
      BY DEF Crossing
    <3>0. {p, n} = {n, p}
      OBVIOUS
    <3>1. CASE Asked(p, n) /\ (<<n, p>> \in friendInfo \/ Asked(n, p))
      BY <1>1, <3>1 DEF FriendInv, Crossing
    <3>2. CASE ~Asked(p, n)
      <4>0. Asked(p, n)'
        OBVIOUS
      <4>1. /\ p = pdu.x /\ n = pdu.y /\ <<n, p>> \notin friendInfo
            /\ Asked(n, p) => {p, n} \in crossed'
        <5>1. \A x, y : Asked(x, y)' /\ ~Asked(x, y) =>
                /\ x = pdu.x /\ y = pdu.y /\ <<y, x>> \notin friendInfo
                /\ Asked(y, x) => {x, y} \in crossed'
          BY ONLY <1>6
        <5> QED
          BY <4>0, <3>2, <5>1
      <4>2. Asked(n, p)'
        BY <2>1, <4>1
      <4>3. Asked(n, p) \/ n = pdu.x
        BY <1>6, <4>2
      <4> QED
        BY <4>1, <4>3
    <3>3. CASE Asked(p, n) /\ <<n, p>> \notin friendInfo /\ ~Asked(n, p)
      <4>1. Asked(n, p)'
        BY <2>1, <3>3
      <4>2. Asked(p, n) => {n, p} \in crossed'
        BY <1>6, <3>3, <4>1
      <4> QED
        BY <3>0, <3>3, <4>2
    <3> QED
      BY <3>1, <3>2, <3>3
  <2> QED
    BY <1>5, <2>2, <2>3 DEF FriendInv
<1> QED
  BY <1>7, <1>8

LEMMA MovedFriends ==
  ASSUME TypeOK, OwnInv, FriendInv, NEW c \in Clients, Moved(c)
  PROVE  FriendInv'
<1>1. /\ UNCHANGED <<friendInfo, crossed>> /\ consent \subseteq consent' /\ link[c] = "on"
      /\ \A d \in Clients : d # c => Up(d)' = Up(d) /\ Down(d)' = Down(d) /\ box'[d] = box[d]
      /\ Elements(Down(c)') \subseteq Elements(Down(c))
  BY DEF Moved, Apart
<1>2. ASSUME NEW p \in Elements(Up(c)') \ Elements(Up(c)), p.type = "agree"
      PROVE  /\ box[c] = <<"ask", p.x, p.y>>
             /\ <<IF c \in hasty THEN p.x ELSE login[c], p.y>> \in consent'
  <2>1. PICK q \in Requests : Up(c)' = Append(Up(c), q) /\ MaySend(c, q)
    BY <1>2 DEF Moved
  <2>2. Elements(Up(c)') = Elements(Up(c)) \cup {q}
    BY <2>1, QueuesTyped, ElementsAppend
  <2> QED
    BY <1>2, <2>1, <2>2 DEF MaySend
<1>3. YesSaid'
  <2> SUFFICES ASSUME NEW d \in Clients, NEW p \in Elements(Up(d)'), p.type = "agree"
               PROVE  <<p.x, p.y>> \in consent'
    BY DEF YesSaid
  <2>1. CASE p \in Elements(Up(d))
    BY <1>1, <2>1 DEF FriendInv, YesSaid
  <2>2. CASE p \notin Elements(Up(d))
    <3>1. d = c
      BY <1>1, <2>2
    <3>2. /\ box[c] = <<"ask", p.x, p.y>>
          /\ <<IF c \in hasty THEN p.x ELSE login[c], p.y>> \in consent'
      BY <1>2, <2>2, <3>1
    <3>3. c \notin hasty => login[c] = p.x
      BY <1>1, <3>2 DEF OwnInv, Own
    <3> QED
      BY <3>2, <3>3
  <2> QED
    BY <2>1, <2>2
<1>4. ASSUME NEW p, NEW n, Asked(p, n)' PROVE Asked(p, n)
  <2>1. PICK d \in Clients : AskedOf(d, p, n)'
    BY <1>4, AskedMeansNext
  <2>2. AskedOf(d, p, n)
    <3>1. CASE d # c
      BY <1>1, <2>1, <3>1 DEF AskedOf
    <3>2. CASE d = c /\ Pdu("add", p, n) \in Elements(Down(c)')
      BY <1>1, <3>2 DEF AskedOf
    <3>3. CASE d = c /\ box'[c] = <<"ask", p, n>>
      <4>1. CASE box'[c] = box[c]
        BY <3>3, <4>1 DEF AskedOf
      <4>2. CASE box'[c] # box[c]
        <5>1. PICK a \in Elements(Down(c)) : a \in Answers /\ a.type = "add" /\ box'[c] = <<"ask", a.x, a.y>>
          BY <3>3, <4>2 DEF Moved
        <5>2. a = Pdu("add", p, n)
          BY <3>3, <5>1, PduFields
        <5> QED
          BY <3>3, <5>1, <5>2 DEF AskedOf
      <4> QED
        BY <4>1, <4>2
    <3>4. CASE d = c /\ Pdu("agree", p, n) \in Elements(Up(c)')
      <4>1. CASE Pdu("agree", p, n) \in Elements(Up(c))
        BY <3>4, <4>1 DEF AskedOf
      <4>2. CASE Pdu("agree", p, n) \notin Elements(Up(c))
        <5> DEFINE a == Pdu("agree", p, n)
        <5>1. a.type = "agree" /\ a.x = p /\ a.y = n
          BY PduFields
        <5>2. a \in Elements(Up(c)') \ Elements(Up(c))
          BY <3>4, <4>2
        <5> HIDE DEF a
        <5>3. box[c] = <<"ask", p, n>>
          BY <1>2, <5>1, <5>2
        <5> QED
          BY <3>4, <5>3 DEF AskedOf
      <4> QED
        BY <4>1, <4>2
    <3> QED
      BY <2>1, <3>1, <3>2, <3>3, <3>4 DEF AskedOf
  <2> QED
    BY <2>2, AskedMeans
<1> QED
  BY <1>1, <1>3, <1>4, NoNewFriends DEF FriendInv

\* Queues are lost and boxes closed, and nothing else happens to friends.
LEMMA LessFriends ==
  ASSUME FriendInv, UNCHANGED <<friendInfo, consent, crossed>>,
         \A d \in Clients : /\ Elements(Up(d)') \subseteq Elements(Up(d))
                            /\ Elements(Down(d)') \subseteq Elements(Down(d))
                            /\ box'[d] \in {box[d], NoBox}
  PROVE  FriendInv'
<1>1. YesSaid'
  BY DEF FriendInv, YesSaid
<1>2. ASSUME NEW p, NEW n, Asked(p, n)' PROVE Asked(p, n)
  <2>1. PICK d \in Clients : AskedOf(d, p, n)'
    BY <1>2, AskedMeansNext
  <2>2. NoBox # <<"ask", p, n>>
    BY DEF NoBox
  <2>3. AskedOf(d, p, n)
    BY <2>1, <2>2 DEF AskedOf
  <2> QED
    BY <2>3, AskedMeans
<1> QED
  BY <1>1, <1>2, NoNewFriends DEF FriendInv

LEMMA LifeFriends ==
  ASSUME TypeOK, FriendInv,
         Crash \/ \E c \in Clients : Start(c) \/ Quit(c) \/ ClientOffline(c)
  PROVE  FriendInv'
<1>1. UNCHANGED <<friendInfo, consent, crossed>>
  BY DEF Crash, Start, Quit, ClientOffline, tables, history
<1>2. ASSUME NEW d \in Clients
      PROVE  /\ Elements(Up(d)') \subseteq Elements(Up(d))
             /\ Elements(Down(d)') \subseteq Elements(Down(d))
             /\ box'[d] \in {box[d], NoBox}
  <2>1. CASE Crash
    <3>1. /\ held'[d] = <<>> /\ toClient'[d] = <<>> /\ unread'[d] = <<>> /\ toServer'[d] = <<>>
          /\ box'[d] = NoBox
      BY <2>1 DEF Crash
    <3> QED
      BY <3>1, EmptyQueues DEF Up, Down
  <2>2. ASSUME NEW c \in Clients, Start(c)
        PROVE  Up(d)' = Up(d) /\ Down(d)' = Down(d) /\ box'[d] = box[d]
    BY <2>2 DEF Start, Up, Down
  <2>3. ASSUME NEW c \in Clients, Quit(c)
        PROVE  /\ Up(d)' = Up(d)
               /\ Down(d)' = Down(d) \/ Down(d)' = <<>> \o <<>>
               /\ box'[d] \in {box[d], NoBox}
    BY <2>3 DEF Quit, Up, Down, TypeOK, serverVars, tables
  <2>4. ASSUME NEW c \in Clients, ClientOffline(c)
        PROVE  /\ Up(d)' = Up(d) \/ Up(d)' = <<>> \o <<>>
               /\ Down(d)' = Down(d) /\ box'[d] = box[d]
    BY <2>4 DEF ClientOffline, Up, Down, TypeOK
  <2> QED
    BY <2>1, <2>2, <2>3, <2>4, EmptyQueues
<1> QED
  BY <1>1, <1>2, LessFriends

LEMMA InitFriends == Init => FriendInv
<1> SUFFICES ASSUME Init PROVE FriendInv
  OBVIOUS
<1>1. ASSUME NEW d \in Clients PROVE Elements(Up(d)) = {} /\ Elements(Down(d)) = {} /\ box[d] = NoBox
  BY EmptyQueues DEF Init, Up, Down
<1>2. \A p, n : ~Asked(p, n)
  BY <1>1, AskedMeans DEF AskedOf, NoBox
<1> QED
  BY <1>1, <1>2 DEF Init, FriendInv, YesSaid, Crossing, FriendsAgreed

LEMMA NextFriends ==
  ASSUME SessionInv, FriendInv, [Next]_vars
  PROVE  FriendInv'
<1>0. TypeOK /\ OwnInv
  BY DEF SessionInv, OneSession
<1>1. CASE UNCHANGED vars
  <2>1. ASSUME NEW d \in Clients PROVE Up(d)' = Up(d) /\ Down(d)' = Down(d) /\ box'[d] = box[d]
    BY <1>1, StutterQueues DEF vars, clientVars
  <2>2. UNCHANGED <<friendInfo, consent, crossed>>
    BY <1>1 DEF vars, tables, history
  <2> QED
    BY <2>1, <2>2, LessFriends
<1>2. CASE Next
  BY <1>0, <1>2, StepKinds, HandledFriends, MovedFriends, LifeFriends
<1> QED
  BY <1>1, <1>2

\* For any users, clients and bounds: friends agreed.  The client of the one
\* who was asked said yes, and they are in the table once unless two requests
\* crossed: a request is forwarded only between two who are not friends, so
\* that both directions need both requests under way (MyTcpSocket::recvMsg's
\* ADD_FRIEND_REQUEST and ADD_FRIEND_AGGREE over OpeDB::handleAddFriendAgree).
THEOREM FriendsHaveAgreed == Spec => []FriendsAgreed
<1>1. Init => FriendInv
  BY InitFriends
<1>2. SessionInv /\ FriendInv /\ [Next]_vars => FriendInv'
  BY NextFriends
<1>3. FriendInv => FriendsAgreed
  BY DEF FriendInv
<1> QED
  BY <1>1, <1>2, <1>3, SessionInvariance, PTL DEF Spec

-----------------------------------------------------------------------------
(* Stranded users.                                                         *)

\* The steps that change who is online or who has a session.
LEMMA SessionSteps ==
  ASSUME [Next]_vars
  PROVE  \/ UNCHANGED <<online, sockets, name>> \/ Crash
         \/ \E c \in Clients : HandleLogin(c) \/ ClientOffline(c) \/ Start(c)
<1> DEFINE Same == UNCHANGED <<online, sockets, name>>
<1>1. ASSUME NEW c \in Clients, Server(c) PROVE Same \/ HandleLogin(c) \/ ClientOffline(c)
  <2>1. CASE HandleRegist(c) \/ HandleDelete(c)
    BY <2>1 DEF HandleRegist, HandleDelete, Reads
  <2>2. CASE HandleAgree(c)
    <3>1. UNCHANGED <<online, name>> /\ \E pdu : Reads(c, pdu)
      BY <2>2 DEF HandleAgree
    <3> QED
      BY <3>1 DEF Reads
  <2>3. CASE HandleAddFriend(c) \/ HandleRefuse(c) \/ HandleFlush(c) \/ HandleChat(c)
    <3>1. UNCHANGED <<tables, name>> /\ \E pdu : Reads(c, pdu)
      BY <2>3 DEF HandleAddFriend, HandleRefuse, HandleFlush, HandleChat
    <3> QED
      BY <3>1 DEF Reads, tables
  <2> QED
    BY <1>1, <2>1, <2>2, <2>3 DEF Server
<1>2. ASSUME NEW c \in Clients, User(c) PROVE Same \/ Start(c)
  <2>1. CASE Quit(c) \/ CloseBox(c) \/ ClickLoginBlank(c)
    BY <2>1 DEF Quit, CloseBox, ClickLoginBlank, tables, serverVars
  <2>2. CASE ClickLogin(c) \/ ClickRegist(c) \/ ClickFlush(c) \/ ClickAdd(c)
             \/ ClickDelete(c) \/ ClickChat(c)
    <3>1. \E where, pdu : Clicks(c, where, pdu)
      BY <2>2 DEF ClickLogin, ClickRegist, ClickFlush, ClickAdd, ClickDelete, ClickChat
    <3> QED
      BY <3>1 DEF Clicks, tables, serverVars
  <2> QED
    BY <1>2, <2>1, <2>2 DEF User
<1>3. ASSUME NEW c \in Clients, Client(c) PROVE Same
  <2>1. CASE ArriveSilently(c)
    BY <2>1 DEF ArriveSilently, tables, serverVars
  <2>2. CASE GetLoginOk(c) \/ GetBox(c) \/ GetAdd(c) \/ GetAdded(c) \/ GetNote(c) \/ GetFriends(c)
    <3>1. \E pdu : Gets(c, pdu)
      BY <2>2 DEF GetLoginOk, GetBox, GetAdd, GetAdded, GetNote, GetFriends
    <3> QED
      BY <3>1 DEF Gets, tables, serverVars
  <2> QED
    BY <1>3, <2>1, <2>2 DEF Client
<1>4. CASE UNCHANGED vars
  BY <1>4 DEF vars, tables, serverVars
<1> QED
  BY <1>1, <1>2, <1>3, <1>4 DEF Next

LEMMA StrandedStep ==
  ASSUME SessionInv, crashes \in Nat, [Next]_vars
  PROVE  /\ Stranded \subseteq Stranded'
         /\ \A u \in Stranded' \ Stranded : crashes' > crashes \/ \E c \in hasty : name[c] = u
<1>0. OneSession /\ TypeOK /\ OwnInv
  BY DEF SessionInv, OneSession
<1>1. CASE UNCHANGED <<online, sockets, name>>
  BY <1>1 DEF Stranded
<1>2. CASE Crash
  <2>1. crashes' > crashes /\ online' = online /\ sockets' = {}
    BY <1>2 DEF Crash, tables
  <2> QED
    BY <2>1 DEF Stranded
<1>3. ASSUME NEW c \in Clients, HandleLogin(c)
      PROVE  /\ Stranded \subseteq Stranded'
             /\ \A u \in Stranded' \ Stranded : \E d \in hasty : name[d] = u
  <2>1. PICK pdu : /\ pdu.type = "login" /\ Reads(c, pdu)
                   /\ \/ /\ pdu.x \notin online /\ online' = online \cup {pdu.x}
                         /\ name' = [name EXCEPT ![c] = pdu.x]
                      \/ UNCHANGED <<online, name>>
    BY <1>3 DEF HandleLogin, MayLogin
  <2>2. sockets' = sockets /\ c \in sockets
    BY <2>1 DEF Reads
  <2>3. CASE UNCHANGED <<online, name>>
    BY <2>2, <2>3 DEF Stranded
  <2>4. CASE /\ pdu.x \notin online /\ online' = online \cup {pdu.x}
             /\ name' = [name EXCEPT ![c] = pdu.x]
    <3>1. \A d \in sockets : name'[d] = IF d = c THEN pdu.x ELSE name[d]
      BY <1>0, <2>4 DEF TypeOK
    <3>2. Stranded \subseteq Stranded'
      BY <2>2, <2>4, <3>1 DEF Stranded
    <3>3. ASSUME NEW u \in Stranded' \ Stranded PROVE u = name[c] /\ u # NoName
      <4>1. u \in online' /\ \A d \in sockets : name'[d] # u
        BY <2>2, <3>3 DEF Stranded
      <4>2. u # pdu.x
        BY <2>2, <3>1, <4>1
      <4>3. u \in online
        BY <2>4, <4>1, <4>2
      <4>4. PICK d \in sockets : name[d] = u
        BY <3>3, <4>3 DEF Stranded
      <4>5. d = c
        BY <3>1, <4>1, <4>4
      <4>6. u # NoName
        BY <1>0, <4>3, NameAssumption DEF TypeOK
      <4> QED
        BY <4>4, <4>5, <4>6
    <3>4. c \notin hasty => name[c] = NoName
      <4>1. /\ Up(c) # <<>> /\ pdu = Head(Up(c))
        BY <1>0, <2>1, ReadsFirst
      <4>2. 1 \in DOMAIN Up(c) /\ pdu = Up(c)[1]
        BY <1>0, <4>1, QueuesTyped, TailMembers
      <4> QED
        BY <1>0, <2>1, <4>2 DEF OwnInv, OneLogin
    <3> QED
      BY <3>2, <3>3, <3>4
  <2> QED
    BY <2>1, <2>3, <2>4
<1>4. ASSUME NEW c \in Clients, ClientOffline(c)
      PROVE  Stranded = Stranded'
  <2>1. /\ c \in sockets /\ online' = online \ {name[c]} /\ sockets' = sockets \ {c}
        /\ name' = [name EXCEPT ![c] = NoName]
    BY <1>4 DEF ClientOffline, GoOffline
  <2>2. \A d \in sockets' : d \in sockets /\ name'[d] = name[d]
    BY <1>0, <2>1 DEF TypeOK
  <2> QED
    BY <2>1, <2>2 DEF Stranded
<1>5. ASSUME NEW c \in Clients, Start(c)
      PROVE  Stranded = Stranded'
  <2>1. sockets' = sockets \cup {c} /\ UNCHANGED <<online, name>>
    BY <1>5 DEF Start, tables
  <2>2. c \in sockets \/ name[c] = NoName
    BY <1>0 DEF OneSession
  <2>3. NoName \notin online
    BY <1>0, NameAssumption DEF TypeOK
  <2> QED
    BY <2>1, <2>2, <2>3 DEF Stranded
<1> QED
  BY <1>1, <1>2, <1>3, <1>4, <1>5, SessionSteps

CrashesNat == crashes \in Nat

LEMMA CrashesCount == Spec => [](CrashesNat)
<1>1. Init => CrashesNat
  BY DEF Init, CrashesNat
<1>2. CrashesNat /\ [Next]_vars => CrashesNat'
  <2> SUFFICES ASSUME CrashesNat, [Next]_vars PROVE CrashesNat'
    OBVIOUS
  <2>1. CASE Crash
    BY <2>1 DEF Crash, CrashesNat
  <2>2. ASSUME NEW c \in Clients, Server(c) PROVE crashes' = crashes
    <3>1. CASE ClientOffline(c)
      BY <3>1 DEF ClientOffline, counters
    <3>2. CASE ~ClientOffline(c)
      <4>1. \E pdu : Reads(c, pdu)
        BY <2>2, <3>2 DEF Server, HandleRegist, HandleLogin, HandleAddFriend, HandleAgree,
           HandleRefuse, HandleFlush, HandleDelete, HandleChat
      <4> QED
        BY <4>1 DEF Reads, counters
    <3> QED
      BY <3>1, <3>2
  <2>3. ASSUME NEW c \in Clients, User(c) PROVE crashes' = crashes
    <3>1. CASE Start(c) \/ Quit(c) \/ CloseBox(c) \/ ClickLoginBlank(c)
      BY <3>1 DEF Start, Quit, CloseBox, ClickLoginBlank, counters
    <3>2. CASE ClickLogin(c) \/ ClickRegist(c) \/ ClickFlush(c) \/ ClickAdd(c)
               \/ ClickDelete(c) \/ ClickChat(c)
      <4>1. \E where, pdu : Clicks(c, where, pdu)
        BY <3>2 DEF ClickLogin, ClickRegist, ClickFlush, ClickAdd, ClickDelete, ClickChat
      <4> QED
        BY <4>1 DEF Clicks
    <3> QED
      BY <2>3, <3>1, <3>2 DEF User
  <2>4. ASSUME NEW c \in Clients, Client(c) PROVE crashes' = crashes
    <3>1. CASE ArriveSilently(c)
      BY <3>1 DEF ArriveSilently, counters
    <3>2. CASE ~ArriveSilently(c)
      <4>1. \E pdu : Gets(c, pdu)
        BY <2>4, <3>2 DEF Client, GetLoginOk, GetBox, GetAdd, GetAdded, GetNote, GetFriends
      <4> QED
        BY <4>1 DEF Gets, counters
    <3> QED
      BY <3>1, <3>2
  <2>5. CASE UNCHANGED vars
    BY <2>5 DEF vars, counters, CrashesNat
  <2> QED
    BY <2>1, <2>2, <2>3, <2>4, <2>5 DEF Next, CrashesNat, vars, counters
<1> QED
  BY <1>1, <1>2, PTL DEF Spec

\* Once a row says online without a session, no step of the server, of a client
\* or of a user frees it (the only resets are handleOffline's, for a socket's
\* own name); and it comes to that only by a restart of the server, or by a
\* second login on a socket whose client did not wait for the answer to the
\* first (MyTcpSocket::recvMsg overwrites m_strName).
THEOREM LockedOutForGood == Spec => LockedOut
<1>1. SessionInv /\ CrashesNat /\ [Next]_vars =>
        [/\ Stranded \subseteq Stranded'
         /\ \A u \in Stranded' \ Stranded :
              crashes' > crashes \/ \E c \in hasty : name[c] = u]_vars
  BY StrandedStep DEF CrashesNat
<1> QED
  BY <1>1, SessionInvariance, CrashesCount, PTL DEF Spec, LockedOut
=============================================================================
