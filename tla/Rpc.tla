-------------------------------- MODULE Rpc ---------------------------------
(***************************************************************************)
(* ql_rpc: providers that publish one method through zookeeper and serve   *)
(* it, and callers that look it up, connect and wait for the answer.       *)
(*                                                                         *)
(* zookeeper (external) keeps the permanent node of the service and the    *)
(* ephemeral node of the method, which holds the address of the provider   *)
(* that made it and goes with that provider's session: up to 30 s after    *)
(* its process.  A provider keeps its address over restarts.               *)
(***************************************************************************)
EXTENDS Naturals, Sequences

CONSTANTS Providers, Callers,
          MaxStarts,   \* bound: provider processes ever started
          MaxTrouble   \* bound: zookeeper failures seen by a live provider

VARIABLES provider,  \* [p] where its process is, and its zookeeper session
          owner,     \* [s] the provider of session s
          service,   \* the node /service is there
          method,    \* the session that made /service/method, 0: no such node
          trouble,
          skipped,   \* history: [p] its Create left the method's node alone
          expired,   \* [p] its session ended while it ran
          call       \* [c] the caller's CallMethod and its connection

rpcVars == <<provider, owner, service, method, trouble, skipped, expired, call>>
registry == <<owner, service, method, trouble, skipped, expired>>

Session(p) == provider[p].session
To(p, pc) == provider' = [provider EXCEPT ![p].pc = pc]

(***************************************************************************)
(* RpcProvider::Run: register the service, then its method, then serve.    *)
(***************************************************************************)
Start(p) ==
  /\ provider[p].pc = "down" /\ Len(owner) < MaxStarts
  /\ owner' = Append(owner, p)
  /\ provider' = [provider EXCEPT ![p] = [pc |-> "service?", session |-> Len(owner) + 1]]
  /\ skipped' = [skipped EXCEPT ![p] = FALSE]
  /\ expired' = [expired EXCEPT ![p] = FALSE]
  /\ UNCHANGED <<service, method, trouble, call>>

\* zoo_exists fails with something else than ZNONODE: Create takes the node to
\* be there.
Unanswered(p) == \/ expired[p] /\ UNCHANGED trouble
                 \/ trouble < MaxTrouble /\ trouble' = trouble + 1

\* Create(service_path): zoo_exists, then zoo_create
AskService(p) ==
  /\ provider[p].pc = "service?"
  /\ \/ service /\ To(p, "method?") /\ UNCHANGED trouble
     \/ ~service /\ ~expired[p] /\ To(p, "service!") /\ UNCHANGED trouble
     \/ Unanswered(p) /\ To(p, "method?")
  /\ UNCHANGED <<owner, service, method, skipped, expired, call>>

\* Made by another provider meanwhile, or no session: exit(EXIT_FAILURE).
MakeService(p) ==
  /\ provider[p].pc = "service!"
  /\ IF service \/ expired[p] THEN To(p, "down") /\ UNCHANGED service
                              ELSE To(p, "method?") /\ service' = TRUE
  /\ UNCHANGED <<owner, method, trouble, skipped, expired, call>>

\* Create(method_path, ZOO_EPHEMERAL)
AskMethod(p) ==
  /\ provider[p].pc = "method?"
  /\ \/ /\ method = 0 /\ ~expired[p]
        /\ To(p, "method!")
        /\ UNCHANGED <<skipped, trouble>>
     \/ /\ \/ method # 0 /\ UNCHANGED trouble
           \/ Unanswered(p)
        /\ To(p, "listen")
        /\ skipped' = [skipped EXCEPT ![p] = TRUE]
  /\ UNCHANGED <<owner, service, method, expired, call>>

\* Mutant of MakeMethod: the result of zoo_create is not looked at.
MakeMethodAnyway(p) ==
  /\ provider[p].pc = "method!"
  /\ To(p, "listen")
  /\ method' = IF method # 0 \/ expired[p] \/ ~service THEN method ELSE Session(p)
  /\ UNCHANGED <<owner, service, trouble, skipped, expired, call>>

\* zoo_create also fails when the parent is missing.
MakeMethod(p) ==
  /\ provider[p].pc = "method!"
  /\ IF method # 0 \/ expired[p] \/ ~service
     THEN To(p, "down") /\ UNCHANGED method
     ELSE To(p, "listen") /\ method' = Session(p)
  /\ UNCHANGED <<owner, service, trouble, skipped, expired, call>>

\* server.start(); m_eventLoop.loop()
Listen(p) ==
  /\ provider[p].pc = "listen"
  /\ To(p, "serving")
  /\ UNCHANGED <<registry, call>>

Crash(p) ==
  /\ provider[p].pc # "down"
  /\ To(p, "down")
  /\ UNCHANGED <<registry, call>>

(***************************************************************************)
(* zookeeper ends a session: the process is gone, or did not reach it for  *)
(* too long; global_watcher takes no notice.                               *)
(***************************************************************************)
Live(s) == provider[owner[s]].pc # "down" /\ Session(owner[s]) = s

EndSession(s) ==
  /\ IF Live(s)
     THEN /\ trouble < MaxTrouble /\ ~expired[owner[s]]
          /\ trouble' = trouble + 1
          /\ expired' = [expired EXCEPT ![owner[s]] = TRUE]
     ELSE method = s /\ UNCHANGED <<trouble, expired>>
  /\ method' = IF method = s THEN 0 ELSE method
  /\ UNCHANGED <<provider, owner, service, skipped, call>>

(***************************************************************************)
(* A call.  to: the session of the process it is connected to; coming: the *)
(* part of the request still on its way; cut: history, the request arrived *)
(* in two parts; answer: the response is on its way.                       *)
(***************************************************************************)
Idle == [pc |-> "lookup", at |-> 0, to |-> 0, coming |-> "none", cut |-> FALSE,
         executed |-> FALSE, answer |-> FALSE, result |-> "none"]

Peer(c) == provider[owner[call[c].to]]
Connected(c) == call[c].to # 0 /\ Peer(c).pc = "serving" /\ Peer(c).session = call[c].to

\* GetData: without a node CallMethod returns and says nothing.
Lookup(c) ==
  /\ call[c].pc = "lookup"
  /\ call' = [call EXCEPT ![c].pc = IF method = 0 THEN "returned" ELSE "connect",
                          ![c].at = method]
  /\ UNCHANGED <<provider, registry>>

\* connect to the address in the node, whoever has it now.  GetData puts no zero
\* behind the address, so digits left in its buffer may follow the port's.
Connect(c) ==
  /\ call[c].pc = "connect"
  /\ LET p == owner[call[c].at]
     IN  \/ /\ provider[p].pc = "serving"
            /\ call' = [call EXCEPT ![c].pc = "send", ![c].to = Session(p)]
         \/ call' = [call EXCEPT ![c].pc = "returned"]
  /\ UNCHANGED <<provider, registry>>

\* A send that fails calls SetFailed through the null controller.
SendRequest(c) ==
  /\ call[c].pc = "send"
  /\ \/ call' = [call EXCEPT ![c].pc = "recv", ![c].coming = "whole"]
     \/ ~Connected(c) /\ call' = [call EXCEPT ![c].pc = "crashed"]
  /\ UNCHANGED <<provider, registry>>

\* Mutant of OnMessage: the arguments are cut at the wrong offset, and do not parse.
OnMessageUnparsed(c) ==
  /\ Connected(c) /\ call[c].coming = "whole"
  /\ call' = [call EXCEPT ![c].coming = "none"]
  /\ UNCHANGED <<provider, registry>>

\* OnMessage with the whole request: the method runs.
OnMessage(c) ==
  /\ Connected(c) /\ call[c].coming = "whole"
  /\ call' = [call EXCEPT ![c].coming = "none", ![c].executed = TRUE]
  /\ UNCHANGED <<provider, registry>>

\* OnMessage with a first part only: less than the four bytes of header_size
\* throw out_of_range, a part of the header does not name the method, a part of
\* the arguments may still parse.  The part is gone from the buffer.
OnFirstPart(c) ==
  /\ Connected(c) /\ call[c].coming = "whole"
  /\ \/ /\ call' = [call EXCEPT ![c].coming = "rest", ![c].cut = TRUE]
        /\ To(owner[call[c].to], "down")
     \/ /\ \E parsed \in BOOLEAN :
             call' = [call EXCEPT ![c].coming = "rest", ![c].cut = TRUE,
                                  ![c].executed = parsed]
        /\ UNCHANGED provider
  /\ UNCHANGED registry

\* OnMessage with the rest: taken for a request, it throws or names nothing.
OnRest(c) ==
  /\ Connected(c) /\ call[c].coming = "rest"
  /\ call' = [call EXCEPT ![c].coming = "none"]
  /\ \/ UNCHANGED provider
     \/ To(owner[call[c].to], "down")
  /\ UNCHANGED registry

\* done->Run(): SendRpcResponse sends and shuts the connection down.
SendRpcResponse(c) ==
  /\ Connected(c) /\ call[c].executed /\ ~call[c].answer
  /\ call' = [call EXCEPT ![c].answer = TRUE]
  /\ UNCHANGED <<provider, registry>>

\* One recv of up to 1024 bytes: all of the response, or a part that parses or
\* does not; nothing but the end of the connection parses as an empty response.
Recv(c) ==
  /\ call[c].pc = "recv"
  /\ \/ /\ call[c].answer
        /\ \E r \in {"answer", "part", "none"} :
             call' = [call EXCEPT ![c].pc = "returned", ![c].result = r]
     \/ /\ ~Connected(c)
        /\ call' = [call EXCEPT ![c].pc = "returned"]
  /\ UNCHANGED <<provider, registry>>

RpcInit ==
  /\ provider = [p \in Providers |-> [pc |-> "down", session |-> 0]]
  /\ owner = <<>>
  /\ service = FALSE /\ method = 0 /\ trouble = 0
  /\ skipped = [p \in Providers |-> FALSE]
  /\ expired = [p \in Providers |-> FALSE]
  /\ call = [c \in Callers |-> Idle]

RpcNext ==
  \/ \E p \in Providers : \/ Start(p) \/ AskService(p) \/ MakeService(p) \/ AskMethod(p)
                          \/ MakeMethod(p) \/ Listen(p) \/ Crash(p)
  \/ \E s \in 1..Len(owner) : EndSession(s)
  \/ \E c \in Callers : \/ Lookup(c) \/ Connect(c) \/ SendRequest(c) \/ OnMessage(c)
                        \/ OnFirstPart(c) \/ OnRest(c) \/ SendRpcResponse(c) \/ Recv(c)

RpcSpec == RpcInit /\ [][RpcNext]_rpcVars

\* Callers find every provider that serves: zookeeper names it.  Exceptions: its
\* session ended, or its Create found a node there (most likely that of the
\* process it replaces, whose session is not over yet) and made none; the
\* provider then serves and is never found (Create asks zoo_exists only).
\* One method has one node, so at most one provider is found.
Discoverable ==
  \A p \in Providers :
    provider[p].pc = "serving" /\ ~skipped[p] /\ ~expired[p] => method = Session(p)

\* A caller blocked in recv, which has no timeout, waits for something that is
\* on its way or for the end of its connection, unless its request arrived in
\* two parts (OnMessage keeps nothing and answers nothing then).
WaitsForSomething ==
  \A c \in Callers :
    call[c].pc = "recv" =>
      \/ ~Connected(c) \/ call[c].coming # "none"
      \/ call[c].executed \/ call[c].answer
      \/ call[c].cut
=============================================================================
