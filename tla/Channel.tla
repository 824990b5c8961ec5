------------------------------ MODULE Channel ------------------------------
(***************************************************************************)
(* One connection's Channel and its entry in the EPollPoller of its loop:  *)
(* the events the channel wants, the poller's bookkeeping (index_ and the  *)
(* channels_ map) and what the kernel's epoll set holds.  All of it is     *)
(* touched by the loop's thread only.                                      *)
(***************************************************************************)
VARIABLES events,      \* events_: subset of {"read", "write"}
          index,       \* index_: "kNew", "kAdded" or "kDeleted"
          inMap,       \* channels_ has the channel
          registered,  \* the epoll set has the fd
          interest     \* the events the epoll set has it for

channelVars == <<events, index, inMap, registered, interest>>

ChannelTypeOK ==
  /\ events \in SUBSET {"read", "write"}
  /\ index \in {"kNew", "kAdded", "kDeleted"}
  /\ inMap \in BOOLEAN
  /\ registered \in BOOLEAN
  /\ interest \in SUBSET {"read", "write"}

ChannelInit ==
  /\ events = {}
  /\ index = "kNew"
  /\ inMap = FALSE
  /\ registered = FALSE
  /\ interest = {}

\* EPOLL_CTL_ADD or MOD, and DEL.
CtlSet(ev) == registered' = TRUE /\ interest' = ev
CtlDel == registered' = FALSE /\ interest' = {}

\* events_ = ev; update(): EPollPoller::updateChannel.
UpdateChannel(ev) ==
  /\ events' = ev
  /\ IF index \in {"kNew", "kDeleted"}
     THEN /\ index' = "kAdded"
          /\ inMap' = (inMap \/ index = "kNew")
          /\ CtlSet(ev)
     ELSE /\ inMap' = inMap
          /\ IF ev = {}
             THEN index' = "kDeleted" /\ CtlDel
             ELSE index' = index /\ CtlSet(ev)

EnableReading == UpdateChannel(events \cup {"read"})
EnableWriting == UpdateChannel(events \cup {"write"})
DisableWriting == UpdateChannel(events \ {"write"})
DisableAll == UpdateChannel({})

\* Mutant of RemoveChannel: the epoll set keeps the fd.
RemoveFromMapOnly(ev) ==
  /\ events' = ev
  /\ inMap' = FALSE
  /\ index' = "kNew"
  /\ UNCHANGED <<registered, interest>>

\* remove(): EPollPoller::removeChannel, after the channel's events became ev
\* (connectDestroyed may call disableAll first; a DEL that disableAll already
\* made is not repeated).
RemoveChannel(ev) ==
  /\ events' = ev
  /\ inMap' = FALSE
  /\ index' = "kNew"
  /\ IF index = "kAdded" THEN CtlDel ELSE UNCHANGED <<registered, interest>>
=============================================================================
