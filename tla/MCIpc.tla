-------------------------------- MODULE MCIpc --------------------------------
(***************************************************************************)
(* The transport under fairness: processes that run go on running, and a   *)
(* Broker that is down is started again.  Nobody has to make a call, to    *)
(* die, to kill anything or to remove a file.                              *)
(***************************************************************************)
EXTENDS Ipc

CONSTANTS
  Suspended,  \* calls whose client may stop between its handshake and its send
  Mortal,     \* calls whose client may die
  Killed      \* whether the Broker may be killed

VARIABLE killed  \* history: the Broker has been killed

liveVars == <<vars, killed>>

LiveInit == Init /\ killed = FALSE

LiveNext ==
  \/ /\ \/ Listen \/ Serve \/ RemoveFile
        \/ \E c \in Calls : Client(c) \/ (c \in Mortal /\ Die(c))
     /\ UNCHANGED killed
  \/ Killed /\ Kill /\ killed' = TRUE

LiveSpec ==
  /\ LiveInit
  /\ [][LiveNext]_liveVars
  /\ WF_vars(Listen) /\ WF_vars(Serve)
  /\ \A c \in Calls \ Suspended : WF_vars(Send(c) \/ TooLarge(c))

\* Every call that does not stop by itself returns or fails, whatever the other
\* clients do and however the Broker ends ("tools fail visibly", README.md:96;
\* ipc.py:59-61).
CallsEnd ==
  \A c \in Calls \ Suspended :
    call[c] \in {"queued", "open", "sent"} ~> call[c] \in Gone \cup {"returned"}

\* A Broker that went down listens again, since somebody starts it: whatever
\* ended the loop short of a kill, the address is free ("Call this after either
\* process restarts", mcp_server.py:218; ipc.py:57).
ListensAgain == At("down") /\ ~killed ~> ~At("down") \/ killed

\* The same over kills too.
ListensAlways == At("down") ~> ~At("down")

=============================================================================
