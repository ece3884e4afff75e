----------------------------- MODULE IpcProofs ------------------------------
(***************************************************************************)
(* The transport keeps CallContract, for any number of calls, kills and    *)
(* restarts.                                                               *)
(***************************************************************************)
EXTENDS Ipc, TLAPS

Stages == {"new", "queued", "open", "sent", "returned"} \cup Gone

LEMMA InitIpcInv == Init => IpcInv
BY DEF Init, IpcInv, TypeOK, ServedInv, Stopped, Gone, At

\* One client moves on, to a stage where nothing has been handled that was not.
LEMMA ClientInv ==
  ASSUME IpcInv, NEW c \in Calls,
         Connect(c) \/ Refused(c) \/ Send(c) \/ TooLarge(c) \/ Die(c)
  PROVE  IpcInv'
<1>1. CASE Connect(c)
  BY <1>1 DEF IpcInv, TypeOK, ServedInv, Connect, Become, Gone, At
<1>2. CASE Refused(c)
  BY <1>2 DEF IpcInv, TypeOK, ServedInv, Refused, Become, Gone, At
<1>3. CASE Send(c)
  BY <1>3 DEF IpcInv, TypeOK, ServedInv, Send, Become, Gone, At
<1>4. CASE TooLarge(c)
  BY <1>4 DEF IpcInv, TypeOK, ServedInv, TooLarge, Become, Gone, At
<1>5. CASE Die(c)
  BY <1>5 DEF IpcInv, TypeOK, ServedInv, Die, Become, Gone, At
<1> QED BY <1>1, <1>2, <1>3, <1>4, <1>5

LEMMA VanishInv ==
  ASSUME IpcInv, NEW file \in {"absent", "stale"}, Vanish(file)
  PROVE  IpcInv'
BY DEF IpcInv, TypeOK, ServedInv, Vanish, Stopped, Gone, At

LEMMA ServeInv ==
  ASSUME IpcInv, Listen \/ Serve \/ Kill \/ RemoveFile
  PROVE  IpcInv'
<1>1. CASE Listen \/ RemoveFile
  BY <1>1 DEF IpcInv, TypeOK, ServedInv, Listen, RemoveFile, Goto, At
<1>2. CASE Accept
  <2>1. Head(backlog) \in Calls /\ Tail(backlog) \in Seq(Calls)
    BY <1>2 DEF Accept, IpcInv, TypeOK
  <2> QED BY <1>2, <2>1 DEF IpcInv, TypeOK, ServedInv, Accept, Become, Gone, At
<1>3. CASE Receive \/ ReceiveFails
  BY <1>3 DEF IpcInv, TypeOK, ServedInv, Receive, ReceiveFails, Peer, Goto, Gone, At
<1>4. CASE Handle
  <2>1. PICK c \in Calls : c = server.peer
    BY <1>4 DEF Handle, At, IpcInv, ServedInv
  <2>2. handled[c] = 0 /\ call[c] \in {"sent", "dead_sent"} /\ UNCHANGED <<socket, backlog, call>>
    BY <1>4, <2>1 DEF Handle, At, IpcInv, ServedInv
  <2>3. handled' = [handled EXCEPT ![c] = 1]
    BY <1>4, <2>1, <2>2 DEF Handle, IpcInv, TypeOK
  <2>4. /\ server'.pc = "send" /\ server'.peer = c /\ server'.response = c
        /\ server' \in [pc       : {"send"},
                       peer     : Calls,
                       response : Calls,
                       running  : BOOLEAN]
    BY <1>4, <2>1 DEF Handle, IpcInv, TypeOK
  <2>5. TypeOK'
    BY <2>2, <2>3, <2>4 DEF IpcInv, TypeOK
  <2>6. \A b \in Calls : call[b] # "open"
    BY <1>4 DEF Handle, At, IpcInv, ServedInv
  <2>7. ServedInv'
    BY <2>1, <2>2, <2>3, <2>4, <2>6 DEF IpcInv, TypeOK, ServedInv, At
  <2> QED BY <2>5, <2>7 DEF IpcInv
<1>5. CASE Reply
  BY <1>5 DEF IpcInv, TypeOK, ServedInv, Reply, Peer, Become, Gone, At
<1>6. CASE Again
  BY <1>6 DEF IpcInv, TypeOK, ServedInv, Again, Goto, At
<1>7. CASE AcceptFails \/ ReplyFails \/ Close \/ Kill
  BY <1>7, VanishInv DEF AcceptFails, ReplyFails, Close, Kill
<1> QED BY <1>1, <1>2, <1>3, <1>4, <1>5, <1>6, <1>7 DEF Serve

LEMMA NextIpcInv == IpcInv /\ [Next]_vars => IpcInv'
<1>1. CASE UNCHANGED vars
  BY <1>1 DEF vars, IpcInv, TypeOK, ServedInv, At
<1> QED BY <1>1, ClientInv, ServeInv DEF Next, Client

\* The invariant holds in every state the transport reaches.
THEOREM IpcInvariant == Spec => []IpcInv
<1> QED BY InitIpcInv, NextIpcInv, PTL DEF Spec

\* Every variable of the transport keeps its type; no caller is given the
\* response to another call.
THEOREM IpcTypeCorrect == Spec => []TypeOK
<1>1. IpcInv => TypeOK
  BY DEF IpcInv
<1> QED BY <1>1, IpcInvariant, PTL

\* Nothing is handled between a shutdown and the next start of the Broker
\* (ipc.py:59, 83-85).
THEOREM ShutdownIsFinal == Spec => NothingAfterShutdown
<1>1. IpcInv /\ [Next]_vars => [handled' # handled => server.running]_vars
  <2> SUFFICES ASSUME IpcInv, Next, handled' # handled
               PROVE  server.running
    BY DEF vars
  <2>1. Handle
    BY DEF Next, Client, Connect, Refused, Send, TooLarge, Die, Listen, RemoveFile,
           Kill, Vanish, Serve, Accept, AcceptFails, Receive, ReceiveFails, Reply,
           ReplyFails, Again, Close
  <2> QED BY <2>1 DEF Handle, At, IpcInv, ServedInv
<1> QED BY <1>1, IpcInvariant, PTL DEF Spec, NothingAfterShutdown

-----------------------------------------------------------------------------
(* The refinement. *)

LEMMA StageSeen ==
  /\ Seen("new") = "none"
  /\ Seen("queued") = "pending" /\ Seen("open") = "pending" /\ Seen("sent") = "pending"
  /\ Seen("returned") = "returned"
  /\ \A stage \in Gone : Seen(stage) = "failed"
BY DEF Seen, Gone

\* A step that shows no caller anything and handles nothing.
LEMMA Unseen ==
  ASSUME UNCHANGED handled, \A c \in Calls : Seen(call'[c]) = Seen(call[c])
  PROVE  UNCHANGED Contract!vars
<1>1. UNCHANGED [c \in Calls |-> Seen(call[c])]
  OBVIOUS
<1> QED BY <1>1 DEF Contract!vars

\* A client's move to a stage where it sees something else.
LEMMA SeenMove ==
  ASSUME IpcInv, NEW c \in Calls, NEW stage, Become(c, stage)
  PROVE  Contract!Move(c, Seen(call[c]), Seen(stage))
<1>1. \A b \in Calls : call'[b] = IF b = c THEN stage ELSE call[b]
  BY DEF IpcInv, TypeOK, Become
<1>2. [b \in Calls |-> Seen(call[b])]' =
        [[b \in Calls |-> Seen(call[b])] EXCEPT ![c] = Seen(stage)]
  BY <1>1
<1> QED BY <1>2 DEF Contract!Move

LEMMA ClientStep ==
  ASSUME IpcInv, NEW c \in Calls,
         Connect(c) \/ Refused(c) \/ Send(c) \/ TooLarge(c) \/ Die(c)
  PROVE  Contract!Next \/ UNCHANGED Contract!vars
<1>1. CASE Connect(c)
  <2>1. Contract!Ask(c)
    BY <1>1, StageSeen, SeenMove DEF Connect, Contract!Ask
  <2> QED BY <2>1 DEF Contract!Next
<1>2. CASE Refused(c) \/ TooLarge(c)
  <2>1. Contract!Fail(c)
    BY <1>2, StageSeen, SeenMove DEF Refused, TooLarge, Contract!Fail, Gone
  <2> QED BY <2>1 DEF Contract!Next
<1>3. CASE Send(c)
  <2>1. \A b \in Calls : Seen(call'[b]) = Seen(call[b])
    BY <1>3, StageSeen DEF Send, Become, IpcInv, TypeOK
  <2> QED BY <1>3, <2>1, Unseen DEF Send
<1>4. CASE Die(c)
  <2>1. PICK stage \in {"dead", "dead_sent"} : Become(c, stage)
    BY <1>4 DEF Die
  <2>2. Contract!Fail(c)
    BY <1>4, <2>1, StageSeen, SeenMove DEF Die, Contract!Fail, Gone
  <2> QED BY <2>2 DEF Contract!Next
<1> QED BY <1>1, <1>2, <1>3, <1>4

LEMMA VanishStep ==
  ASSUME IpcInv, NEW file, Vanish(file)
  PROVE  Contract!Next
<1> DEFINE lost == {c \in Calls : call[c] \in {"queued", "open", "sent"}}
<1>1. \A c \in Calls :
        Seen(call'[c]) = IF c \in lost THEN "failed" ELSE Seen(call[c])
  BY StageSeen DEF Vanish, Gone
<1>2. \A c \in lost : Seen(call[c]) = "pending"
  BY StageSeen
<1>3. Contract!FailAll(lost)
  BY <1>1, <1>2 DEF Contract!FailAll, Vanish
<1> QED BY <1>3 DEF Contract!Next

LEMMA ServeStep ==
  ASSUME IpcInv, Listen \/ Serve \/ Kill \/ RemoveFile
  PROVE  Contract!Next \/ UNCHANGED Contract!vars
<1>1. CASE Listen \/ RemoveFile \/ Receive \/ ReceiveFails \/ Again
  <2>1. UNCHANGED <<call, handled>>
    BY <1>1 DEF Listen, RemoveFile, Receive, ReceiveFails, Again
  <2> QED BY <2>1, Unseen
<1>2. CASE Accept
  <2>1. PICK c \in Calls : c = Head(backlog)
    BY <1>2 DEF Accept, IpcInv, TypeOK
  <2>2. \A b \in Calls : Seen(call'[b]) = Seen(call[b])
    BY <1>2, <2>1, StageSeen DEF Accept, Become, IpcInv, TypeOK
  <2> QED BY <1>2, <2>2, Unseen DEF Accept
<1>3. CASE Handle
  <2>1. PICK c \in Calls : c = server.peer
    BY <1>3 DEF Handle, At, IpcInv, ServedInv
  <2>2. /\ handled[c] = 0 /\ c \notin Oversized
        /\ call[c] \in {"sent", "dead_sent"}
    BY <1>3, <2>1 DEF Handle, At, IpcInv, ServedInv
  <2>3. handled' = [handled EXCEPT ![c] = 1]
    BY <1>3, <2>1, <2>2 DEF Handle, IpcInv, TypeOK
  <2>4. Seen(call[c]) \in {"pending", "failed"}
    BY <2>2, StageSeen DEF Gone
  <2>5. Contract!Handle(c)
    BY <1>3, <2>2, <2>3, <2>4 DEF Handle, Contract!Handle
  <2> QED BY <2>5 DEF Contract!Next
<1>4. CASE Reply
  <2>1. PICK c \in Calls : c = server.peer
    BY <1>4 DEF Reply, Peer
  <2>2. call[c] = "sent" /\ server.response = c /\ handled[c] = 1
    BY <1>4, <2>1 DEF Reply, Peer, At, IpcInv, ServedInv
  <2>3. Become(c, "returned")
    BY <1>4, <2>1, <2>2 DEF Reply
  <2>4. Contract!Return(c)
    BY <1>4, <2>2, <2>3, StageSeen, SeenMove DEF Reply, Contract!Return
  <2> QED BY <2>4 DEF Contract!Next
<1>5. CASE AcceptFails \/ ReplyFails \/ Close \/ Kill
  BY <1>5, VanishStep DEF AcceptFails, ReplyFails, Close, Kill
<1> QED BY <1>1, <1>2, <1>3, <1>4, <1>5 DEF Serve

\* The transport implements the contract of a call, for every set of calls: over
\* kills, restarts and clients that die, a caller gets the answer to its own
\* call, which was handled once (ipc.py:55-71, 110-130).
THEOREM IpcKeepsContract == Spec => ImplementsCalls
<1>1. Init => Contract!Init
  BY StageSeen DEF Init, Contract!Init
<1>2. IpcInv /\ [Next]_vars => [Contract!Next]_(Contract!vars)
  <2>1. CASE UNCHANGED vars
    BY <2>1, Unseen DEF vars
  <2> QED BY <2>1, ClientStep, ServeStep DEF Next, Client
<1> QED BY <1>1, <1>2, IpcInvariant, PTL DEF Spec, ImplementsCalls, Contract!Spec

=============================================================================
