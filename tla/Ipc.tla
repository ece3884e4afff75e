--------------------------------- MODULE Ipc ---------------------------------
(***************************************************************************)
(* The transport: a listener, its queue of connections, and the server     *)
(* loop that serves one connection, with one call on it, at a time.        *)
(*                                                                         *)
(* What a call does at the Broker is one action here, Handle; the module   *)
(* Broker says what happens in it.  On POSIX systems the address is a      *)
(* socket file, which an orderly end of the loop removes and a kill        *)
(* leaves behind.                                                          *)
(***************************************************************************)
EXTENDS Naturals, Sequences

CONSTANTS
  Calls,      \* the calls that clients make, each on its own connection
  Shutdowns,  \* those of them that are `shutdown'
  Oversized   \* those whose payload exceeds MAX_MESSAGE_BYTES

VARIABLES
  socket,   \* the file at the address: "absent", "bound" or "stale"
  backlog,  \* connections the listener has not accepted yet
  call,     \* how far each call's client is
  server,   \* the server loop: where it is, for which call, with which response
  handled   \* history: how often each call was handled

vars == <<socket, backlog, call, server, handled>>

NoCall == "NO_CALL"

ASSUME CallsAssumption == NoCall \notin Calls

Stopped == [pc |-> "down", peer |-> NoCall, response |-> NoCall, running |-> TRUE]

Init ==
  /\ socket  = "absent"
  /\ backlog = <<>>
  /\ call    = [c \in Calls |-> "new"]
  /\ server  = Stopped
  /\ handled = [c \in Calls |-> 0]

At(pc)  == server.pc = pc
Goto(pc) == server' = [server EXCEPT !.pc = pc]

\* The client of the connection being served is there and has ...
Peer(stages) == server.peer \in Calls /\ call[server.peer] \in stages

Become(c, stage) == call' = [call EXCEPT ![c] = stage]

\* A client that closed its connection; its request, once sent, can be read.
Gone == {"failed", "dead", "dead_sent"}

-----------------------------------------------------------------------------
(* A client's call: Client(...), send_bytes, recv_bytes, close. *)

Connect(c) ==
  /\ call[c] = "new"
  /\ socket = "bound"
  /\ backlog' = Append(backlog, c)
  /\ Become(c, "queued")
  /\ UNCHANGED <<socket, server, handled>>

Refused(c) ==
  /\ call[c] = "new"
  /\ socket # "bound"
  /\ Become(c, "failed")
  /\ UNCHANGED <<socket, backlog, server, handled>>

Send(c) ==
  /\ call[c] = "open"
  /\ c \notin Oversized
  /\ Become(c, "sent")
  /\ UNCHANGED <<socket, backlog, server, handled>>

\* ValueError before anything is sent.
TooLarge(c) ==
  /\ call[c] = "open"
  /\ c \in Oversized
  /\ Become(c, "failed")
  /\ UNCHANGED <<socket, backlog, server, handled>>

\* The client's process dies.
Die(c) ==
  /\ call[c] \in {"queued", "open", "sent"}
  /\ Become(c, IF call[c] = "sent" THEN "dead_sent" ELSE "dead")
  /\ UNCHANGED <<socket, backlog, server, handled>>

-----------------------------------------------------------------------------
(* The server loop. *)

\* The process goes away and every connection with it.
Vanish(file) ==
  /\ socket'  = file
  /\ backlog' = <<>>
  /\ server'  = Stopped
  /\ call' = [c \in Calls |-> IF call[c] \in {"queued", "open", "sent"}
                              THEN "failed" ELSE call[c]]
  /\ UNCHANGED handled

\* bind() fails for any file at the address, and the process ends.
Listen ==
  /\ At("down")
  /\ socket = "absent"
  /\ socket' = "bound"
  /\ Goto("accept")
  /\ UNCHANGED <<backlog, call, handled>>

\* The connection is taken and the two challenges are exchanged.
Accept ==
  /\ At("accept")
  /\ backlog # <<>>
  /\ call[Head(backlog)] = "queued"
  /\ backlog' = Tail(backlog)
  /\ server' = [server EXCEPT !.pc = "recv", !.peer = Head(backlog)]
  /\ Become(Head(backlog), "open")
  /\ UNCHANGED <<socket, handled>>

\* The other side of the handshake is gone: accept() raises out of the loop.
AcceptFails ==
  /\ At("accept")
  /\ backlog # <<>>
  /\ call[Head(backlog)] # "queued"
  /\ Vanish("absent")

Receive ==
  /\ At("recv")
  /\ Peer({"sent", "dead_sent"})
  /\ Goto("handle")
  /\ UNCHANGED <<socket, backlog, call, handled>>

\* EOF: caught, and answered to nobody.
ReceiveFails ==
  /\ At("recv")
  /\ Peer(Gone \ {"dead_sent"})
  /\ Goto("send")
  /\ UNCHANGED <<socket, backlog, call, handled>>

\* Mutant: an exception in the handler leaves the last response in place.
HandleMutant ==
  /\ At("handle")
  /\ \E r \in {server.peer, server.response} :
       server' = [server EXCEPT !.pc = "send", !.response = r,
                                !.running = server.peer \notin Shutdowns]
  /\ handled' = [handled EXCEPT ![server.peer] = @ + 1]
  /\ UNCHANGED <<socket, backlog, call>>

\* _handle, whether it returns or raises.
Handle ==
  /\ At("handle")
  /\ server' = [server EXCEPT !.pc = "send", !.response = server.peer,
                              !.running = server.peer \notin Shutdowns]
  /\ handled' = [handled EXCEPT ![server.peer] = @ + 1]
  /\ UNCHANGED <<socket, backlog, call>>

\* The reply is sent and the connection closed.
Reply ==
  /\ At("send")
  /\ Peer({"sent"})
  /\ Become(server.peer,
            IF server.response = server.peer THEN "returned" ELSE "misled")
  /\ server' = [server EXCEPT !.pc = "loop", !.peer = NoCall]
  /\ UNCHANGED <<socket, backlog, handled>>

\* Mutant: the server waits for the client to take its reply.
ReplyFailsMutant ==
  /\ At("send")
  /\ Peer(Gone)
  /\ UNCHANGED vars

\* send_bytes raises outside of the try, out of the loop.
ReplyFails ==
  /\ At("send")
  /\ Peer(Gone)
  /\ Vanish("absent")

\* Mutant: `while True'.
AgainMutant ==
  /\ At("loop")
  /\ Goto("accept")
  /\ UNCHANGED <<socket, backlog, call, handled>>

Again ==
  /\ At("loop")
  /\ server.running
  /\ Goto("accept")
  /\ UNCHANGED <<socket, backlog, call, handled>>

\* Mutant: the listener is not closed.
CloseMutant ==
  /\ At("loop")
  /\ ~server.running
  /\ Vanish("stale")

\* The listener is closed and its file removed.
Close ==
  /\ At("loop")
  /\ ~server.running
  /\ Vanish("absent")

-----------------------------------------------------------------------------
(* What happens to the process and to the file from outside. *)

Kill ==
  /\ ~At("down")
  /\ Vanish("stale")

RemoveFile ==
  /\ socket = "stale"
  /\ socket' = "absent"
  /\ UNCHANGED <<backlog, call, server, handled>>

Serve ==
  \/ Accept \/ AcceptFails \/ Receive \/ ReceiveFails \/ Handle
  \/ Reply \/ ReplyFails \/ Again \/ Close

Client(c) == Connect(c) \/ Refused(c) \/ Send(c) \/ TooLarge(c)

Next ==
  \/ Listen \/ Serve \/ Kill \/ RemoveFile
  \/ \E c \in Calls : Client(c) \/ Die(c)

Spec == Init /\ [][Next]_vars

-----------------------------------------------------------------------------

\* The type of every variable.
TypeOK ==
  /\ socket \in {"absent", "bound", "stale"}
  /\ backlog \in Seq(Calls)
  /\ call \in [Calls -> {"new", "queued", "open", "sent", "returned"} \cup Gone]
  /\ server \in [pc       : {"down", "accept", "recv", "handle", "send", "loop"},
                 peer     : Calls \cup {NoCall},
                 response : Calls \cup {NoCall},
                 running  : BOOLEAN]
  /\ handled \in [Calls -> Nat]

\* What a caller sees of the stage its call has reached.
Seen(stage) ==
  CASE stage = "new"                        -> "none"
    [] stage \in {"queued", "open", "sent"} -> "pending"
    [] stage \in Gone                       -> "failed"
    [] OTHER                                -> stage

Contract == INSTANCE CallContract WITH
  Unsendable <- Oversized,
  outcome    <- [c \in Calls |-> Seen(call[c])]

\* Callers get what CallContract promises, over any number of kills, restarts
\* and clients that die: the answer to their own call, which was handled once
\* (ipc.py:55-71, 110-130).
ImplementsCalls == Contract!Spec

\* Once a shutdown has been handled, the loop handles nothing until the Broker
\* is started again, not even for the clients that were waiting ("Stop the
\* Broker", README.md:198; ipc.py:59, 83-85).
NothingAfterShutdown == [][handled' # handled => server.running]_vars

\* The Broker ends only when it is killed or asked to shut down; no request, of
\* whatever size, ends it ("The broker enforces a 1 MiB encoded-size limit",
\* mcp_server.py:42; ipc.py:59).
EndsOnlyWhenAsked ==
  [][~At("down") /\ server'.pc = "down"
       => socket' = "stale" \/ ~server.running]_vars

\* What the server and the clients know of a call: it is not handled before it
\* is sent, one at a time is open, the one that is being received, and the
\* response that is about to go out is its own.
ServedInv ==
  /\ \A c \in Calls :
       /\ call[c] \in {"new", "queued", "open"} => handled[c] = 0
       /\ c \in Oversized => call[c] \notin {"sent", "dead_sent"}
       /\ call[c] = "open" => At("recv") /\ server.peer = c
  /\ server.pc \in {"recv", "handle", "send"} => server.peer \in Calls
  /\ server.pc \in {"recv", "handle"} => handled[server.peer] = 0
  /\ At("handle") => call[server.peer] \in {"sent", "dead_sent"}
  /\ At("send") /\ call[server.peer] \in {"sent", "dead_sent"} =>
       server.response = server.peer /\ handled[server.peer] = 1
  /\ server.pc \in {"down", "accept", "recv", "handle"} => server.running

\* The inductive invariant behind the first two.
IpcInv == TypeOK /\ ServedInv

=============================================================================
