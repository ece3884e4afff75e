--------------------------------- MODULE Mcp ---------------------------------
(***************************************************************************)
(* The MCP adapter: one process whose tool calls run on threads that share *)
(* one Engine and one journal.  Every tool takes the application's lock    *)
(* for as long as it runs; the Engines of TransactionSystem are the        *)
(* threads.  The tool that lists operations only reads and is left out.    *)
(***************************************************************************)
EXTENDS TransactionSystem

VARIABLES
  tool,  \* the tool that each thread runs, and so holds the lock for
  seen   \* the journal state that the status tool of each thread has read

mcpVars == <<vars, tool, seen>>

NoTool == "NO_TOOL"

McpInit ==
  /\ Init
  /\ tool = [e \in Engines |-> NoTool]
  /\ seen = [e \in Engines |-> Unrecorded]

-----------------------------------------------------------------------------

\* Mutant: no lock.
LockFreeMutant == TRUE

LockFree == \A e \in Engines : tool[e] = NoTool

Enter(e, t) ==
  /\ LockFree
  /\ tool' = [tool EXCEPT ![e] = t]

\* The lock is released as the tool returns or raises.
Release(e) ==
  tool' = [tool EXCEPT ![e] = IF engine'[e].pc = "idle" THEN NoTool ELSE @]

FileTool(e) ==
  /\ Enter(e, "execute")
  /\ Request(e)
  /\ UNCHANGED seen

RecoverTool(e) ==
  /\ Enter(e, "recover")
  /\ Recovery(e)
  /\ UNCHANGED seen

\* autonomous_get_attempt_status: first the journal, then the Broker.
StatusTool(e) ==
  /\ Enter(e, "status")
  /\ engine[e].pc = "idle"
  /\ \E a \in Attempts :
       /\ Become(e, [Resting EXCEPT !.pc = "inquire", !.att = a])
       /\ seen' = [seen EXCEPT ![e] = journal[a].state]
  /\ UNCHANGED <<brokerVars, journal, serving>>

StatusShown(e) ==
  /\ Got(e, "inquire", "receipt") \/ Got(e, "inquire", "none")
  /\ Become(e, Resting)
  /\ Release(e)
  /\ seen' = [seen EXCEPT ![e] = Unrecorded]
  /\ UNCHANGED <<brokerVars, journal, serving>>

ToolWorks(e) ==
  /\ EngineWorks(e)
  /\ Release(e)
  /\ seen' = IF engine'[e].pc = "idle" THEN [seen EXCEPT ![e] = Unrecorded] ELSE seen

\* The process dies, with all its threads.
AdapterCrash ==
  /\ ~LockFree
  /\ engine' = [e \in Engines |-> Resting]
  /\ tool' = [e \in Engines |-> NoTool]
  /\ seen' = [e \in Engines |-> Unrecorded]
  /\ serving' = NoEngine
  /\ UNCHANGED <<brokerVars, journal>>

\* What the connections, the Broker and other programs do.
Outside ==
  \/ BrokerWorks \/ BrokerStart \/ Respond \/ HangUp \/ BrokerCrash \/ OutsideEdit
  \/ CallFails /\ UNCHANGED <<engineVars, serving>>
  \/ \E e \in Engines : Connect(e) \/ TooLarge(e) \/ ConnectionRefused(e)

McpNext ==
  \/ \E e \in Engines :
       \/ FileTool(e) \/ RecoverTool(e) \/ StatusTool(e)
       \/ StatusShown(e) \/ ToolWorks(e)
  \/ AdapterCrash
  \/ Outside /\ UNCHANGED <<tool, seen>>

McpSpec == McpInit /\ [][McpNext]_mcpVars

-----------------------------------------------------------------------------
(* What the host is told when a tool raises. *)

\* The subclasses of AutonomousIntelligenceError.
Own == {"PolicyViolation", "ReplayConflict", "ApprovalDenied",
        "RecoveryRequired", "InvalidTransition", "AutonomousIntelligenceError"}

\* _execute and the two handlers of the other tools; the status tool catches
\* only OSError, the recovery tool no exception but the two kinds.
Category(t, err) ==
  CASE err = "Unavailable"                         -> "broker_unavailable"
    [] t \in {"execute", "recover"} /\ err \in Own -> err
    [] t = "execute" /\ err \notin Own \cup {"Unavailable"} -> "internal_error"
    [] OTHER                                       -> "uncaught"

Suggestion(category) ==
  CASE category = "PolicyViolation"  -> "change the request"
    [] category = "ApprovalDenied"   -> "ask the user"
    [] category = "ReplayConflict"   -> "create a new operation"
    [] category = "RecoveryRequired" -> "recover"
    [] OTHER                         -> "inspect the status"

Told(e) == Category(tool[e], Value(e))

-----------------------------------------------------------------------------

\* The two states that the status tool shows are compatible although it reads
\* them one after the other: no thread of the adapter moves the attempt in
\* between, and what the Broker may still be doing leads only forward
\* ("Returns the local Engine state and authoritative Broker delivery state",
\* mcp_server.py:245; mcp_server.py:267-272).
StatusIsConsistent ==
  \A e \in Engines :
    Got(e, "inquire", "receipt") \/ Got(e, "inquire", "none")
      => Value(e) \in Compatible(seen[e])

\* A tool whose Broker is stopped says that it is unavailable ("Stop the Broker
\* and confirm tools fail with broker_unavailable", docs/CLIENT_SETUP.md:153;
\* mcp_server.py:337-351).
StoppedBrokerIsReported ==
  \A e \in Engines :
    engine[e].pc = "raise" /\ Value(e) \in {"Unavailable", "EOFError"}
      => Told(e) = "broker_unavailable"

\* When the Broker asks for recovery, the host is advised to recover
\* (mcp_server.py:354-363, ipc.py:124-129).
AdvisesRecovery ==
  [][\A e \in Engines :
       /\ serving = e
       /\ tool[e] = "execute"
       /\ broker.reply = Failure("RecoveryRequired")
       /\ broker'.pc = "idle"
       => Suggestion(Category("execute", engine'[e].reply.value)) = "recover"]_mcpVars

=============================================================================
