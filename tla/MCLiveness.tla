----------------------------- MODULE MCLiveness -----------------------------
(***************************************************************************)
(* The composed system under fairness, with a bounded number of faults.    *)
(*                                                                         *)
(* The fairness: a process that runs goes on running, the human at the     *)
(* Broker's terminal answers, somebody starts the Broker again, and the    *)
(* host calls recover while something is pending.                          *)
(***************************************************************************)
EXTENDS MCTransactionSystem

CONSTANT MaxFaults  \* crashes, and errors of the operating system or of the prompt

VARIABLE faults

liveVars == <<vars, faults>>

LiveInit == Init /\ faults = 0

LiveNext ==
  \/ Progress /\ UNCHANGED faults
  \/ OutsideEdit /\ UNCHANGED faults
  \/ faults < MaxFaults /\ Fault /\ faults' = faults + 1

Fairness ==
  /\ WF_vars(BrokerWorks) /\ WF_vars(BrokerStart)
  /\ WF_vars(Respond) /\ WF_vars(HangUp)
  /\ \A e \in Engines :
       /\ WF_vars(EngineWorks(e)) /\ WF_vars(Recovery(e))
       /\ WF_vars(Connect(e) \/ TooLarge(e) \/ ConnectionRefused(e))

LiveSpec == LiveInit /\ [][LiveNext]_liveVars /\ Fairness

\* Every attempt the journal holds as incomplete is settled in the end, by the
\* call itself or by recovery, whatever crashed: none is stuck, and none blocks
\* those behind it ("Reconciles every durable incomplete Engine attempt",
\* mcp_server.py:217; engine.py:44-49).
EveryAttemptSettles ==
  \A a \in Attempts :
    journal[a].state \in {"PREPARED", "DELIVERY_ATTEMPTED"}
      ~> journal[a].state \notin {"PREPARED", "DELIVERY_ATTEMPTED"}

\* An attempt that is superseded is followed by another one at the same
\* operation ("Supersede and retry with a new attempt ID", README.md:226;
\* engine.py:79-87).
SupersededIsRetried ==
  \A a \in Attempts :
    journal[a].state = "SUPERSEDED" ~>
      \E b \in Attempts : /\ journal[b].op = journal[a].op
                          /\ journal[b].state \notin {Unrecorded, "SUPERSEDED"}

\* An Engine that called the Broker gets an answer or a connection error: no
\* call waits for ever, and a Broker whose client died serves the next one
\* (ipc.py:55-71, 110-130).
CallsAreAnswered == \A e \in Engines : Waiting(e) ~> ~Waiting(e)

=============================================================================
