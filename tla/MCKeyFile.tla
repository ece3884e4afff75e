------------------------------ MODULE MCKeyFile ------------------------------
(***************************************************************************)
(* Starting processes under fairness, with a bounded number of kills: who  *)
(* could not start is started again.                                       *)
(***************************************************************************)
EXTENDS KeyFile, Naturals

CONSTANT MaxKills  \* kills while a process loads its key

VARIABLE kills

liveVars == <<vars, kills>>

LiveInit == Init /\ kills = 0

LiveNext ==
  \E p \in Processes :
    \/ Load(p) /\ UNCHANGED kills
    \/ Exit(p) /\ UNCHANGED kills
    \/ /\ kills < MaxKills
       /\ Kill(p)
       /\ kills' = kills + 1

LiveSpec ==
  /\ LiveInit
  /\ [][LiveNext]_liveVars
  /\ \A p \in Processes : WF_vars(Load(p))

\* Nobody will complete the key file: its creator was killed.
Spoilt == file = Empty /\ \A p \in Processes : pc[p] # "write"

\* A process that is started as often as it fails runs in the end, whoever it
\* raced with and whoever was killed, unless a kill has left an empty file
\* ("Call this after either process restarts", mcp_server.py:218;
\* ipc.py:18-34).
EveryStartSucceeds ==
  \A p \in Processes : []<>(pc[p] = "running" \/ Spoilt)

\* No kill has left an empty file.
StartsAfterAnyKill == \A p \in Processes : []<>(pc[p] = "running")

=============================================================================
