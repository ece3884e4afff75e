-------------------------- MODULE TwoBrokersProofs --------------------------
(***************************************************************************)
(* Two Brokers on one state directory do not change a file without an      *)
(* approval, proved for every set of attempts, operations, files and       *)
(* approvals.                                                              *)
(*                                                                         *)
(* Neither Broker finds the rows and the approvals as it left them.  What  *)
(* each relies on is what every step of the other guarantees: rows keep    *)
(* their operation and never return to ACCEPTED, and approvals keep what   *)
(* they are for and stay consumed.                                         *)
(***************************************************************************)
EXTENDS TwoBrokers, TLAPS

Writes(o) == Params[o].action # "read_file"

\* An attempt in this state has been dispatched.
Sent(state) == state \notin {Unrecorded, "ACCEPTED", "REJECTED"}

\* A consumed approval that names exactly this attempt and this operation.
Covered(a, o, k) ==
  /\ k \in ApprovalIds
  /\ approvals[k].att = a
  /\ approvals[k].op = o
  /\ approvals[k].consumed = TRUE

\* The shapes of the records.
IsRow(r) ==
  r = [state |-> r.state, op |-> r.op, approval |-> r.approval, result |-> r.result]

IsApproval(k) == k = [att |-> k.att, op |-> k.op, consumed |-> k.consumed]

IsProcess(p) ==
  p = [pc |-> p.pc, att |-> p.att, op |-> p.op, approval |-> p.approval,
       seen |-> p.seen, reply |-> p.reply]

Shapes ==
  /\ ledger = [a \in Attempts |-> ledger[a]]
  /\ \A a \in Attempts : IsRow(ledger[a])
  /\ approvals = [k \in ApprovalIds |-> approvals[k]]
  /\ \A k \in ApprovalIds : IsApproval(approvals[k])
  /\ applied \in [Attempts -> Nat]

\* An approval in a row is one for it; a write is sent, and has its effect, with
\* an approval in its row.
RowsAreCovered ==
  \A a \in Attempts :
    /\ ledger[a].state # Unrecorded => ledger[a].op \in Operations
    /\ ledger[a].approval # NoApproval => Covered(a, ledger[a].op, ledger[a].approval)
    /\ Sent(ledger[a].state) /\ Writes(ledger[a].op) => ledger[a].approval # NoApproval
    /\ applied[a] > 0 => Sent(ledger[a].state) /\ Writes(ledger[a].op)

Waits    == {"approve", "consume", "dispatch"}
Runs     == {"execute", "exists", "replace", "check", "deliver"}
Rests == {"idle", "down", "reply", "receipt"}

\* What a Broker, whose process is p, relies on.
Relies(p) ==
  /\ IsProcess(p)
  /\ p.pc \in {"submit", "accept"} \cup Waits \cup Runs \cup Rests
  /\ p.pc \notin Rests => p.att \in Attempts /\ p.op \in Operations
  /\ p.pc \in Waits \cup Runs =>
       ledger[p.att].state # Unrecorded /\ ledger[p.att].op = p.op
  /\ p.pc \in Runs => Sent(ledger[p.att].state)
  /\ p.pc \in {"exists", "replace", "check"} => Writes(p.op)
  /\ p.pc = "consume" =>
       /\ p.approval \in ApprovalIds
       /\ approvals[p.approval].att = p.att
       /\ approvals[p.approval].op = p.op
  /\ p.pc = "dispatch" =>
       /\ p.approval # NoApproval => Covered(p.att, p.op, p.approval)
       /\ Writes(p.op) => p.approval # NoApproval

\* The inductive invariant behind EffectWasApproved.
TwoInv ==
  /\ Shapes
  /\ RowsAreCovered
  /\ Relies(first)
  /\ Relies(second)

-----------------------------------------------------------------------------
(* What one step of a Broker is to the rows, the approvals and its process,  *)
(* which goes from p to q.                                                   *)

Same == UNCHANGED <<ledger, approvals, applied>>

RowBecomes(a, r) ==
  /\ IsRow(r)
  /\ ledger' = [ledger EXCEPT ![a] = r]
  /\ UNCHANGED <<approvals, applied>>

Stops(p, q) == Same /\ q.pc \in Rests

Called(p, q) == Same /\ q.pc = "submit" /\ q.att \in Attempts /\ q.op \in Operations

LooksUp(p, q) == Same /\ p.pc = "submit" /\ q.pc = "accept"

\* Where submit goes on with the row.
Begins(p, q, row) ==
  /\ q.approval = row.approval
  /\ q.pc = IF Writes(p.op) /\ row.approval = NoApproval THEN "approve" ELSE "dispatch"

Inserts(p, q) ==
  \E r : /\ p.pc = "accept"
         /\ ledger[p.att].state = Unrecorded
         /\ RowBecomes(p.att, r)
         /\ r.state = "ACCEPTED" /\ r.op = p.op /\ r.approval = NoApproval
         /\ Begins(p, q, r)

Finds(p, q) ==
  /\ Same
  /\ p.pc \in {"submit", "accept"}
  /\ ledger[p.att].state # Unrecorded
  /\ ledger[p.att].op = p.op
  /\ Begins(p, q, ledger[p.att])

Issues(p, q, k) ==
  /\ p.pc = "approve" /\ q.pc = "consume"
  /\ approvals[k].att = NoAttempt /\ ~approvals[k].consumed
  /\ approvals' = [approvals EXCEPT ![k] = [att |-> p.att, op |-> p.op, consumed |-> FALSE]]
  /\ q.approval = k
  /\ UNCHANGED <<ledger, applied>>

Consumes(p, q) ==
  /\ p.pc = "consume" /\ q.pc = "dispatch"
  /\ approvals' = [approvals EXCEPT ![p.approval].consumed = TRUE]
  /\ q.approval = p.approval
  /\ UNCHANGED <<ledger, applied>>

Dispatches(p, q) ==
  /\ p.pc = "dispatch" /\ q.pc = "execute"
  /\ \/ Same /\ ledger[p.att].state = "IN_FLIGHT"
     \/ \E r : /\ RowBecomes(p.att, r)
               /\ r.state = "IN_FLIGHT" /\ r.op = ledger[p.att].op
               /\ r.approval = Coalesce(NoApproval, p.approval, ledger[p.att].approval)

Executes(p, q) ==
  /\ Same
  /\ p.pc \in Runs /\ q.pc \in Runs
  /\ q.pc \in {"exists", "replace", "check"} =>
       p.pc \in {"exists", "replace", "check"} \/ Writes(p.op)

Replaces(p, q) ==
  /\ p.pc = "replace" /\ q.pc = "check"
  /\ applied' = [applied EXCEPT ![p.att] = @ + 1]
  /\ UNCHANGED <<ledger, approvals>>

\* The row of a call moves on, but not to or from a state in which it is sent.
Settles(p, q) ==
  \E r : /\ p.pc \in Waits \cup Runs /\ q.pc \in Rests
         /\ RowBecomes(p.att, r)
         /\ r.state # Unrecorded /\ Sent(r.state) = Sent(ledger[p.att].state)
         /\ r.op = ledger[p.att].op /\ r.approval = ledger[p.att].approval

GoesOn(p, q) ==
  /\ q.att = p.att /\ q.op = p.op
  /\ \/ LooksUp(p, q) \/ Inserts(p, q) \/ Finds(p, q)
     \/ \E k \in ApprovalIds : Issues(p, q, k)
     \/ Consumes(p, q) \/ Dispatches(p, q) \/ Executes(p, q) \/ Replaces(p, q)

Moves(p, q) ==
  /\ IsProcess(q)
  /\ Stops(p, q) \/ Called(p, q) \/ Settles(p, q) \/ GoesOn(p, q)

LEMMA FirstMoves ==
  ASSUME Shapes, RowsAreCovered, Relies(first), First!SharedNext
  PROVE  Moves(first, first')
<1> USE DEF First!At, First!Row, First!Goto, First!Unrecorded, Unrecorded
<1>p. IsProcess(first)
  BY DEF Relies
<1>a. ASSUME NEW r, first' = First!Answered(r)
      PROVE  IsProcess(first') /\ first'.pc \in Rests
  BY <1>p, <1>a DEF First!Answered, IsProcess, Rests
<1>b. ASSUME NEW row, first' = First!AfterAccepted(row), first.op \in Operations
      PROVE  /\ IsProcess(first')
             /\ first'.att = first.att /\ first'.op = first.op
             /\ Begins(first, first', row)
  BY <1>p, <1>b
  DEF First!AfterAccepted, IsProcess, Begins, First!RequiresApproval, Writes,
      First!NoApproval, NoApproval
<1>1. ASSUME NEW a \in Attempts, NEW o \in Operations, First!Receive("submit", a, o)
      PROVE  Moves(first, first')
  BY <1>1 DEF First!Receive, First!Idle, IsProcess, Called, Same, Moves
<1>2. CASE First!LookUp
  BY <1>p, <1>2 DEF First!LookUp, First!New, IsProcess, LooksUp, Same, GoesOn, Moves
<1>3. CASE First!Insert
  <2>1. PICK r : /\ r = [First!NoRow EXCEPT !.state = "ACCEPTED", !.op = first.op]
                 /\ ledger' = [ledger EXCEPT ![first.att] = r]
                 /\ first' = First!AfterAccepted(r)
    BY <1>3 DEF First!Insert
  <2>2. IsRow(r) /\ r.state = "ACCEPTED" /\ r.op = first.op /\ r.approval = NoApproval
    BY <2>1 DEF First!NoRow, IsRow, First!NoApproval, NoApproval
  <2>3. first.op \in Operations
    BY <1>3 DEF Relies, First!Insert, Rests
  <2>4. Inserts(first, first')
    BY <1>3, <1>b, <2>1, <2>2, <2>3 DEF First!Insert, Inserts, RowBecomes
  <2> QED BY <1>b, <2>1, <2>3, <2>4 DEF GoesOn, Moves
<1>4. CASE First!Find \/ First!Resume
  <2>1. /\ Same /\ first.pc \in {"submit", "accept"} /\ ledger[first.att].state # Unrecorded
        /\ first.op \in Operations
    BY <1>4 DEF First!Find, First!Resume, Same, Relies, Rests
  <2>2. CASE First!Mutated
    BY <1>4, <1>a, <2>1, <2>2 DEF First!Find, First!Resume, Stops, Moves
  <2>3. CASE ~First!Mutated
    <3> DEFINE after == First!AfterAccepted(ledger[first.att])
    <3>1. /\ ledger[first.att].op = first.op
          /\ first' \in {after, [after EXCEPT !.op = ledger[first.att].op]}
      BY <1>4, <2>3 DEF First!Find, First!Resume, First!Mutated
    <3>2. [after EXCEPT !.op = first.op] = after
      BY <1>p DEF First!AfterAccepted, IsProcess
    <3>3. first' = after
      BY <3>1, <3>2
    <3> QED BY <1>b, <2>1, <3>1, <3>3 DEF Finds, GoesOn, Moves
  <2> QED BY <2>2, <2>3
<1>5. CASE First!Refuse \/ First!ReplayConflict \/ First!Duplicate \/ First!ReturnReceipt
           \/ \E e \in {"ApprovalDenied", "ReplayConflict"} : First!ConsumeExpired(e)
  BY <1>5, <1>a
  DEF First!Refuse, First!ReplayConflict, First!Duplicate, First!ReturnReceipt,
      First!ConsumeExpired, First!Answer, Same, Stops, Moves
<1>6. CASE First!Reply \/ First!Kill \/ First!Start
  BY <1>6
  DEF First!Reply, First!Kill, First!Start, First!Idle, First!Down, IsProcess, Same, Rests,
      Stops, Moves
<1>7. ASSUME NEW k \in ApprovalIds, First!Issue(k)
      PROVE  Moves(first, first')
  <2>1. approvals[k].att = NoAttempt /\ ~approvals[k].consumed
    BY <1>7 DEF First!Issue, First!Unissued, First!NoAttempt, NoAttempt
  <2> QED BY <1>p, <1>7, <2>1 DEF First!Issue, IsProcess, Issues, GoesOn, Moves
<1>8. CASE First!Consume
  BY <1>p, <1>8 DEF First!Consume, IsProcess, Consumes, GoesOn, Moves
<1>9. CASE First!ReadFile \/ First!CheckPrior \/ First!CheckTarget \/ First!CheckWritten
  BY <1>p, <1>9
  DEF First!ReadFile, First!CheckPrior, First!CheckTarget, First!CheckWritten, IsProcess,
      Same, Runs, Writes, Executes, GoesOn, Moves
<1>10. CASE First!Replace
  BY <1>p, <1>10 DEF First!Replace, IsProcess, Replaces, GoesOn, Moves
<1>c. ASSUME NEW target, NEW k, NEW result, NEW after,
             First!Commit(target, k, result, after), first.att \in Attempts,
             UNCHANGED <<approvals, applied>>
      PROVE  \/ \E e : Same /\ first' = First!Answered(e)
             \/ Same /\ ledger[first.att].state = target /\ first' = after
             \/ \E r : /\ target \in First!BrokerTransitions(ledger[first.att].state)
                       /\ RowBecomes(first.att, r) /\ first' = after
                       /\ r.state = target /\ r.op = ledger[first.att].op
                       /\ r.approval = Coalesce(NoApproval, k, ledger[first.att].approval)
  <2>1. CASE target \in First!BrokerTransitions(ledger[first.att].state)
    <3>1. PICK r : /\ r = First!Updated(ledger[first.att], target, k, result)
                   /\ ledger' = [ledger EXCEPT ![first.att] = r]
      BY <1>c, <2>1 DEF First!Commit, Shapes
    <3>2. /\ IsRow(r) /\ r.state = target /\ r.op = ledger[first.att].op
          /\ r.approval = Coalesce(NoApproval, k, ledger[first.att].approval)
      <4>1. PICK row : row = ledger[first.att] /\ IsRow(row)
        BY <1>c DEF Shapes
      <4>2. r = [row EXCEPT !.state = target,
                            !.approval = Coalesce(NoApproval, k, row.approval),
                            !.result = First!Coalesce(First!NoResult, result, row.result)]
        BY <3>1, <4>1
        DEF First!Updated, Coalesce, First!Coalesce, NoApproval, First!NoApproval
      <4> QED BY <4>1, <4>2 DEF IsRow
    <3> QED BY <1>c, <2>1, <3>1, <3>2 DEF First!Commit, RowBecomes
  <2>2. CASE target \notin First!BrokerTransitions(ledger[first.att].state)
    BY <1>c, <2>2 DEF First!Commit, Same
  <2> QED BY <2>1, <2>2
<1>s. ASSUME NEW target, NEW result, NEW after,
             First!Commit(target, NoApproval, result, after),
             UNCHANGED <<approvals, applied>>,
             first.pc \in Waits \cup Runs,
             IsProcess(after), after.pc \in Rests,
             target = "REJECTED" \/ target = "UNCERTAIN" \/ target = "DELIVERY_ATTEMPTED"
      PROVE  Moves(first, first')
  <2>1. first.att \in Attempts
    BY <1>s DEF Relies, Waits, Runs, Rests
  <2>2. CASE \E e : Same /\ first' = First!Answered(e)
    BY <1>a, <2>2 DEF Stops, Moves
  <2>3. CASE Same /\ first' = after
    BY <1>s, <2>3 DEF Stops, Moves
  <2>4. ASSUME NEW r, target \in First!BrokerTransitions(ledger[first.att].state),
               RowBecomes(first.att, r), first' = after,
               r.state = target, r.op = ledger[first.att].op,
               r.approval = Coalesce(NoApproval, NoApproval, ledger[first.att].approval)
        PROVE  Moves(first, first')
    <3>1. r.state # Unrecorded /\ Sent(r.state) = Sent(ledger[first.att].state)
      BY <1>s, <2>4 DEF First!BrokerTransitions, Sent
    <3>2. r.approval = ledger[first.att].approval
      BY <2>4 DEF Coalesce
    <3> QED BY <1>s, <2>4, <3>1, <3>2 DEF Settles, Moves
  <2> QED BY <1>s, <1>c, <2>1, <2>2, <2>3, <2>4
<1>11. CASE First!Deny \/ First!Raise \/ First!Deliver
  <2>1. PICK target, result, after :
          /\ First!Commit(target, NoApproval, result, after)
          /\ UNCHANGED <<approvals, applied>>
          /\ first.pc \in Waits \cup Runs
          /\ \/ \E e : after = First!Answered(e)
             \/ after = [first EXCEPT !.pc = "receipt"]
          /\ target \in {"REJECTED", "UNCERTAIN", "DELIVERY_ATTEMPTED"}
    BY <1>11
    DEF First!Deny, First!Raise, First!Deliver, First!Executing, Waits, Runs,
        NoApproval, First!NoApproval
  <2>2. IsProcess(after) /\ after.pc \in Rests
    BY <1>p, <2>1 DEF First!Answered, IsProcess, Rests
  <2> QED BY <1>s, <2>1, <2>2
<1>12. CASE First!Dispatch
  <2>1. PICK after : /\ after = [first EXCEPT !.pc = "execute"]
                     /\ First!Commit("IN_FLIGHT", first.approval, NoResult, after)
                     /\ first.pc = "dispatch"
                     /\ UNCHANGED <<approvals, applied>>
    BY <1>12 DEF First!Dispatch, NoResult, First!NoResult
  <2>2. /\ IsProcess(after) /\ after.pc = "execute"
        /\ after.att = first.att /\ after.op = first.op
    BY <1>p, <2>1 DEF IsProcess
  <2>3. first.att \in Attempts
    BY <2>1 DEF Relies, Rests
  <2>4. CASE \E e : Same /\ first' = First!Answered(e)
    BY <1>a, <2>4 DEF Stops, Moves
  <2>5. CASE Same /\ ledger[first.att].state = "IN_FLIGHT" /\ first' = after
    BY <2>1, <2>2, <2>5 DEF Dispatches, GoesOn, Moves
  <2>6. ASSUME NEW r, RowBecomes(first.att, r), first' = after,
               r.state = "IN_FLIGHT", r.op = ledger[first.att].op,
               r.approval = Coalesce(NoApproval, first.approval, ledger[first.att].approval)
        PROVE  Moves(first, first')
    BY <2>1, <2>2, <2>6 DEF Dispatches, GoesOn, Moves
  <2> QED BY <1>c, <2>1, <2>3, <2>4, <2>5, <2>6
<1>13. CASE First!Accept /\ ~First!New
  BY <1>13 DEF First!Accept, First!New
<1> QED
  BY <1>1, <1>2, <1>3, <1>4, <1>5, <1>6, <1>7, <1>8, <1>9, <1>10, <1>11, <1>12, <1>13
  DEF First!SharedNext, First!Submitting

LEMMA SecondMoves ==
  ASSUME Shapes, RowsAreCovered, Relies(second), Second!SharedNext
  PROVE  Moves(second, second')
<1> USE DEF Second!At, Second!Row, Second!Goto, Second!Unrecorded, Unrecorded
<1>p. IsProcess(second)
  BY DEF Relies
<1>a. ASSUME NEW r, second' = Second!Answered(r)
      PROVE  IsProcess(second') /\ second'.pc \in Rests
  BY <1>p, <1>a DEF Second!Answered, IsProcess, Rests
<1>b. ASSUME NEW row, second' = Second!AfterAccepted(row), second.op \in Operations
      PROVE  /\ IsProcess(second')
             /\ second'.att = second.att /\ second'.op = second.op
             /\ Begins(second, second', row)
  BY <1>p, <1>b
  DEF Second!AfterAccepted, IsProcess, Begins, Second!RequiresApproval, Writes,
      Second!NoApproval, NoApproval
<1>1. ASSUME NEW a \in Attempts, NEW o \in Operations, Second!Receive("submit", a, o)
      PROVE  Moves(second, second')
  BY <1>1 DEF Second!Receive, Second!Idle, IsProcess, Called, Same, Moves
<1>2. CASE Second!LookUp
  BY <1>p, <1>2 DEF Second!LookUp, Second!New, IsProcess, LooksUp, Same, GoesOn, Moves
<1>3. CASE Second!Insert
  <2>1. PICK r : /\ r = [Second!NoRow EXCEPT !.state = "ACCEPTED", !.op = second.op]
                 /\ ledger' = [ledger EXCEPT ![second.att] = r]
                 /\ second' = Second!AfterAccepted(r)
    BY <1>3 DEF Second!Insert
  <2>2. IsRow(r) /\ r.state = "ACCEPTED" /\ r.op = second.op /\ r.approval = NoApproval
    BY <2>1 DEF Second!NoRow, IsRow, Second!NoApproval, NoApproval
  <2>3. second.op \in Operations
    BY <1>3 DEF Relies, Second!Insert, Rests
  <2>4. Inserts(second, second')
    BY <1>3, <1>b, <2>1, <2>2, <2>3 DEF Second!Insert, Inserts, RowBecomes
  <2> QED BY <1>b, <2>1, <2>3, <2>4 DEF GoesOn, Moves
<1>4. CASE Second!Find \/ Second!Resume
  <2>1. /\ Same /\ second.pc \in {"submit", "accept"} /\ ledger[second.att].state # Unrecorded
        /\ second.op \in Operations
    BY <1>4 DEF Second!Find, Second!Resume, Same, Relies, Rests
  <2>2. CASE Second!Mutated
    BY <1>4, <1>a, <2>1, <2>2 DEF Second!Find, Second!Resume, Stops, Moves
  <2>3. CASE ~Second!Mutated
    <3> DEFINE after == Second!AfterAccepted(ledger[second.att])
    <3>1. /\ ledger[second.att].op = second.op
          /\ second' \in {after, [after EXCEPT !.op = ledger[second.att].op]}
      BY <1>4, <2>3 DEF Second!Find, Second!Resume, Second!Mutated
    <3>2. [after EXCEPT !.op = second.op] = after
      BY <1>p DEF Second!AfterAccepted, IsProcess
    <3>3. second' = after
      BY <3>1, <3>2
    <3> QED BY <1>b, <2>1, <3>1, <3>3 DEF Finds, GoesOn, Moves
  <2> QED BY <2>2, <2>3
<1>5. CASE Second!Refuse \/ Second!ReplayConflict \/ Second!Duplicate \/ Second!ReturnReceipt
           \/ \E e \in {"ApprovalDenied", "ReplayConflict"} : Second!ConsumeExpired(e)
  BY <1>5, <1>a
  DEF Second!Refuse, Second!ReplayConflict, Second!Duplicate, Second!ReturnReceipt,
      Second!ConsumeExpired, Second!Answer, Same, Stops, Moves
<1>6. CASE Second!Reply \/ Second!Kill \/ Second!Start
  BY <1>6
  DEF Second!Reply, Second!Kill, Second!Start, Second!Idle, Second!Down, IsProcess, Same, Rests,
      Stops, Moves
<1>7. ASSUME NEW k \in ApprovalIds, Second!Issue(k)
      PROVE  Moves(second, second')
  <2>1. approvals[k].att = NoAttempt /\ ~approvals[k].consumed
    BY <1>7 DEF Second!Issue, Second!Unissued, Second!NoAttempt, NoAttempt
  <2> QED BY <1>p, <1>7, <2>1 DEF Second!Issue, IsProcess, Issues, GoesOn, Moves
<1>8. CASE Second!Consume
  BY <1>p, <1>8 DEF Second!Consume, IsProcess, Consumes, GoesOn, Moves
<1>9. CASE Second!ReadFile \/ Second!CheckPrior \/ Second!CheckTarget \/ Second!CheckWritten
  BY <1>p, <1>9
  DEF Second!ReadFile, Second!CheckPrior, Second!CheckTarget, Second!CheckWritten, IsProcess,
      Same, Runs, Writes, Executes, GoesOn, Moves
<1>10. CASE Second!Replace
  BY <1>p, <1>10 DEF Second!Replace, IsProcess, Replaces, GoesOn, Moves
<1>c. ASSUME NEW target, NEW k, NEW result, NEW after,
             Second!Commit(target, k, result, after), second.att \in Attempts,
             UNCHANGED <<approvals, applied>>
      PROVE  \/ \E e : Same /\ second' = Second!Answered(e)
             \/ Same /\ ledger[second.att].state = target /\ second' = after
             \/ \E r : /\ target \in Second!BrokerTransitions(ledger[second.att].state)
                       /\ RowBecomes(second.att, r) /\ second' = after
                       /\ r.state = target /\ r.op = ledger[second.att].op
                       /\ r.approval = Coalesce(NoApproval, k, ledger[second.att].approval)
  <2>1. CASE target \in Second!BrokerTransitions(ledger[second.att].state)
    <3>1. PICK r : /\ r = Second!Updated(ledger[second.att], target, k, result)
                   /\ ledger' = [ledger EXCEPT ![second.att] = r]
      BY <1>c, <2>1 DEF Second!Commit, Shapes
    <3>2. /\ IsRow(r) /\ r.state = target /\ r.op = ledger[second.att].op
          /\ r.approval = Coalesce(NoApproval, k, ledger[second.att].approval)
      <4>1. PICK row : row = ledger[second.att] /\ IsRow(row)
        BY <1>c DEF Shapes
      <4>2. r = [row EXCEPT !.state = target,
                            !.approval = Coalesce(NoApproval, k, row.approval),
                            !.result = Second!Coalesce(Second!NoResult, result, row.result)]
        BY <3>1, <4>1
        DEF Second!Updated, Coalesce, Second!Coalesce, NoApproval, Second!NoApproval
      <4> QED BY <4>1, <4>2 DEF IsRow
    <3> QED BY <1>c, <2>1, <3>1, <3>2 DEF Second!Commit, RowBecomes
  <2>2. CASE target \notin Second!BrokerTransitions(ledger[second.att].state)
    BY <1>c, <2>2 DEF Second!Commit, Same
  <2> QED BY <2>1, <2>2
<1>s. ASSUME NEW target, NEW result, NEW after,
             Second!Commit(target, NoApproval, result, after),
             UNCHANGED <<approvals, applied>>,
             second.pc \in Waits \cup Runs,
             IsProcess(after), after.pc \in Rests,
             target = "REJECTED" \/ target = "UNCERTAIN" \/ target = "DELIVERY_ATTEMPTED"
      PROVE  Moves(second, second')
  <2>1. second.att \in Attempts
    BY <1>s DEF Relies, Waits, Runs, Rests
  <2>2. CASE \E e : Same /\ second' = Second!Answered(e)
    BY <1>a, <2>2 DEF Stops, Moves
  <2>3. CASE Same /\ second' = after
    BY <1>s, <2>3 DEF Stops, Moves
  <2>4. ASSUME NEW r, target \in Second!BrokerTransitions(ledger[second.att].state),
               RowBecomes(second.att, r), second' = after,
               r.state = target, r.op = ledger[second.att].op,
               r.approval = Coalesce(NoApproval, NoApproval, ledger[second.att].approval)
        PROVE  Moves(second, second')
    <3>1. r.state # Unrecorded /\ Sent(r.state) = Sent(ledger[second.att].state)
      BY <1>s, <2>4 DEF Second!BrokerTransitions, Sent
    <3>2. r.approval = ledger[second.att].approval
      BY <2>4 DEF Coalesce
    <3> QED BY <1>s, <2>4, <3>1, <3>2 DEF Settles, Moves
  <2> QED BY <1>s, <1>c, <2>1, <2>2, <2>3, <2>4
<1>11. CASE Second!Deny \/ Second!Raise \/ Second!Deliver
  <2>1. PICK target, result, after :
          /\ Second!Commit(target, NoApproval, result, after)
          /\ UNCHANGED <<approvals, applied>>
          /\ second.pc \in Waits \cup Runs
          /\ \/ \E e : after = Second!Answered(e)
             \/ after = [second EXCEPT !.pc = "receipt"]
          /\ target \in {"REJECTED", "UNCERTAIN", "DELIVERY_ATTEMPTED"}
    BY <1>11
    DEF Second!Deny, Second!Raise, Second!Deliver, Second!Executing, Waits, Runs,
        NoApproval, Second!NoApproval
  <2>2. IsProcess(after) /\ after.pc \in Rests
    BY <1>p, <2>1 DEF Second!Answered, IsProcess, Rests
  <2> QED BY <1>s, <2>1, <2>2
<1>12. CASE Second!Dispatch
  <2>1. PICK after : /\ after = [second EXCEPT !.pc = "execute"]
                     /\ Second!Commit("IN_FLIGHT", second.approval, NoResult, after)
                     /\ second.pc = "dispatch"
                     /\ UNCHANGED <<approvals, applied>>
    BY <1>12 DEF Second!Dispatch, NoResult, Second!NoResult
  <2>2. /\ IsProcess(after) /\ after.pc = "execute"
        /\ after.att = second.att /\ after.op = second.op
    BY <1>p, <2>1 DEF IsProcess
  <2>3. second.att \in Attempts
    BY <2>1 DEF Relies, Rests
  <2>4. CASE \E e : Same /\ second' = Second!Answered(e)
    BY <1>a, <2>4 DEF Stops, Moves
  <2>5. CASE Same /\ ledger[second.att].state = "IN_FLIGHT" /\ second' = after
    BY <2>1, <2>2, <2>5 DEF Dispatches, GoesOn, Moves
  <2>6. ASSUME NEW r, RowBecomes(second.att, r), second' = after,
               r.state = "IN_FLIGHT", r.op = ledger[second.att].op,
               r.approval = Coalesce(NoApproval, second.approval, ledger[second.att].approval)
        PROVE  Moves(second, second')
    BY <2>1, <2>2, <2>6 DEF Dispatches, GoesOn, Moves
  <2> QED BY <1>c, <2>1, <2>3, <2>4, <2>5, <2>6
<1>13. CASE Second!Accept /\ ~Second!New
  BY <1>13 DEF Second!Accept, Second!New
<1> QED
  BY <1>1, <1>2, <1>3, <1>4, <1>5, <1>6, <1>7, <1>8, <1>9, <1>10, <1>11, <1>12, <1>13
  DEF Second!SharedNext, Second!Submitting

-----------------------------------------------------------------------------
(* What the one guarantees and the other relies on. *)

\* What a step of a Broker does not do to what the other Broker knows.
Guarantee ==
  /\ \A a \in Attempts : ledger[a].state # Unrecorded =>
       /\ ledger'[a].state # Unrecorded
       /\ ledger'[a].op = ledger[a].op
       /\ Sent(ledger[a].state) => Sent(ledger'[a].state)
  /\ \A k \in ApprovalIds : approvals[k].att # NoAttempt =>
       /\ approvals'[k].att = approvals[k].att
       /\ approvals'[k].op = approvals[k].op
       /\ approvals[k].consumed = TRUE => approvals'[k].consumed = TRUE

LEMMA CoveredStays ==
  ASSUME Guarantee, NEW a \in Attempts, NEW o, NEW k, Covered(a, o, k)
  PROVE  Covered(a, o, k)'
BY AttemptsAssumption DEF Guarantee, Covered

LEMMA ReliesStays ==
  ASSUME Guarantee, NEW p, Relies(p)
  PROVE  Relies(p)'
<1> USE DEF Relies
<1>1. p.pc \in Waits \cup Runs => p.att \in Attempts
  BY DEF Waits, Runs, Rests
<1>2. p.pc \in Waits \cup Runs =>
        ledger'[p.att].state # Unrecorded /\ ledger'[p.att].op = p.op
  BY <1>1 DEF Guarantee
<1>3. p.pc \in Runs => Sent(ledger'[p.att].state)
  BY <1>1 DEF Guarantee
<1>4. p.pc = "consume" =>
        approvals'[p.approval].att = p.att /\ approvals'[p.approval].op = p.op
  BY <1>1, AttemptsAssumption DEF Guarantee, Waits
<1>5. p.pc = "dispatch" /\ p.approval # NoApproval => Covered(p.att, p.op, p.approval)'
  BY <1>1, CoveredStays DEF Waits
<1> QED BY <1>2, <1>3, <1>4, <1>5

\* A row moves on, and keeps what is known of it.
LEMMA RowGoesOn ==
  ASSUME Shapes, RowsAreCovered, NEW a \in Attempts, NEW r, RowBecomes(a, r),
         r.state # Unrecorded, r.op \in Operations,
         ledger[a].state # Unrecorded =>
           r.op = ledger[a].op /\ (Sent(ledger[a].state) => Sent(r.state)),
         r.approval # NoApproval => Covered(a, r.op, r.approval),
         Sent(r.state) /\ Writes(r.op) => r.approval # NoApproval
  PROVE  Shapes' /\ Guarantee /\ RowsAreCovered' /\ ledger'[a] = r
<1>1. /\ \A b \in Attempts : ledger'[b] = IF b = a THEN r ELSE ledger[b]
      /\ ledger' = [b \in Attempts |-> ledger'[b]]
      /\ UNCHANGED <<approvals, applied>>
  BY DEF RowBecomes, Shapes
<1>2. Shapes'
  BY <1>1 DEF RowBecomes, Shapes
<1>3. Guarantee
  BY <1>1 DEF Guarantee
<1>4. ASSUME NEW b \in Attempts
      PROVE  /\ ledger'[b].state # Unrecorded => ledger'[b].op \in Operations
             /\ ledger'[b].approval # NoApproval =>
                  Covered(b, ledger'[b].op, ledger'[b].approval)
             /\ Sent(ledger'[b].state) /\ Writes(ledger'[b].op) =>
                  ledger'[b].approval # NoApproval
             /\ applied[b] > 0 => Sent(ledger'[b].state) /\ Writes(ledger'[b].op)
  <2>1. CASE b = a
    BY <1>1, <2>1 DEF RowsAreCovered, Sent
  <2>2. CASE b # a
    BY <1>1, <2>2 DEF RowsAreCovered
  <2> QED BY <2>1, <2>2
<1>5. RowsAreCovered'
  BY <1>1, <1>4 DEF RowsAreCovered, Covered
<1> QED BY <1>1, <1>2, <1>3, <1>5

\* Approvals are issued and used up, and keep what they are for.
LEMMA ApprovalGoesOn ==
  ASSUME Shapes, RowsAreCovered, NEW k \in ApprovalIds, NEW i, IsApproval(i),
         approvals' = [approvals EXCEPT ![k] = i],
         UNCHANGED <<ledger, applied>>,
         approvals[k].att # NoAttempt =>
           /\ i.att = approvals[k].att /\ i.op = approvals[k].op
           /\ approvals[k].consumed = TRUE => i.consumed = TRUE
  PROVE  Shapes' /\ Guarantee /\ RowsAreCovered' /\ approvals'[k] = i
<1>1. /\ \A j \in ApprovalIds : approvals'[j] = IF j = k THEN i ELSE approvals[j]
      /\ approvals' = [j \in ApprovalIds |-> approvals'[j]]
  BY DEF Shapes
<1>2. Shapes'
  BY <1>1 DEF Shapes
<1>3. Guarantee
  BY <1>1 DEF Guarantee
<1>4. \A a \in Attempts : \A o, j : Covered(a, o, j) => Covered(a, o, j)'
  BY <1>3, CoveredStays
<1>5. RowsAreCovered'
  <2> SUFFICES ASSUME NEW a \in Attempts
               PROVE  (/\ ledger[a].state # Unrecorded => ledger[a].op \in Operations
                       /\ ledger[a].approval # NoApproval =>
                            Covered(a, ledger[a].op, ledger[a].approval)
                       /\ Sent(ledger[a].state) /\ Writes(ledger[a].op) =>
                            ledger[a].approval # NoApproval
                       /\ applied[a] > 0 =>
                            Sent(ledger[a].state) /\ Writes(ledger[a].op))'
    BY DEF RowsAreCovered
  <2>1. PICK o, j : o = ledger[a].op /\ j = ledger[a].approval
    OBVIOUS
  <2>2. j # NoApproval => Covered(a, o, j)'
    BY <1>4, <2>1 DEF RowsAreCovered
  <2> QED BY <2>1, <2>2 DEF RowsAreCovered, Covered
<1> QED BY <1>1, <1>2, <1>3, <1>5

LEMMA MovesKeep ==
  ASSUME Shapes, RowsAreCovered, NEW p, NEW q, Relies(p), Moves(p, q)
  PROVE  Shapes' /\ Guarantee /\ RowsAreCovered' /\ Relies(q)'
<1> USE DEF Waits, Runs, Rests
<1>p. IsProcess(q)
  BY DEF Moves
<1>a. p.pc \notin Rests => p.att \in Attempts /\ p.op \in Operations
  BY DEF Relies
<1>r. ASSUME p.pc \in Waits \cup Runs
      PROVE  ledger[p.att].state # Unrecorded /\ ledger[p.att].op = p.op
  BY <1>r DEF Relies
<1>s. ASSUME Same
      PROVE  Shapes' /\ Guarantee /\ RowsAreCovered'
  BY <1>s DEF Same, Shapes, Guarantee, RowsAreCovered, Covered
<1>1. CASE Stops(p, q)
  BY <1>1, <1>p, <1>s DEF Stops, Relies
<1>2. CASE Called(p, q)
  BY <1>2, <1>p, <1>s DEF Called, Relies
<1>3. CASE Settles(p, q)
  <2>1. PICK r : /\ p.pc \in Waits \cup Runs /\ q.pc \in Rests
                 /\ RowBecomes(p.att, r)
                 /\ r.state # Unrecorded /\ Sent(r.state) = Sent(ledger[p.att].state)
                 /\ r.op = ledger[p.att].op /\ r.approval = ledger[p.att].approval
    BY <1>3 DEF Settles
  <2>2. p.att \in Attempts /\ r.op \in Operations
    BY <1>a, <1>r, <2>1
  <2>3. Shapes' /\ Guarantee /\ RowsAreCovered'
    BY <2>1, <2>2, RowGoesOn DEF RowsAreCovered
  <2> QED BY <1>p, <2>1, <2>3 DEF Relies
<1>4. CASE LooksUp(p, q) /\ q.att = p.att /\ q.op = p.op
  BY <1>4, <1>a, <1>p, <1>s DEF LooksUp, Relies
<1>5. CASE Inserts(p, q) /\ q.att = p.att /\ q.op = p.op
  <2>1. PICK r : /\ p.pc = "accept"
                 /\ ledger[p.att].state = Unrecorded
                 /\ RowBecomes(p.att, r)
                 /\ r.state = "ACCEPTED" /\ r.op = p.op /\ r.approval = NoApproval
                 /\ Begins(p, q, r)
    BY <1>5 DEF Inserts
  <2>2. p.att \in Attempts /\ p.op \in Operations
    BY <1>a, <2>1
  <2>3. Shapes' /\ Guarantee /\ RowsAreCovered' /\ ledger'[p.att] = r
    BY <2>1, <2>2, RowGoesOn DEF Sent, Unrecorded
  <2> QED BY <1>5, <1>p, <2>1, <2>2, <2>3 DEF Begins, Relies, Unrecorded
<1>6. CASE Finds(p, q) /\ q.att = p.att /\ q.op = p.op
  <2>1. /\ Same /\ p.att \in Attempts /\ p.op \in Operations
        /\ ledger[p.att].state # Unrecorded /\ ledger[p.att].op = p.op
        /\ Begins(p, q, ledger[p.att])
    BY <1>6, <1>a DEF Finds
  <2>2. q.approval # NoApproval => Covered(q.att, q.op, q.approval)
    BY <1>6, <2>1 DEF Begins, RowsAreCovered
  <2>3. q.approval # NoApproval => Covered(q.att, q.op, q.approval)'
    BY <2>1, <2>2 DEF Same, Covered
  <2>4. ledger' = ledger
    BY <2>1 DEF Same
  <2> QED BY <1>6, <1>p, <1>s, <2>1, <2>3, <2>4 DEF Begins, Relies
<1>7. ASSUME NEW k \in ApprovalIds, Issues(p, q, k), q.att = p.att, q.op = p.op
      PROVE  Shapes' /\ Guarantee /\ RowsAreCovered' /\ Relies(q)'
  <2>1. PICK i : /\ i = [att |-> p.att, op |-> p.op, consumed |-> FALSE]
                 /\ approvals' = [approvals EXCEPT ![k] = i]
    BY <1>7 DEF Issues
  <2>2. IsApproval(i) /\ i.att = p.att /\ i.op = p.op
    BY <2>1 DEF IsApproval
  <2>3. Shapes' /\ Guarantee /\ RowsAreCovered' /\ approvals'[k] = i
    BY <1>7, <2>1, <2>2, ApprovalGoesOn DEF Issues
  <2>4. p.pc = "approve" /\ q.pc = "consume" /\ q.approval = k /\ ledger' = ledger
    BY <1>7 DEF Issues
  <2> QED BY <1>7, <1>a, <1>p, <1>r, <2>2, <2>3, <2>4 DEF Relies
<1>8. CASE Consumes(p, q) /\ q.att = p.att /\ q.op = p.op
  <2>1. /\ p.pc = "consume" /\ q.pc = "dispatch" /\ q.approval = p.approval
        /\ UNCHANGED <<ledger, applied>>
        /\ approvals' = [approvals EXCEPT ![p.approval].consumed = TRUE]
    BY <1>8 DEF Consumes
  <2>2. /\ p.approval \in ApprovalIds
        /\ approvals[p.approval].att = p.att /\ approvals[p.approval].op = p.op
    BY <2>1 DEF Relies
  <2>3. PICK i : /\ i = [approvals[p.approval] EXCEPT !.consumed = TRUE]
                 /\ approvals' = [approvals EXCEPT ![p.approval] = i]
    BY <2>1, <2>2 DEF Shapes
  <2>4. IsApproval(i) /\ i.att = p.att /\ i.op = p.op /\ i.consumed = TRUE
    <3>1. PICK j : j = approvals[p.approval] /\ IsApproval(j)
      BY <2>2 DEF Shapes
    <3> QED BY <2>2, <2>3, <3>1 DEF IsApproval
  <2>5. Shapes' /\ Guarantee /\ RowsAreCovered' /\ approvals'[p.approval] = i
    <3>1. UNCHANGED <<ledger, applied>>
      BY <2>1
    <3>2. /\ i.att = approvals[p.approval].att /\ i.op = approvals[p.approval].op
          /\ p.approval \in ApprovalIds
          /\ approvals' = [approvals EXCEPT ![p.approval] = i]
      BY <2>2, <2>3, <2>4
    <3> QED BY <2>4, <3>1, <3>2, ApprovalGoesOn
  <2>6. Covered(q.att, q.op, q.approval)'
    BY <1>8, <2>1, <2>2, <2>4, <2>5 DEF Covered
  <2>7. q.approval # NoApproval
    BY <2>1, <2>2, SharedApprovalIdsAssumption
  <2> QED BY <1>8, <1>a, <1>p, <1>r, <2>1, <2>5, <2>6, <2>7 DEF Relies
<1>9. CASE Dispatches(p, q) /\ q.att = p.att /\ q.op = p.op
  <2>1. /\ p.pc = "dispatch" /\ q.pc = "execute" /\ p.att \in Attempts
        /\ p.op \in Operations
        /\ ledger[p.att].state # Unrecorded /\ ledger[p.att].op = p.op
    BY <1>9, <1>a, <1>r DEF Dispatches
  <2>2. CASE Same /\ ledger[p.att].state = "IN_FLIGHT"
    <3>1. Sent(ledger'[p.att].state) /\ ledger' = ledger
      BY <2>2 DEF Same, Sent, Unrecorded
    <3> QED BY <1>9, <1>p, <1>s, <2>1, <2>2, <3>1 DEF Relies
  <2>3. ASSUME NEW r, RowBecomes(p.att, r),
               r.state = "IN_FLIGHT", r.op = ledger[p.att].op,
               r.approval = Coalesce(NoApproval, p.approval, ledger[p.att].approval)
        PROVE  Shapes' /\ Guarantee /\ RowsAreCovered' /\ Relies(q)'
    <3>1. r.state # Unrecorded /\ Sent(r.state)
      BY <2>3 DEF Sent, Unrecorded
    <3>2. /\ r.approval # NoApproval => Covered(p.att, r.op, r.approval)
          /\ Writes(r.op) => r.approval # NoApproval
      BY <2>1, <2>3 DEF Relies, RowsAreCovered, Coalesce
    <3>3. Shapes' /\ Guarantee /\ RowsAreCovered' /\ ledger'[p.att] = r
      BY <2>1, <2>3, <3>1, <3>2, RowGoesOn
    <3> QED BY <1>9, <1>p, <2>1, <2>3, <3>1, <3>3 DEF Relies
  <2> QED BY <1>9, <2>2, <2>3 DEF Dispatches
<1>10. CASE Executes(p, q) /\ q.att = p.att /\ q.op = p.op
  BY <1>10, <1>a, <1>p, <1>r, <1>s DEF Executes, Same, Relies
<1>11. CASE Replaces(p, q) /\ q.att = p.att /\ q.op = p.op
  <2>1. /\ p.pc = "replace" /\ q.pc = "check" /\ p.att \in Attempts
        /\ ledger[p.att].op = p.op /\ ledger[p.att].state # Unrecorded
        /\ Sent(ledger[p.att].state) /\ Writes(p.op) /\ p.op \in Operations
        /\ UNCHANGED <<ledger, approvals>>
    BY <1>11, <1>a DEF Replaces, Relies
  <2>2. /\ applied' \in [Attempts -> Nat]
        /\ \A a \in Attempts : a # p.att => applied'[a] = applied[a]
    BY <1>11, <2>1 DEF Replaces, Shapes
  <2>3. Shapes' /\ Guarantee
    BY <2>1, <2>2 DEF Shapes, Guarantee
  <2>4. RowsAreCovered'
    BY <2>1, <2>2 DEF RowsAreCovered, Covered
  <2> QED BY <1>11, <1>p, <2>1, <2>3, <2>4 DEF Relies
<1> QED
  BY <1>1, <1>2, <1>3, <1>4, <1>5, <1>6, <1>7, <1>8, <1>9, <1>10, <1>11
  DEF Moves, GoesOn

-----------------------------------------------------------------------------
(* The theorem. *)

LEMMA TwoInitInv == TwoInit => TwoInv
<1> SUFFICES ASSUME TwoInit PROVE TwoInv
  OBVIOUS
<1>1. /\ ledger = [a \in Attempts |-> First!NoRow]
      /\ approvals = [k \in ApprovalIds |-> First!Unissued]
      /\ applied = [a \in Attempts |-> 0]
      /\ first = First!Down /\ second = Second!Down
  BY DEF TwoInit, First!BrokerInit, Second!BrokerInit
<1>2. /\ IsRow(First!NoRow) /\ IsApproval(First!Unissued)
      /\ First!NoRow.state = Unrecorded /\ First!NoRow.approval = NoApproval
  BY DEF IsRow, IsApproval, First!NoRow, First!Unissued, First!Unrecorded, Unrecorded,
         First!NoApproval, NoApproval
<1>3. Shapes
  BY <1>1, <1>2 DEF Shapes
<1>4. RowsAreCovered
  <2>1. \A a \in Attempts : /\ ledger[a].state = Unrecorded
                            /\ ledger[a].approval = NoApproval
                            /\ applied[a] = 0
    BY <1>1, <1>2
  <2>2. \A a \in Attempts : ~Sent(ledger[a].state)
    BY <2>1 DEF Sent
  <2>3. ~(0 > 0)
    OBVIOUS
  <2>4. \A a \in Attempts : ~(applied[a] > 0)
    BY <2>1, <2>3
  <2> QED BY <2>1, <2>2, <2>4 DEF RowsAreCovered
<1>5. \A p \in {first, second} : IsProcess(p) /\ p.pc = "down"
  BY <1>1
  DEF First!Down, First!Idle, Second!Down, Second!Idle, IsProcess
<1>6. Relies(first) /\ Relies(second)
  BY <1>5 DEF Relies, Rests, Waits, Runs
<1> QED BY <1>3, <1>4, <1>6 DEF TwoInv

LEMMA TwoStep == TwoInv /\ [TwoNext]_twoVars => TwoInv'
<1>1. ASSUME TwoInv, First!SharedNext, UNCHANGED second
      PROVE  TwoInv'
  <2>1. Moves(first, first')
    BY <1>1, FirstMoves DEF TwoInv
  <2>2. PICK q, o : q = first' /\ o = second
    OBVIOUS
  <2>3. Shapes' /\ Guarantee /\ RowsAreCovered' /\ Relies(q)'
    BY <1>1, <2>1, <2>2, MovesKeep DEF TwoInv
  <2>4. Relies(o)'
    BY <1>1, <2>2, <2>3, ReliesStays DEF TwoInv
  <2>5. Relies(first)' /\ Relies(second)'
    BY <1>1, <2>2, <2>3, <2>4 DEF Relies, Covered, IsProcess
  <2> QED BY <2>3, <2>5 DEF TwoInv
<1>2. ASSUME TwoInv, Second!SharedNext, UNCHANGED first
      PROVE  TwoInv'
  <2>1. Moves(second, second')
    BY <1>2, SecondMoves DEF TwoInv
  <2>2. PICK q, o : q = second' /\ o = first
    OBVIOUS
  <2>3. Shapes' /\ Guarantee /\ RowsAreCovered' /\ Relies(q)'
    BY <1>2, <2>1, <2>2, MovesKeep DEF TwoInv
  <2>4. Relies(o)'
    BY <1>2, <2>2, <2>3, ReliesStays DEF TwoInv
  <2>5. Relies(first)' /\ Relies(second)'
    BY <1>2, <2>2, <2>3, <2>4 DEF Relies, Covered, IsProcess
  <2> QED BY <2>3, <2>5 DEF TwoInv
<1>3. ASSUME TwoInv, UNCHANGED twoVars
      PROVE  TwoInv'
  BY <1>3 DEF twoVars, TwoInv, Shapes, RowsAreCovered, Relies, Covered
<1> QED BY <1>1, <1>2, <1>3 DEF TwoNext

\* However the steps of two Brokers on one state directory interleave, a file is
\* changed for an attempt only under a consumed approval for it and its recorded
\* operation (broker.py:52-94, storage.py:303-330, approval.py:85-97).
THEOREM ApprovalBeforeEffectOfTwo == TwoSpec => []EffectWasApproved
<1>1. TwoInv => EffectWasApproved
  BY DEF TwoInv, Shapes, RowsAreCovered, Covered, EffectWasApproved,
         First!EffectWasApproved, First!Approved
<1> QED BY <1>1, TwoInitInv, TwoStep, PTL DEF TwoSpec

=============================================================================
