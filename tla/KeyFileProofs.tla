---------------------------- MODULE KeyFileProofs ----------------------------
(***************************************************************************)
(* Theorems about KeyFile, for any processes and any keys.                 *)
(***************************************************************************)
EXTENDS KeyFile, TLAPS

LEMMA InitKeyInv == Init => KeyInv
  BY DEF Init, KeyInv, TypeOK, LoadInv, KeysAgree

\* Every step keeps what is known of the file.
LEMMA NextKeyInv == KeyInv /\ [Next]_vars => KeyInv'
<1> SUFFICES ASSUME KeyInv, [Next]_vars
             PROVE  KeyInv'
    OBVIOUS
<1> USE KeysAssumption DEF Missing, Empty, KeyInv, TypeOK, LoadInv, KeysAgree
<1>1. CASE UNCHANGED vars
    BY <1>1 DEF vars
<1>2. ASSUME NEW p \in Processes, Load(p)
      PROVE  KeyInv'
  <2>1. CASE Look(p)
        BY <2>1 DEF Look, Moves
  <2>2. CASE Read(p)
        BY <2>2 DEF Read, Moves
  <2>3. CASE Create(p)
    <3>1. PICK k \in Keys : key' = [key EXCEPT ![p] = k]
          BY <2>3 DEF Create
    <3>2. /\ file = Missing
          /\ file' = Empty
          /\ pc' = [pc EXCEPT ![p] = "write"]
          BY <2>3 DEF Create, Moves
    <3>3. \A q \in Processes :
             pc[q] \notin {"read", "running", "write"} /\ (pc[q] = "check" => key[q] = Empty)
          BY <3>2
    <3> QED BY <3>1, <3>2, <3>3
  <2>4. CASE CreateRaced(p)
        BY <2>4 DEF CreateRaced, Moves
  <2>5. CASE Write(p)
        BY <2>5 DEF Write, Moves
  <2>6. CASE Accepted(p)
        BY <2>6 DEF Accepted, Moves
  <2>7. CASE TooShort(p)
        BY <2>7 DEF TooShort, Moves
  <2> QED BY <1>2, <2>1, <2>2, <2>3, <2>4, <2>5, <2>6, <2>7 DEF Load
<1>3. ASSUME NEW p \in Processes, Exit(p) \/ Kill(p)
      PROVE  KeyInv'
    BY <1>3 DEF Exit, Kill, Moves
<1> QED BY <1>1, <1>2, <1>3 DEF Next

\* KeyInv holds in every reachable state.
THEOREM KeyInvariant == Spec => []KeyInv
  BY InitKeyInv, NextKeyInv, PTL DEF Spec

\* Running processes hold one key, that of the file.
THEOREM OneKey == Spec => []KeysAgree
<1>1. KeyInv => KeysAgree
      BY DEF KeyInv
<1> QED BY <1>1, KeyInvariant, PTL

\* No step replaces a key that is in the file: only Create and Write change it,
\* and while one is between the two the file is empty.
THEOREM KeyIsNeverReplaced == Spec => KeyIsPermanent
<1>1. KeyInv /\ [Next]_vars => [(file \in Keys) => file' = file]_vars
  <2> SUFFICES ASSUME KeyInv, Next, file \in Keys
               PROVE  file' = file
      OBVIOUS
  <2>1. \A p \in Processes : ~Create(p) /\ ~Write(p)
        BY KeysAssumption DEF Missing, Empty, KeyInv, LoadInv, Create, Write, Moves
  <2> QED BY <2>1 DEF Next, Load, Look, Read, CreateRaced, Accepted, TooShort,
                      Exit, Kill
<1> QED BY <1>1, KeyInvariant, PTL DEF Spec, KeyIsPermanent

=============================================================================
