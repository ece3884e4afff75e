-------------------------- MODULE OperationContract --------------------------
(***************************************************************************)
(* What the system promises for a logical operation, with no attempts, no  *)
(* journals and no crashes in it: a write changes its file at most once,   *)
(* in one step that compares and swaps, while the operation is pending;    *)
(* then it is settled, and what it is settled as tells the truth.          *)
(***************************************************************************)
EXTENDS Naturals

CONSTANTS
  Operations,
  Params,  \* action, path, content, prior and overwrite of each operation
  Absent,  \* no file
  NoHash   \* no prior content is expected

VARIABLES
  phase,    \* what is known of each operation
  changes,  \* how often each operation changed its file
  files     \* what each path holds, at first anything

vars == <<phase, changes, files>>

File(o)   == files[Params[o].path]
Writes(o) == Params[o].action = "write_file_atomic"

Init ==
  /\ phase   = [o \in Operations |-> "none"]
  /\ changes = [o \in Operations |-> 0]

Move(o, from, to) ==
  /\ phase[o] = from
  /\ phase' = [phase EXCEPT ![o] = to]

Ask(o) == Move(o, "none", "pending") /\ UNCHANGED <<changes, files>>

CompareAndSwap(o) ==
  /\ Writes(o)
  /\ phase[o] = "pending"
  /\ changes[o] = 0
  /\ Params[o].prior \in {NoHash, File(o)}
  /\ File(o) # Absent => Params[o].overwrite
  /\ files' = [files EXCEPT ![Params[o].path] = Params[o].content]
  /\ changes' = [changes EXCEPT ![o] = 1]
  /\ UNCHANGED phase

Verify(o) ==
  /\ IF Writes(o) THEN File(o) = Params[o].content ELSE File(o) # Absent
  /\ Move(o, "pending", "verified")
  /\ UNCHANGED <<changes, files>>

Reject(o) ==
  /\ changes[o] = 0
  /\ Move(o, "pending", "rejected")
  /\ UNCHANGED <<changes, files>>

GiveUp(o) == Move(o, "pending", "uncertain") /\ UNCHANGED <<changes, files>>

Next ==
  /\ vars' # vars
  /\ \E o \in Operations :
       Ask(o) \/ CompareAndSwap(o) \/ Verify(o) \/ Reject(o) \/ GiveUp(o)

Spec == Init /\ [][Next]_vars

=============================================================================
