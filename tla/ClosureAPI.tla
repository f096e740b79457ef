----------------------------- MODULE ClosureAPI -----------------------------
(***************************************************************************)
(* What callback.h and trampoline_r.h promise to a multithreaded program:  *)
(* a closure is a function pointer that, when invoked, calls its ADDRESS   *)
(* with its DATA, and it does so from the return of alloc_callback() until *)
(* the call of free_callback(), whatever the other threads allocate and    *)
(* free in the meantime ("The callback has indefinite extent").            *)
(*                                                                         *)
(* TrampolineR implements this specification.                              *)
(***************************************************************************)
CONSTANTS
  Threads,    \* the threads of the program
  Pointers,   \* the function pointers that can be returned
  Behaviours  \* what a closure can do: the ADDRESS it calls and its DATA

VARIABLES
  closures,   \* the live closures: function pointer -> what invoking it does
  pending,    \* the API call each thread is executing
  dead        \* the process has called abort()

vars == <<closures, pending, dead>>

NoCall      == [op |-> "none"]
Alloc(b)    == [op |-> "alloc", what |-> b]
Free        == [op |-> "free"]

Init ==
  /\ closures = <<>>
  /\ pending = [t \in Threads |-> NoCall]
  /\ dead = FALSE

Call(t, op) ==
  /\ ~dead /\ pending[t] = NoCall
  /\ pending' = [pending EXCEPT ![t] = op]
  /\ UNCHANGED dead

CallAlloc(t, b) == Call(t, Alloc(b)) /\ UNCHANGED closures

(* The pointer returned is that of no live closure, and it does what the   *)
(* caller asked for; no other closure is affected.                         *)
ReturnAlloc(t, f) ==
  /\ ~dead /\ pending[t].op = "alloc"
  /\ f \notin DOMAIN closures
  /\ closures' = [g \in DOMAIN closures \cup {f} |->
                    IF g = f THEN pending[t].what ELSE closures[g]]
  /\ pending' = [pending EXCEPT ![t] = NoCall]
  /\ UNCHANGED dead

CallFree(t, f) ==
  /\ f \in DOMAIN closures
  /\ Call(t, Free)
  /\ closures' = [g \in DOMAIN closures \ {f} |-> closures[g]]

ReturnFree(t) ==
  /\ ~dead /\ pending[t] = Free
  /\ pending' = [pending EXCEPT ![t] = NoCall]
  /\ UNCHANGED <<closures, dead>>

(* Out of memory, or of file space, during an allocation.                  *)
Abort ==
  /\ ~dead /\ dead' = TRUE
  /\ \E t \in Threads : pending[t].op = "alloc"
  /\ UNCHANGED <<closures, pending>>

Next ==
  \/ \E t \in Threads :
       \/ \E b \in Behaviours : CallAlloc(t, b)
       \/ \E f \in Pointers : ReturnAlloc(t, f) \/ CallFree(t, f)
       \/ ReturnFree(t)
  \/ Abort

Spec == Init /\ [][Next]_vars
=============================================================================
