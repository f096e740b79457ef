------------------------------ MODULE Callback ------------------------------
(***************************************************************************)
(* callback/callback-libapi.c: a callback is a trampoline of TrampolineR   *)
(* whose address is the receiver, __vacall_r, and whose two data words are *)
(* the client's function and its data.  Other trampolines, that jump to    *)
(* anything else, may live next to the callbacks.                          *)
(***************************************************************************)
EXTENDS TrampolineR

CONSTANT Receiver      \* callback_get_receiver ()

ASSUME ReceiverAssumption ==
  /\ Receiver \in Addresses
  /\ \A d \in Datas : d = <<d[1], d[2]>>

(* What alloc_callback asks of alloc_trampoline_r: the request of CallAlloc.*)
alloc_callback(address, data) ==
  [address |-> Receiver, data |-> <<address, data>>]

(* Mutant: any trampoline passes for a callback.                           *)
is_callback_unchecked(f) == is_trampoline_r(f)

is_callback(f) == is_trampoline_r(f) /\ trampoline_r_address(f) = Receiver

callback_address(f) == trampoline_r_data(f)[1]
callback_data(f)    == trampoline_r_data(f)[2]

(* Calling f: the receiver finds the two words through the register and    *)
(* calls env->vacall_function with env->arg and the va_alist.              *)
Called(f) ==
  LET env == Invoke(f).data
  IN  IF Invoke(f).address = Receiver
      THEN [vacall_function |-> env[1], arg |-> env[2]] ELSE Crash

(* callback.h on is_callback: "Tests whether a given pointer is a function *)
(* pointer returned by alloc_callback()."  Of the pointers that no thread  *)
(* is building or freeing, it tells the callbacks from the other closures  *)
(* and from the freed slots; a callback is that of an alloc_callback with  *)
(* what callback_address and callback_data return, and when it is called   *)
(* it calls that function with that data.                                  *)
CallbacksAgree ==
  \A f \in Pointers :
    /\ maps[f[1]].prot = "rx"
    /\ \A t \in Threads : ~Owns(t, CellOf(f))
    => /\ is_callback(f) <=> f \in DOMAIN held /\ held[f].address = Receiver
       /\ is_callback(f) =>
            /\ held[f] = alloc_callback(callback_address(f), callback_data(f))
            /\ Called(f) = [vacall_function |-> callback_address(f),
                            arg             |-> callback_data(f)]
=============================================================================
