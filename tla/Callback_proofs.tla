-------------------------- MODULE Callback_proofs --------------------------
(***************************************************************************)
(* The queries of callback-libapi.c, from those of trampoline_r and from   *)
(* ClosureIntact, for any number of threads, pages and slots.              *)
(***************************************************************************)
EXTENDS Callback, TrampolineR_proofs

LEMMA CallbackCalls ==
  ASSUME ClosureIntact, NEW f \in DOMAIN held, held[f].address = Receiver,
         held[f].data = trampoline_r_data(f)
  PROVE  Called(f) = [vacall_function |-> callback_address(f),
                      arg             |-> callback_data(f)]
<1>1. Invoke(f) = held[f]
  BY DEF ClosureIntact
<1> QED
  BY <1>1 DEF Called, callback_address, callback_data

LEMMA QueriesOfCallbacks ==
  ASSUME ClosureIntact, QueriesAgree, TypeOK
  PROVE  CallbacksAgree
<1> SUFFICES ASSUME NEW f \in Pointers, maps[f[1]].prot = "rx",
                    \A t \in Threads : ~Owns(t, CellOf(f))
             PROVE  /\ is_callback(f) <=>
                         f \in DOMAIN held /\ held[f].address = Receiver
                    /\ is_callback(f) =>
                         /\ held[f] = alloc_callback(callback_address(f),
                                                     callback_data(f))
                         /\ Called(f) =
                              [vacall_function |-> callback_address(f),
                               arg             |-> callback_data(f)]
  BY DEF CallbacksAgree
<1>1. /\ is_trampoline_r(f) <=> f \in DOMAIN held
      /\ f \in DOMAIN held =>
           held[f] = [address |-> trampoline_r_address(f),
                      data    |-> trampoline_r_data(f)]
  BY DEF QueriesAgree
<1>2. is_callback(f) <=> f \in DOMAIN held /\ held[f].address = Receiver
  BY <1>1 DEF is_callback
<1>3. ASSUME is_callback(f)
      PROVE  /\ held[f] = alloc_callback(callback_address(f), callback_data(f))
             /\ Called(f) = [vacall_function |-> callback_address(f),
                             arg             |-> callback_data(f)]
  <2>1. /\ held[f] \in Requests
        /\ held[f].address = Receiver
        /\ held[f].data = trampoline_r_data(f)
    BY <1>1, <1>2, <1>3 DEF TypeOK
  <2>2. held[f].data = <<held[f].data[1], held[f].data[2]>>
    BY <2>1, ReceiverAssumption DEF Requests
  <2>3. held[f] = [address |-> Receiver, data |-> held[f].data]
    BY <2>1 DEF Requests
  <2>4. held[f] = alloc_callback(callback_address(f), callback_data(f))
    BY <2>1, <2>2, <2>3 DEF alloc_callback, callback_address, callback_data
  <2> QED
    BY <1>2, <1>3, <2>1, <2>4, CallbackCalls
<1> QED
  BY <1>2, <1>3

(* is_callback tells callbacks from everything else, and a callback calls  *)
(* the function and passes the data that the accessors return, whatever    *)
(* the threads of the program are doing in the allocator.                  *)
THEOREM CallbackQueries == Spec => []CallbacksAgree
<1>1. IInv => CallbacksAgree
  BY IInvClosureIntact, IInvQueriesAgree, QueriesOfCallbacks DEF IInv
<1> QED
  BY <1>1, Invariance, PTL
=============================================================================
