----------------------------- MODULE MC_Blocks -----------------------------
(***************************************************************************)
(* Two blocks the RCU is built from, the FIFO and the issue arbiter.  They   *)
(* are checked apart: a behaviour is one of the FIFO or one of the arbiter,  *)
(* and the other block keeps its first state.                               *)
(***************************************************************************)
EXTENDS F2if2o, MC_OldestTwo

VARIABLE block

NoRequest ==
  [prio |-> 0, req |-> [e \in Entries |-> FALSE], req_ls |-> [e \in Entries |-> FALSE],
   new_req |-> <<FALSE, FALSE>>, new_req_ls |-> <<FALSE, FALSE>>]

BlocksInit ==
  /\ Init
  /\ \/ block = "fifo" /\ in = NoRequest
     \/ block = "arbiter" /\ ArbiterInit

BlocksNext ==
  \/ block = "fifo" /\ Next /\ UNCHANGED <<in, block>>
  \/ block = "arbiter" /\ Rotate /\ UNCHANGED <<vars, block>>

BlocksSpec == BlocksInit /\ [][BlocksNext]_<<vars, in, block>>
=============================================================================
