---------------------------- MODULE MC_OldestTwo ----------------------------
(***************************************************************************)
(* The arbiter against its definition, for every input of a small width.     *)
(* The only step moves the priority, as a commit does.                       *)
(***************************************************************************)
EXTENDS OldestTwo

VARIABLE in

Inputs ==
  [prio : Entries, req : [Entries -> BOOLEAN], req_ls : [Entries -> BOOLEAN],
   new_req : BOOLEAN \X BOOLEAN, new_req_ls : BOOLEAN \X BOOLEAN]

ArbiterInit == in \in Inputs

Rotate == in' = [in EXCEPT !.prio = EntryOfAge(in.prio, 1)]

ArbiterSpec == ArbiterInit /\ [][Rotate]_in

-----------------------------------------------------------------------------
\* The rotation, the lowest-bit trick and the two priority chains of the
\* arbiter compute exactly the two oldest eligible requests, oldest first, so
\* that at most one load or store is issued per cycle and none overtakes an
\* older one.
GrantsTwoOldest == GrantedAges(in) = TwoOldest(in)
=============================================================================
