---------------------------- MODULE MCFederation ----------------------------
(***************************************************************************)
(* Four nodes.  Two trainers deliver to one aggregator; one trainer        *)
(* delivers while somebody opens /join-network of the leader, so that the  *)
(* leader reaches its quorum and calls back; and every node calls at once. *)
(***************************************************************************)
EXTENDS Federation

CONSTANTS L, G, A, B

MCTrainers == {A, B}

MCScripts ==
  { {[node |-> A, route |-> "train"], [node |-> B, route |-> "train"]},
    {[node |-> A, route |-> "train"], [node |-> L, route |-> "join-network"]},
    {[node |-> A, route |-> "broadcast-sync-rpc"], [node |-> G, route |-> "broadcast-sync-rpc"],
     [node |-> L, route |-> "sync-rpc"]} }
=============================================================================
