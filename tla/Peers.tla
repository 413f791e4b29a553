------------------------------- MODULE Peers --------------------------------
(* The node that Registry and Gossip are about, and those it deals with.   *)
CONSTANTS
  Self,  \* this node
  Peer   \* the others
=============================================================================
