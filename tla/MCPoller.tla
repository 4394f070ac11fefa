------------------------------ MODULE MCPoller ------------------------------
(***************************************************************************)
(* The pages for TLC: every page, with three answers a server may give,   *)
(* a chain of one block, a chain of two, and an answer without nodes.      *)
(***************************************************************************)
EXTENDS Poller

Block(name, manager) == [name |-> name, manager |-> manager, tooltip |-> name]

MCPages == {bothApp, monitorApp, blobsApp, chainMonitor, chainApp}

MCData ==
    {[nodes |-> <<Block("b1", "")>>],
     [nodes |-> <<Block("b1", ""), Block("b2", "b1")>>],
     [error |-> TRUE]}

=============================================================================
