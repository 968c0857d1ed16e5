------------------------------ MODULE MCDelivery ------------------------------
(* Children of one operation, and readers of the chain, at one endpoint.      *)
EXTENDS Delivery

CONSTANTS child1, child2, reader1

=============================================================================
