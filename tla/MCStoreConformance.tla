------------------------- MODULE MCStoreConformance -------------------------
(* Every port, and every set of its defects.                                 *)
EXTENDS StoreConformance

MCPorts == DOMAIN Suites
=============================================================================
