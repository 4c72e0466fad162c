------------------------- MODULE MCProviderRequests -------------------------
(* ProviderRequests, with the service it implements, on small instances.   *)
EXTENDS ProviderService
=============================================================================
