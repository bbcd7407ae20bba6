-------------------------- MODULE MCRequestBroker --------------------------
(* RequestBroker with two requesters that may each be inside request().     *)
EXTENDS RequestBroker
=============================================================================
