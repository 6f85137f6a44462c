-------------------------- MODULE MCConnectorSession --------------------------
(* Small instances of ConnectorSession for TLC.                              *)
EXTENDS ConnectorSession

AllKinds == {"get", "post", "options", "handler", "handlerpost"}
=============================================================================
