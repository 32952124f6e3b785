---------------------------- MODULE MCConnectors ----------------------------
(* One sync with each connector against a small provider. *)
EXTENDS Connectors

AllKinds == DOMAIN Catalogue

\* The connectors of the timeout run.
TimedOutKinds == {"yandex", "billmgr", "selectel", "hostup"}
=============================================================================
