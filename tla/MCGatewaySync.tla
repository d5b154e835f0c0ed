---------------------------- MODULE MCGatewaySync ----------------------------
(* A small instance of GatewaySync: one rule, in each direction.             *)
EXTENDS GatewaySync

MCRule(dst, relay) == [src |-> "es", tport |-> "80", dst |-> dst, relay |-> relay]
MCOneRule  == {MCRule("svc", "2049")}
=============================================================================
