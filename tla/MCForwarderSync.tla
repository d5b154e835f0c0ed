--------------------------- MODULE MCForwarderSync ---------------------------
(* Small instances of ForwarderSync: two sets of sources, one of them with   *)
(* two renderings (the relay port of an egress rule changes from reconcile   *)
(* to reconcile), and a moment at which the forwarder pod has no IP address. *)
EXTENDS ForwarderSync

Egress(src, relay) ==
    [src |-> src, tport |-> "8000", dst |-> "es", dport |-> "80", gw |-> "gw", relay |-> relay]
Ingress(dst, relay) ==
    [src |-> "es", tport |-> "80", dst |-> dst, dport |-> "80", gw |-> "gw", relay |-> relay]

MCNoRules == [fwdIP |-> "", egress |-> {}, ingress |-> {}]
OnePod(relay) == [fwdIP |-> "fwd", egress |-> {Egress("pod1", relay)}, ingress |-> {Ingress("svc", "2049")}]
TwoPods == [fwdIP |-> "fwd",
            egress |-> {Egress("pod1", "2049"), Egress("pod2", "2050")},
            ingress |-> {Ingress("svc", "2050")}]

MCInputs == {"one", "two", "noIP"}
MCRendering ==
    [i \in MCInputs |-> CASE i = "one"  -> {OnePod("2049"), OnePod("2050")}
                         [] i = "two"  -> {TwoPods}
                         [] i = "noIP" -> {}]
MCSpecs == {MCNoRules} \cup UNION {MCRendering[i] : i \in MCInputs}
=============================================================================
