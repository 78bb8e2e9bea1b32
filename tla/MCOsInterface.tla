--------------------------- MODULE MCOsInterface ---------------------------
(* Instances of OsInterface for TLC. *)
EXTENDS OsInterface

\* Core: the default VRF with two bridges (1 and 4), a front-panel port
\* without a link-info kind (2) that may join either bridge or the bond,
\* and a bond (3).
CoreVrfs == {"default"}
CoreKind == [v \in CoreVrfs |-> (1 :> "bridge" @@ 2 :> NoKind @@ 3 :> "bond" @@ 4 :> "bridge")]
CoreSlaves == [v \in CoreVrfs |-> {<<2, 1>>, <<2, 3>>, <<2, 4>>}]


\* One bridge (1), the port (2) and the bond (3); the port may join
\* either master, or the bond may join the bridge (a LAG as a VLAN member).
BondKind == [v \in CoreVrfs |-> (1 :> "bridge" @@ 2 :> NoKind @@ 3 :> "bond")]
BondSlaves == [v \in CoreVrfs |-> {<<2, 1>>, <<2, 3>>}]
BondBridgeSlaves == [v \in CoreVrfs |-> {<<2, 1>>, <<3, 1>>}]

\* Two VRFs: a bond (3) in the default VRF and, in vrf1, an unrelated
\* port without link-info kind that the kernel also numbers 3.
TwoVrfs == {"default", "vrf1"}
TwoKind == ("default" :> (3 :> "bond")) @@ ("vrf1" :> (3 :> NoKind))
TwoSlaves == [v \in TwoVrfs |-> {}]

\* Queries: the query thread races the worker on a bridge (1) and on a
\* port with a reserved name (2) that may join it.
QueryKind == [v \in CoreVrfs |-> (1 :> "bridge" @@ 2 :> NoKind)]
QuerySlaves == [v \in CoreVrfs |-> {<<2, 1>>}]

\* Masks, VRFs and the hook: in the default VRF a bridge (1), a port (2), a
\* macvlan (4) and a VLAN sub-interface (5) the hook rejects; vrf1 has a
\* port numbered 6, and vrf2, whose name the VRF directory does not know,
\* a port numbered 7.
WideVrfs == {"default", "vrf1", "vrf2"}
WideNamed == {"default", "vrf1"}
WideKind == ("default" :> (1 :> "bridge" @@ 2 :> NoKind @@ 4 :> "macvlan"
                           @@ 5 :> "vlan"))
            @@ ("vrf1" :> (6 :> NoKind)) @@ ("vrf2" :> (7 :> NoKind))
WideSlaves == ("default" :> {<<2, 1>>}) @@ [v \in {"vrf1", "vrf2"} |-> {}]
WideVetoed == {<<"default", 5>>}
=============================================================================
