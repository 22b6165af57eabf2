-------------------------------- MODULE Istio --------------------------------
(*****************************************************************************)
(* The resources of Istio.                                                   *)
(* src/proto/istio.rs.                                                       *)
(*****************************************************************************)
EXTENDS WireTypes

IstioVirtualService ==
    [namespace |-> Str(1), name |-> Str(2), gateways |-> Str(3), hosts |-> Str(4),
     age |-> Str(5), cluster_name |-> Str(100), key |-> Str(101)]
IstioVirtualServiceList ==
    [list |-> Msgs(1, "IstioVirtualService"), metadata |-> Msg(2, "L8MetaData")]
IstioDestinationRule ==
    [namespace |-> Str(1), name |-> Str(2), host |-> Str(3), age |-> Str(4),
     cluster_name |-> Str(100), key |-> Str(101)]
IstioDestinationRuleList ==
    [list |-> Msgs(1, "IstioDestinationRule"), metadata |-> Msg(2, "L8MetaData")]
IstioGateway ==
    [namespace |-> Str(1), name |-> Str(2), servers |-> Str(3), selector |-> Str(4),
     age |-> Str(5), cluster_name |-> Str(100), key |-> Str(101)]
IstioGatewayList == [list |-> Msgs(1, "IstioGateway"), metadata |-> Msg(2, "L8MetaData")]
IstioServiceEntry ==
    [namespace |-> Str(1), name |-> Str(2), hosts |-> Str(3), location |-> Str(4),
     resolution |-> Str(5), ports |-> Str(6), age |-> Str(7), cluster_name |-> Str(100),
     key |-> Str(101)]
IstioServiceEntryList ==
    [list |-> Msgs(1, "IstioServiceEntry"), metadata |-> Msg(2, "L8MetaData")]
IstioPeerAuthentication ==
    [namespace |-> Str(1), name |-> Str(2), mode |-> Str(3), age |-> Str(4),
     cluster_name |-> Str(100), key |-> Str(101)]
IstioPeerAuthenticationList ==
    [list |-> Msgs(1, "IstioPeerAuthentication"), metadata |-> Msg(2, "L8MetaData")]
IstioAuthorizationPolicy ==
    [namespace |-> Str(1), name |-> Str(2), action |-> Str(3), age |-> Str(4),
     cluster_name |-> Str(100), key |-> Str(101)]
IstioAuthorizationPolicyList ==
    [list |-> Msgs(1, "IstioAuthorizationPolicy"), metadata |-> Msg(2, "L8MetaData")]
IstioSidecar ==
    [namespace |-> Str(1), name |-> Str(2), age |-> Str(3), cluster_name |-> Str(100),
     key |-> Str(101)]
IstioSidecarList == [list |-> Msgs(1, "IstioSidecar"), metadata |-> Msg(2, "L8MetaData")]
IstioEnvoyFilter ==
    [namespace |-> Str(1), name |-> Str(2), age |-> Str(3), cluster_name |-> Str(100),
     key |-> Str(101)]
IstioEnvoyFilterList ==
    [list |-> Msgs(1, "IstioEnvoyFilter"), metadata |-> Msg(2, "L8MetaData")]

IstioMessages ==
    [IstioVirtualService |-> IstioVirtualService,
     IstioVirtualServiceList |-> IstioVirtualServiceList,
     IstioDestinationRule |-> IstioDestinationRule,
     IstioDestinationRuleList |-> IstioDestinationRuleList, IstioGateway |-> IstioGateway,
     IstioGatewayList |-> IstioGatewayList, IstioServiceEntry |-> IstioServiceEntry,
     IstioServiceEntryList |-> IstioServiceEntryList,
     IstioPeerAuthentication |-> IstioPeerAuthentication,
     IstioPeerAuthenticationList |-> IstioPeerAuthenticationList,
     IstioAuthorizationPolicy |-> IstioAuthorizationPolicy,
     IstioAuthorizationPolicyList |-> IstioAuthorizationPolicyList,
     IstioSidecar |-> IstioSidecar, IstioSidecarList |-> IstioSidecarList,
     IstioEnvoyFilter |-> IstioEnvoyFilter, IstioEnvoyFilterList |-> IstioEnvoyFilterList]
==============================================================================
