----------------------------- MODULE FeResources -----------------------------
(***************************************************************************)
(* The port wiring of the FE resource builders                             *)
(* (src/internal/transformer/fe_resources.go): which number each named     *)
(* port of the FE client service, peer service and StatefulSet container   *)
(* gets from the FE sub-spec's free-form configs, and which NodePort the   *)
(* client service gives it.  The builders are pure, so the model's state   *)
(* is one input, chosen in Init and never changed; the properties are      *)
(* checked over every input.                                               *)
(***************************************************************************)
EXTENDS Naturals, Sequences, TLC

CONSTANTS
    PortVals,     \* port numbers a user may write into the FE configs
    NodePortVals, \* NodePort numbers a user may give the FE service
    ServiceTypes, \* service types a user may give the FE service ("" is unset)
    NoValue       \* a config key or a service field that is not set

DefaultFeHttpPort    == 8030
DefaultFeEditLogPort == 9010
DefaultFeRpcPort     == 9020
DefaultFeQueryPort   == 9030

PortKeys == {"http_port", "query_port", "rpc_port", "edit_log_port"}

(* An FE sub-spec: its configs (only the port keys matter here) and its  *)
(* optional service spec: a type, an external traffic policy and the two  *)
(* optional NodePorts.                                                     *)
FeSpecs ==
    [configs : [PortKeys -> PortVals \cup {NoValue}],
     service : {NoValue} \cup [type : ServiceTypes \cup {""},
                               externalTrafficPolicy : {NoValue, "Local"},
                               httpPort : NodePortVals \cup {NoValue},
                               queryPort : NodePortVals \cup {NoValue}]]

VARIABLE fe   \* cr.Spec.FE: an FE sub-spec, or NoValue when nil

(* Mutant of getPortValueFromRawConf: an unset key yields 0, not the default. *)
getPortValueZeroDefault(configs, key, default) ==
    IF configs[key] = NoValue THEN 0 ELSE configs[key]

(* getPortValueFromRawConf: the configured value of key, else the default. *)
getPortValueFromRawConf(configs, key, default) ==
    IF configs[key] = NoValue THEN default ELSE configs[key]

(* GetFeHttpPort, GetFeQueryPort, GetFeRpcPort, GetFeEditLogPort.  The   *)
(* rpc port is read from the "query_port" key, as the code does.          *)
PortKeyOf == [http |-> "http_port", query |-> "query_port",
              rpc |-> "query_port", editLog |-> "edit_log_port"]
PortDefault == [http |-> DefaultFeHttpPort, query |-> DefaultFeQueryPort,
                rpc |-> DefaultFeRpcPort, editLog |-> DefaultFeEditLogPort]

GetFePort(p) ==
    IF fe = NoValue THEN PortDefault[p]
    ELSE getPortValueFromRawConf(fe.configs, PortKeyOf[p], PortDefault[p])

(* MakeFeService: http-port and query-port, with the NodePorts the        *)
(* service spec gives: the QueryPort field goes to http-port and the      *)
(* HttpPort field to query-port, as the code assigns them.                *)
MakeFeService ==
    LET crSvc == fe.service
        nodePort(field) == IF crSvc = NoValue THEN NoValue ELSE crSvc[field]
    IN <<[name |-> "http-port", port |-> GetFePort("http"),
          nodePort |-> nodePort("queryPort")],
         [name |-> "query-port", port |-> GetFePort("query"),
          nodePort |-> nodePort("httpPort")]>>

(* MakeFeService: the service type, ClusterIP unless the service spec     *)
(* names one, and the external traffic policy, copied whenever the service *)
(* spec sets it.                                                            *)
FeServiceType ==
    IF fe.service # NoValue /\ fe.service.type # "" THEN fe.service.type
    ELSE "ClusterIP"
FeServiceTrafficPolicy ==
    IF fe.service = NoValue THEN NoValue ELSE fe.service.externalTrafficPolicy

(* Mutant of MakeFePeerService: rpc-port advertised at the compiled-in default. *)
MakeFePeerServiceDefaultRpc ==
    <<[name |-> "http-port", port |-> GetFePort("http")],
      [name |-> "edit-log-port", port |-> GetFePort("editLog")],
      [name |-> "rpc-port", port |-> DefaultFeRpcPort]>>

(* MakeFePeerService: http-port, edit-log-port, rpc-port. *)
MakeFePeerService ==
    <<[name |-> "http-port", port |-> GetFePort("http")],
      [name |-> "edit-log-port", port |-> GetFePort("editLog")],
      [name |-> "rpc-port", port |-> GetFePort("rpc")]>>

(* MakeFeStatefulSet: the main container's ports, its readiness probe   *)
(* port and the prometheus scrape port annotation of the pod template.    *)
MakeFeContainerPorts ==
    <<[name |-> "http-port", port |-> GetFePort("http")],
      [name |-> "edit-log-port", port |-> GetFePort("editLog")],
      [name |-> "rpc-port", port |-> GetFePort("rpc")],
      [name |-> "query-port", port |-> GetFePort("query")]>>

ReadinessProbePort == GetFePort("query")
PrometheusPort == GetFePort("http")

(* GetFeComponentLabels and the Get...Name functions: names and labels  *)
(* derive from the cluster's name, fixed here, and the role and kind.      *)
FeLabels == [cluster |-> "cr", component |-> "fe"]
GetFeConfigMapName == "cr-fe-config"
GetFeServiceName == "cr-fe"
GetFePeerServiceName == "cr-fe-peer"
GetFeStatefulSetName == "cr-fe"

(* MakeFeConfigMap: nil without an FE sub-spec, else fe.conf rendered     *)
(* from the configs (the hadoop merge left out).                           *)
MakeFeConfigMap ==
    IF fe = NoValue THEN NoValue
    ELSE [name |-> GetFeConfigMapName, labels |-> FeLabels,
          data |-> [file |-> "fe.conf", configs |-> fe.configs]]

(* The metadata and selector of the client and the peer (headless)        *)
(* services.                                                                *)
FeServiceMeta ==
    [name |-> GetFeServiceName, labels |-> FeLabels, selector |-> FeLabels,
     headless |-> FALSE]
FePeerServiceMeta ==
    [name |-> GetFePeerServiceName, labels |-> FeLabels, selector |-> FeLabels,
     headless |-> TRUE]

(* Mutant of FePodVolumes: the conf volume names the FE service object. *)
FePodVolumesWrongConfigMap ==
    ("conf" :> [configMap |-> GetFeServiceName]) @@ ("fe-log" :> [emptyDir |-> TRUE])

(* The pod volumes: the FE configmap as "conf" and an emptyDir for logs. *)
FePodVolumes ==
    ("conf" :> [configMap |-> GetFeConfigMapName]) @@ ("fe-log" :> [emptyDir |-> TRUE])

(* MakeFeStatefulSet: its metadata (no Annotations map), its governing     *)
(* service, selector, "fe-meta" claim template, and the pod template: the  *)
(* labels, volumes, the main container's mounts, env and ports.            *)
MakeFeStatefulSet ==
    [name |-> GetFeStatefulSetName, labels |-> FeLabels, annotations |-> NoValue,
     serviceName |-> GetFePeerServiceName, selector |-> FeLabels,
     claimTemplates |-> {"fe-meta"},
     podLabels |-> FeLabels, volumes |-> FePodVolumes,
     mounts |-> {"conf", "fe-meta", "fe-log"},
     env |-> [FE_SVC |-> GetFeServiceName],
     ports |-> MakeFeContainerPorts, readinessPort |-> ReadinessProbePort,
     prometheusPort |-> PrometheusPort]

Init == fe \in FeSpecs \cup {NoValue}

(* The builders are pure: nothing changes the input. *)
Next == UNCHANGED fe

Spec == Init /\ [][Next]_fe

-----------------------------------------------------------------------------
Ports == {DefaultFeHttpPort, DefaultFeEditLogPort, DefaultFeRpcPort,
          DefaultFeQueryPort} \cup PortVals

TypeOK ==
    /\ fe \in FeSpecs \cup {NoValue}
    /\ \A p \in DOMAIN PortKeyOf : GetFePort(p) \in Ports

PortNumber(seq, nm) ==
    LET i == CHOOSE i \in DOMAIN seq : seq[i].name = nm IN seq[i].port

(* The port a service advertises under a name is the port the FE         *)
(* container listens on under that name, and the readiness probe and the  *)
(* prometheus annotation use the container's query and http ports: the    *)
(* network objects and the workload derive ports by the same lookup       *)
(* (spec, section 4.2, step 2).                                           *)
ServicePortsMatchContainer ==
    fe # NoValue =>
        /\ \A i \in DOMAIN MakeFeService :
              MakeFeService[i].port = PortNumber(MakeFeContainerPorts, MakeFeService[i].name)
        /\ \A i \in DOMAIN MakeFePeerService :
              MakeFePeerService[i].port = PortNumber(MakeFeContainerPorts, MakeFePeerService[i].name)
        /\ ReadinessProbePort = PortNumber(MakeFeContainerPorts, "query-port")
        /\ PrometheusPort = PortNumber(MakeFeContainerPorts, "http-port")

(* Each named port reads its own like-named config key (spec, section 9): *)
(* the builders' ports compared with the reference lookup IntendedKey.     *)
IntendedKey == [http |-> "http_port", query |-> "query_port",
                rpc |-> "rpc_port", editLog |-> "edit_log_port"]

EachPortReadsOwnKey ==
    fe # NoValue =>
        \A p \in DOMAIN IntendedKey :
            GetFePort(p) = getPortValueFromRawConf(fe.configs, IntendedKey[p], PortDefault[p])

(* The NodePort the user sets for a port lands on that port (spec,        *)
(* section 9): HttpPort on http-port, QueryPort on query-port.             *)
NodePortsByName ==
    fe # NoValue /\ fe.service # NoValue =>
        /\ MakeFeService[1].nodePort = fe.service.httpPort
        /\ MakeFeService[2].nodePort = fe.service.queryPort

(* MakeFeService applies the user's service settings "When the user       *)
(* specifies a service type" (its comment, line 151): a NodePort or an     *)
(* external traffic policy reaches the FE service only together with a     *)
(* type that admits them, NodePort or LoadBalancer.  The API server        *)
(* rejects either on a ClusterIP service, and the FE stage's apply of the  *)
(* service then fails on every pass.                                        *)
ExternalSettingsNeedServiceType ==
    fe # NoValue =>
        \/ /\ \A i \in DOMAIN MakeFeService : MakeFeService[i].nodePort = NoValue
           /\ FeServiceTrafficPolicy = NoValue
        \/ FeServiceType \in {"NodePort", "LoadBalancer"}

(* The FE objects reference each other by name and label: the StatefulSet *)
(* is governed by the headless peer service, its selector picks its own    *)
(* pods, both services select those pods, every mount of the main          *)
(* container is a pod volume or a claim template, the "conf" volume is    *)
(* the configmap MakeFeConfigMap writes, and FE_SVC names the client      *)
(* service.  The builders compute each name separately (fe_resources.go,  *)
(* lines 46-72, 232-245, 369-383).                                          *)
WorkloadWiring ==
    fe # NoValue =>
        LET sts == MakeFeStatefulSet IN
        /\ sts.serviceName = FePeerServiceMeta.name /\ FePeerServiceMeta.headless
        /\ sts.selector = sts.podLabels
        /\ FeServiceMeta.selector = sts.podLabels
        /\ FePeerServiceMeta.selector = sts.podLabels
        /\ sts.mounts \subseteq DOMAIN sts.volumes \cup sts.claimTemplates
        /\ \A v \in DOMAIN sts.volumes :
              "configMap" \in DOMAIN sts.volumes[v] =>
                  sts.volumes[v].configMap = MakeFeConfigMap.name
        /\ sts.env.FE_SVC = FeServiceMeta.name /\ ~FeServiceMeta.headless

=============================================================================
