--------------------------- MODULE ParameterTables ---------------------------
(***************************************************************************)
(* The repository's parameter tables (FAULT_DEFINITIONS, SEVERITY_SLUGS,   *)
(* TARGET_TIERS, SEVERITIES of scripts/generate_scenarios.py), reduced to  *)
(* what the models read: the keys in insertion order, each name as its     *)
(* token sequence, each fault's category and the severities it has a      *)
(* parameter dict for, each slug, and the aliases of each tier's           *)
(* selectors.  Labels, parameter values, patterns, TIMING and              *)
(* INVARIANT_CRITERIA are left out: no property tells them apart.          *)
(***************************************************************************)
EXTENDS Naturals, Sequences

(* The repository's own matrix: the keys of FAULT_DEFINITIONS and          *)
(* TARGET_TIERS in insertion order, and SEVERITIES (11 x 8 x 3).           *)
RealFaultTypes ==
  <<"packet_loss", "latency", "bandwidth_throttle", "packet_reorder",
    "connection_drop", "dns_latency", "container_restart", "container_pause",
    "cpu_stress", "memory_pressure", "disk_io">>
RealTargetTiers ==
  <<"validator1_heimdall", "validator1_bor", "validator1_both", "all_heimdall",
    "all_bor", "all_both", "rabbitmq", "rpc_nodes">>
RealSeverities == <<"mild", "moderate", "severe">>

(* The token sequences of the fault type and target tier names.            *)
RealTokens ==
  [x \in {"packet_loss", "latency", "bandwidth_throttle", "packet_reorder",
          "connection_drop", "dns_latency", "container_restart",
          "container_pause", "cpu_stress", "memory_pressure", "disk_io",
          "validator1_heimdall", "validator1_bor", "validator1_both",
          "all_heimdall", "all_bor", "all_both", "rabbitmq", "rpc_nodes"} |->
     CASE x = "packet_loss"         -> <<"packet", "_", "loss">>
       [] x = "latency"             -> <<"latency">>
       [] x = "bandwidth_throttle"  -> <<"bandwidth", "_", "throttle">>
       [] x = "packet_reorder"      -> <<"packet", "_", "reorder">>
       [] x = "connection_drop"     -> <<"connection", "_", "drop">>
       [] x = "dns_latency"         -> <<"dns", "_", "latency">>
       [] x = "container_restart"   -> <<"container", "_", "restart">>
       [] x = "container_pause"     -> <<"container", "_", "pause">>
       [] x = "cpu_stress"          -> <<"cpu", "_", "stress">>
       [] x = "memory_pressure"     -> <<"memory", "_", "pressure">>
       [] x = "disk_io"             -> <<"disk", "_", "io">>
       [] x = "validator1_heimdall" -> <<"validator1", "_", "heimdall">>
       [] x = "validator1_bor"      -> <<"validator1", "_", "bor">>
       [] x = "validator1_both"     -> <<"validator1", "_", "both">>
       [] x = "all_heimdall"        -> <<"all", "_", "heimdall">>
       [] x = "all_bor"             -> <<"all", "_", "bor">>
       [] x = "all_both"            -> <<"all", "_", "both">>
       [] x = "rabbitmq"            -> <<"rabbitmq">>
       [] x = "rpc_nodes"           -> <<"rpc", "_", "nodes">>]

(* SEVERITY_SLUGS (every slug is one word).                                *)
SlugRow(m, mo, s) == [sv \in {"mild", "moderate", "severe"} |->
                        CASE sv = "mild" -> <<m>> [] sv = "moderate" -> <<mo>>
                          [] sv = "severe" -> <<s>>]
RealSlug ==
  [ft \in {RealFaultTypes[x] : x \in 1..11} |->
     CASE ft = "packet_loss"        -> SlugRow("10pct", "40pct", "80pct")
       [] ft = "latency"            -> SlugRow("100ms", "500ms", "2s")
       [] ft = "bandwidth_throttle" -> SlugRow("10mbps", "1mbps", "100kbps")
       [] ft = "packet_reorder"     -> SlugRow("25pct", "50pct", "75pct")
       [] ft = "connection_drop"    -> SlugRow("10pct", "40pct", "80pct")
       [] ft = "dns_latency"        -> SlugRow("250ms", "1s", "5s")
       [] ft = "container_restart"  -> SlugRow("graceful", "quick", "immediate")
       [] ft = "container_pause"    -> SlugRow("30s", "60s", "120s")
       [] ft = "cpu_stress"         -> SlugRow("50pct", "75pct", "95pct")
       [] ft = "memory_pressure"    -> SlugRow("256mb", "512mb", "1gb")
       [] ft = "disk_io"            -> SlugRow("100ms", "500ms", "2s")]

(* FAULT_DEFINITIONS[ft]["category"].                                      *)
RealCategory ==
  [ft \in {RealFaultTypes[x] : x \in 1..11} |->
     IF ft \in {"container_restart", "container_pause"} THEN "applications"
     ELSE IF ft \in {"cpu_stress", "memory_pressure"} THEN "cpu-memory"
     ELSE IF ft = "disk_io" THEN "filesystem"
     ELSE "network"]

(* The aliases of TARGET_TIERS[tt]["selectors"].                           *)
RealAliases ==
  [tt \in {RealTargetTiers[x] : x \in 1..8} |->
     CASE tt \in {"validator1_heimdall", "all_heimdall"} -> <<"target_heimdall">>
       [] tt \in {"validator1_bor", "all_bor"} -> <<"target_bor">>
       [] tt \in {"validator1_both", "all_both"} -> <<"target_heimdall", "target_bor">>
       [] tt = "rabbitmq" -> <<"target_rabbitmq">>
       [] tt = "rpc_nodes" -> <<"target_rpc">>]

(* Every fault of FAULT_DEFINITIONS has a parameter dict for every         *)
(* severity.                                                               *)
RealParamEntries ==
  [ft \in {RealFaultTypes[x] : x \in 1..11} |-> {"mild", "moderate", "severe"}]

=============================================================================
