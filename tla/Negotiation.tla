----------------------------- MODULE Negotiation -----------------------------
(***************************************************************************)
(* What the layer tells an application about a physical device, and what   *)
(* it asks of the driver when a device is made: the queries and            *)
(* vkCreateDevice of lib.rs, and PhysicalDeviceContext of                  *)
(* physical_device.rs.                                                     *)
(*                                                                         *)
(* An extension is its name.  A pNext chain is the sequence of its         *)
(* structures, each with its type and one flag: the feature the layer      *)
(* needs.  "link" is the loader's VkLayerDeviceCreateInfo with             *)
(* function = LAYER_LINK_INFO.  A version is 0 (none given), 10, 11 ...    *)
(***************************************************************************)
EXTENDS Integers, SequencesExt

REQUIRED_EXTENSIONS == <<"synchronization2", "calibrated_timestamps", "host_query_reset">>
OPTIONAL_EXTENSIONS == <<"present_id", "present_wait", "display_timing">>

NV_LOW_LATENCY2 == "low_latency2"
AMD_ANTI_LAG    == "anti_lag"
WatchedExt(config) == IF config.expose_reflex THEN NV_LOW_LATENCY2 ELSE AMD_ANTI_LAG

\* The members of s that are in S, in their order.
Among(s, S) ==
  LET among[i \in 0 .. Len(s)] ==
        IF i = 0 THEN <<>> ELSE IF s[i] \in S THEN Append(among[i - 1], s[i]) ELSE among[i - 1]
  IN among[Len(s)]

\* available is what the driver lists, <<>> when it fails.
SupportsRequired(available) == ToSet(REQUIRED_EXTENSIONS) \subseteq ToSet(available)

PhysicalDeviceContext(instance, available) ==
  [instance |-> instance,
   supports_required_extensions |-> SupportsRequired(available),
   supported_optionals |-> Among(OPTIONAL_EXTENSIONS, ToSet(available))]

-----------------------------------------------------------------------------
(* create_device: the feature structures *)

Index(chain, type) == SelectInSeq(chain, LAMBDA s : s.type = type)
Has(chain, type)   == Index(chain, type) # 0

\* Set the flag of the structure that is there, or link one in at the head.
Enable(chain, type) ==
  IF Has(chain, type) THEN [chain EXCEPT ![Index(chain, type)].on = TRUE]
                      ELSE <<[type |-> type, on |-> TRUE]>> \o chain

Slip_NoV13(chain, api) == "Sync2"
Sync2Carrier(chain, api) == IF api >= 13 /\ Has(chain, "Vulkan13") THEN "Vulkan13" ELSE "Sync2"
HqrCarrier(chain, api)   == IF api >= 12 /\ Has(chain, "Vulkan12") THEN "Vulkan12" ELSE "HostQueryReset"

patch_features(chain, api, optionals) ==
  LET sync2 == Enable(chain, Sync2Carrier(chain, api))
      hqr   == Enable(sync2, HqrCarrier(chain, api))
      id    == IF Contains(optionals, "present_id") THEN Enable(hqr, "PresentId") ELSE hqr
  IN IF Contains(optionals, "present_wait") THEN Enable(id, "PresentWait") ELSE id

(* create_device: the extensions, and the request *)

Missing(enabled, wanted) == Among(wanted, ToSet(wanted) \ ToSet(enabled))

LayerEnabled(config, ask) == Contains(ask.extensions, WatchedExt(config))

Accepted(pd, config, ask) ==
  /\ LayerEnabled(config, ask) => pd.supports_required_extensions
  /\ Has(ask.chain, "link")

\* What vkCreateDevice of the next layer gets.
Request(pd, config, api, ask) ==
  IF LayerEnabled(config, ask)
    THEN [extensions |-> ask.extensions \o Missing(ask.extensions, REQUIRED_EXTENSIONS)
                                        \o Missing(ask.extensions, pd.supported_optionals),
          chain |-> patch_features(ask.chain, api, pd.supported_optionals)]
    ELSE ask

-----------------------------------------------------------------------------
(* The queries.  A query with cap = -1 is one with a null array.           *)

Reply(result, count, written) == [result |-> result, count |-> count, written |-> written]

OwnExtension(config, cap) ==
  CASE cap = -1 -> Reply("SUCCESS", 1, <<>>)
    [] cap = 0  -> Reply("INCOMPLETE", 0, <<>>)
    [] OTHER    -> Reply("SUCCESS", 1, <<WatchedExt(config)>>)

AllExtensions(config, available) ==
  IF Contains(available, WatchedExt(config)) THEN available
                                             ELSE Append(available, WatchedExt(config))

enumerate_device_extension_properties(config, available, filter, cap) ==
  LET all     == AllExtensions(config, available)
      written == SubSeq(all, 1, IF cap < Len(all) THEN cap ELSE Len(all))
  IN CASE filter = "this layer" -> OwnExtension(config, cap)
       [] filter = "none" /\ cap = -1 -> Reply("SUCCESS", Len(all), <<>>)
       [] OTHER -> Reply(IF Len(written) < Len(all) THEN "INCOMPLETE" ELSE "SUCCESS",
                         Len(written), written)

\* The antiLag feature, when the application asks for it: TRUE, FALSE, or what
\* the driver said.
Slip_AntiLagTrue(pd, config, driver) == IF config.expose_reflex THEN driver ELSE TRUE
AntiLagFeature(pd, config, driver) ==
  IF config.expose_reflex THEN driver ELSE pd.supports_required_extensions

PresentModes == <<"IMMEDIATE", "MAILBOX", "FIFO">>
\* The present modes of VkLatencySurfaceCapabilitiesNV, when it is there.
LatencyModes(config, driver, cap) ==
  CASE ~config.expose_reflex -> driver
    [] config.expose_reflex /\ cap = -1 -> Reply("SUCCESS", Len(PresentModes), <<>>)
    [] OTHER -> LET n == IF cap < Len(PresentModes) THEN cap ELSE Len(PresentModes)
                IN Reply("SUCCESS", n, SubSeq(PresentModes, 1, n))
=============================================================================
