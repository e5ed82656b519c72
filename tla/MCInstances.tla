----------------------------- MODULE MCInstances -----------------------------
(* Instances with the files, applications, GPUs and requests of the run. *)
EXTENDS Instances

\* One GPU with all the layer needs, one whose driver has VK_AMD_anti_lag of its
\* own but lacks a required extension.
MCGpus == <<<<"swapchain">> \o REQUIRED_EXTENSIONS \o <<"present_wait", "present_id">>,
            <<AMD_ANTI_LAG, "display_timing", "calibrated_timestamps", "host_query_reset">>>>

Header(name) == <<"[app.", Quote>> \o name \o <<Quote, "]">>
Set(k, v) == <<k, "=", v>>
Unset == [f \in Fields |-> <<>>]

\* A file with a repeated key whose last value cannot be read; with two sections
\* for one application; with quotes, comments and keys outside any section; and
\* with a foreign section after an application's.
Repeated == <<Header(<<"Game">>), Set("fps_cap", "144"), Set("vrr", "1"), Set("expose_reflex", "true"),
              Set("fps_cap", "often"), Set("vrr", "0")>>
TwoSections == <<Header(<<"Game">>), Set("expose_reflex", "false"), Header(<<"Marvel">>),
                 Set("spoof_model", "rtx_4090"), Header(<<"Game">>), Set("expose_reflex", "true"), Set("fps_cap", "5")>>
Marked == <<Set("fps_cap", "5"), <<"#", "note", "=", "1">>, Header(<<Quote, "Game">>), Set("fps_cap", "144"),
            <<"vrr_offset", "=", Quote, "5", Quote, "#", "Hz">>, Set("color", "1"), <<"junk">>>>
Foreign == <<Header(<<"Marvel">>), Set("force_decoupled", "0"), <<"[defaults]">>, Set("expose_reflex", "true")>>

MCSetups ==
  {[env |-> Unset, file |-> Repeated], [env |-> Unset, file |-> Foreign],
   [env |-> [Unset EXCEPT !.expose_reflex = <<"1">>, !.fps_cap = <<"5">>], file |-> TwoSections],
   [env |-> [Unset EXCEPT !.spoof_profile = <<"rtx_4090">>, !.vrr_enabled = <<"true">>,
                          !.vrr_offset_hz = <<"many">>], file |-> Marked]}

MCApplications == {[name |-> <<<<"Game">>>>, api_version |-> 13],
                   [name |-> <<<<Quote, "Game">>>>, api_version |-> 12],
                   [name |-> <<>>, api_version |-> 0]}
MCExe == <<"Marvel">>

Off(type) == [type |-> type, on |-> FALSE]
MCAsks ==
  {[extensions |-> e, chain |-> c] :
     e \in {<<"swapchain">>, <<"present_wait", NV_LOW_LATENCY2>>,
            <<AMD_ANTI_LAG, "host_query_reset">>, <<AMD_ANTI_LAG, "present_wait", "present_id">>},
     c \in {<<Off("link")>>, <<Off("PresentWait")>>,
            <<Off("HostQueryReset"), Off("link"), Off("PresentWait")>>,
            <<Off("link"), Off("Sync2"), [type |-> "PresentId", on |-> TRUE]>>,
            <<Off("Vulkan12"), Off("link"), Off("Sync2")>>,
            <<Off("Vulkan13"), Off("Vulkan12"), Off("link")>>}}

\* Handles and threads are interchangeable.
Symmetry == Permutations(Handles) \cup Permutations(Threads)
=============================================================================
