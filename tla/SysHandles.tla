----------------------------- MODULE SysHandles -----------------------------
(* Bindings around one handle of a library of the base system: sys.acl,       *)
(* sys.mac, kvm, be, magic and ifconfig.                                      *)
EXTENDS Handles

LOCAL Acl == <<"acl">>
LOCAL Entry == <<"acl_entry">>
LOCAL Kd == <<"kvm">>
LOCAL BeHdl == <<"libbe">>
LOCAL Ifc == <<"ifconfig">>

\* l_acl_gc, l_mac_gc; l_kvm_close, l_pcpu_gc; l_be_close; l_magic_close;
\* l_ifconfig_handle_close.  Entries, flags and permissions of a list and the
\* addresses of an interface are pointers into another object and free nothing;
\* an SFP dump is in the userdata itself.
SysMetatables ==
    [acl         |-> Metatable("none", TRUE),
     acl_entry   |-> Metatable("none", FALSE),
     acl_flagset |-> Metatable("none", FALSE),
     acl_permset |-> Metatable("none", FALSE),
     mac         |-> Metatable("none", TRUE),
     kvm         |-> Metatable("fallible", TRUE),
     pcpu        |-> Metatable("none", TRUE),
     libbe       |-> Metatable("clears", TRUE),
     magic       |-> Metatable("clears", TRUE),
     ifconfig    |-> Metatable("clears", TRUE),
     ifaddrs     |-> Metatable("none", FALSE),
     sfp_dump    |-> Metatable("none", TRUE)]

\* l_acl_delete .. l_acl_get
AclFiles ==
    Reads({"delete", "delete_fd", "delete_file", "delete_link", "extended_file",
           "extended_link"}, <<>>)
    \cup Makes({"from_mode", "from_text", "get"}, <<>>, "acl")

\* l_acl_get_fd .. l_acl_delete_entry; calc_mask and create_entry store the
\* address that libc returns, which never moves an existing list.  delete_entry
\* takes a number: given an entry it refuses its own first argument.
AclEntries ==
    Makes({"get_fd", "get_file", "get_link", "new"}, <<>>, "acl")
    \cup Reads({"__eq"}, <<"acl", "acl">>)
    \cup Reads({"calc_mask", "delete_entry"}, Acl)
    \cup Refs({"create_entry"}, Acl, "acl_entry")

\* l_acl_dup .. l_acl_set_link
AclLists ==
    Makes({"dup"}, Acl, "acl") \cup Refs({"get_entry"}, Acl, "acl_entry")
    \cup Reads({"equiv_mode", "get_brand", "is_trivial", "set", "set_fd", "set_file",
                "set_link"}, Acl)

\* l_acl_strip .. l_acl_get_permset; the text of to_text is not freed.
AclChecks ==
    Makes({"strip"}, Acl, "acl") \cup Leaks({"to_text"}, Acl)
    \cup Reads({"valid", "valid_fd", "valid_file", "valid_link"}, Acl)
    \cup Reads({"copy"}, <<"acl_entry", "acl_entry">>)
    \cup Refs({"get_flagset"}, Entry, "acl_flagset")
    \cup Refs({"get_permset"}, Entry, "acl_permset")

\* l_acl_get_qualifier .. l_acl_set_qualifier
AclEntryFields ==
    Reads({"get_qualifier", "get_type", "set_type", "get_tag_type", "set_tag_type",
           "set_qualifier"}, Entry)
    \cup Reads({"set_flagset"}, <<"acl_entry", "acl_flagset">>)
    \cup Reads({"set_permset"}, <<"acl_entry", "acl_permset">>)

\* l_acl_add_flag .. l_acl_get_perm
AclSets ==
    Reads({"add", "clear", "delete", "get"}, <<"acl_flagset">>)
    \cup Reads({"add", "clear", "delete", "get"}, <<"acl_permset">>)

AclRows ==
    AclFiles \cup AclEntries \cup AclLists \cup AclChecks \cup AclEntryFields \cup AclSets

-----------------------------------------------------------------------------
\* l_mac_is_present .. l_mac_prepare_type
MacMake ==
    Reads({"is_present", "syscall"}, <<>>)
    \cup Makes({"from_text", "prepare", "prepare_file_label", "prepare_ifnet_label",
                "prepare_process_label", "prepare_type"}, <<>>, "mac")

\* freeenvv .. l_mac_get_link; both arrays of execve are freed when it returns.
MacGet == Reads({"execve", "get", "get_fd", "get_file", "get_link"}, <<"mac">>)

\* l_mac_get_peer .. l_mac_to_text
MacSet ==
    Reads({"get_peer", "get_pid", "get_proc", "set", "set_fd", "set_file", "set_link",
           "set_proc", "to_text"}, <<"mac">>)

MacRows == MacMake \cup MacGet \cup MacSet

-----------------------------------------------------------------------------
\* l_kvm_open2 .. l_kvm_getpcpu; the copy of a pcpu is the caller's.
KvmOpen ==
    Makes({"open2", "openfiles"}, <<>>, "kvm")
    \cup Reads({"dpcpu_setcpu", "getmaxcpu", "getncpus"}, Kd)
    \cup Makes({"getpcpu"}, Kd, "pcpu")

\* l_pcpu_index, whatever the field
KvmPcpu == Reads({"__index"}, <<"pcpu">>)

\* l_kvm_read_zpcpu .. l_kvm_getloadavg; getprocs is not in the metatable, so
\* there are no processes to index or to ask getargv and getenvv about.
KvmCounters ==
    Reads({"read_zpcpu", "counter_u64_fetch", "getcptime", "getloadavg"}, Kd)
    \cup Reads({"getcptime_clearcache"}, <<>>)

\* pushswap .. l_kvm_read2
KvmTables ==
    Reads({"getswapinfo", "native", "nlist2", "read2"}, Kd)
    \cup Reads({"getswapinfo_clearcache"}, <<>>)

\* l_kvm_write .. l_kvm_walk_pages; the callback gets a table for each page.
KvmPages ==
    Reads({"write", "kerndisp"}, Kd)
    \cup {[r EXCEPT !.walks = TRUE] : r \in Reads({"walk_pages"}, Kd)}

KvmRows == KvmOpen \cup KvmPcpu \cup KvmCounters \cup KvmTables \cup KvmPages

-----------------------------------------------------------------------------
\* l_be_init .. l_be_root_path
BeOpen ==
    Makes({"init"}, <<>>, "libbe")
    \cup Reads({"active_name", "active_path", "nextboot_name", "nextboot_path",
                "root_path"}, BeHdl)

\* l_be_get_bootenv_props .. l_be_create_depth; befailwith writes the handle.
BeProps ==
    Reads({"get_bootenv_props", "get_dataset_props", "get_dataset_snapshots", "activate",
           "deactivate", "is_auto_snapshot_name", "create", "create_depth"}, BeHdl)

\* l_be_create_from_existing .. l_be_mounted_at, which does not free the list
\* of details when it fails.
BeChange ==
    Reads({"create_from_existing", "create_from_existing_snap", "snapshot", "rename",
           "destroy", "mount", "unmount", "mounted_at"}, BeHdl)
    \cup Leaks({"mounted_at"}, BeHdl)

\* l_be_errno .. l_be_nicenum
BeNames ==
    Reads({"errno", "error_description", "print_on_error", "root_concat", "validate_name",
           "validate_snap", "exists", "export", "import"}, BeHdl)
    \cup Reads({"nicenum"}, <<>>)

BeRows == BeOpen \cup BeProps \cup BeChange \cup BeNames

-----------------------------------------------------------------------------
\* l_magic_open .. l_magic_check, with magicerr
MagicOpen ==
    Makes({"open"}, <<>>, "magic")
    \cup Reads({"descriptor", "file", "buffer", "getflags", "setflags", "check"}, <<"magic">>)

\* l_magic_compile .. l_magic_getpath
MagicLoad ==
    Reads({"compile", "list", "load", "getparam", "setparam"}, <<"magic">>)
    \cup Reads({"getpath"}, <<>>)

MagicRows == MagicOpen \cup MagicLoad

-----------------------------------------------------------------------------
\* foreach_cb, l_ifconfig_handle_error .. l_ifconfig_foreach_ifaddr: what the
\* callback gets is an address in the handle's own list of interfaces.
IfcWalks ==
    Reads({"error"}, Ifc)
    \cup WalksWith({"foreach_iface"}, Ifc, "ifaddrs", "bare")
    \cup WalksWith({"foreach_ifaddr"}, <<"ifconfig", "ifaddrs">>, "ifaddrs", "bare")

\* l_ifconfig_get_description .. l_ifconfig_set_fib (not compiled); the strings
\* that libifconfig allocates for the two getters are not freed.
IfcNames ==
    Leaks({"get_description", "get_orig_name"}, Ifc)
    \cup Reads({"set_description", "unset_description", "set_name"}, Ifc)

\* l_ifconfig_get_fib .. l_ifconfig_get_metric
IfcNumbers ==
    Reads({"get_fib", "set_mtu", "get_mtu", "get_nd6", "set_metric", "get_metric"}, Ifc)

\* l_ifconfig_set_capabilities .. l_ifconfig_get_media; the array of groups is
\* not freed.
IfcStatus ==
    Reads({"set_capabilities", "get_capabilities", "get_status", "get_media"}, Ifc)
    \cup Leaks({"get_groups"}, Ifc)

\* l_ifconfig_get_carp; l_ifconfig_addr_info
IfcAddr == Reads({"get_carp"}, Ifc) \cup Reads({"addr_info"}, <<"ifconfig", "ifaddrs">>)

\* l_ifconfig_get_bridge_status; its status is freed at the end.
IfcBridge == Reads({"get_bridge_status"}, Ifc)

\* l_ifconfig_get_lagg_status .. l_ifconfig_destroy
IfcLagg == Reads({"get_lagg_status", "get_laggport_laggdev", "destroy"}, Ifc)

\* l_ifconfig_create .. l_ifconfig_set_up; the name of what was created is not
\* freed.
IfcCreate ==
    Leaks({"create", "create_vlan"}, Ifc)
    \cup Reads({"set_vlantag", "list_cloners", "set_up"}, Ifc)

\* l_ifconfig_get_sfp_info .. l_ifconfig_get_sfp_dump
IfcSfp ==
    Reads({"get_sfp_info", "get_sfp_vendor_info", "get_sfp_status"}, Ifc)
    \cup Makes({"get_sfp_dump"}, Ifc, "sfp_dump")

\* l_struct_ifaddrs_name .. l_ifconfig_open
IfcAddrs ==
    Reads({"name", "flags", "addr", "netmask", "dstaddr"}, <<"ifaddrs">>)
    \cup Reads({"__tostring"}, <<"sfp_dump">>)
    \cup Makes({"open"}, <<>>, "ifconfig")

IfcRows ==
    IfcWalks \cup IfcNames \cup IfcNumbers \cup IfcStatus \cup IfcAddr \cup IfcBridge
    \cup IfcLagg \cup IfcCreate \cup IfcSfp \cup IfcAddrs
=============================================================================
