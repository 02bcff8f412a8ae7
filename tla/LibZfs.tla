------------------------------- MODULE LibZfs -------------------------------
(* libzfs/lua_zfs.c: what its functions do to the handles of libzfs(3) and to *)
(* the lists of libnvpair(3).  Pools and datasets are opened through a libzfs *)
(* handle that they keep using: their methods, and zfsfail() and zpoolfail()  *)
(* which every failing method ends in, read it.  Their userdata have no REF   *)
(* to its userdata.  The order of the definitions is that of the source.      *)
EXTENDS Handles

LOCAL Hdl == <<"libzfs">>
LOCAL Zfs == <<"zfs">>
LOCAL Pool == <<"zpool">>
LOCAL WithList(on) == Append(on, "nvlist")

\* fini, close of a dataset and of a pool: method, __close and __gc are one
\* function that does nothing when the cookie is NULL.  nvlist: see NvPair.
ZfsMetatables ==
    [libzfs |-> Metatable("clears", TRUE),
     zfs    |-> Metatable("clears", TRUE),
     zpool  |-> Metatable("clears", TRUE)]

\* l_zfs_name_to_prop .. l_libzfs_mnttab_find
ZfsHandle ==
    Reads({"prop"}, <<>>) \cup Makes({"init"}, <<>>, "libzfs")
    \cup Reads({"print_on_error", "log_history", "errno", "error_action",
                "error_description", "mnttab_cache", "mnttab_find"}, Hdl)

\* l_libzfs_mnttab_add .. l_zpool_iter, with zpool_iter_cb
ZfsOpenPool ==
    Reads({"mnttab_add", "mnttab_remove"}, Hdl)
    \cup Spawns({"open_pool", "open_pool_canfail"}, Hdl, "zpool")
    \cup WalksOver({"iter_pools"}, Hdl, "zpool")

\* l_zpool_create .. l_zpool_import_props
ZfsCreatePool ==
    Uses({"create_pool"}, WithList(Hdl))
    \cup Uses({"label_disk", "prepare_and_label_disk"}, Hdl)
    \cup Uses({"prepare_and_label_disk"}, WithList(<<"libzfs", "zpool">>))
    \cup Uses({"import", "import_props"}, WithList(Hdl))

\* l_zpool_vdev_name .. l_zpool_explain_recover; an event is a list of its own.
ZfsEvents ==
    Uses({"vdev_name", "explain_recover"}, WithList(Hdl))
    \cup Makes({"events_next"}, Hdl, "nvlist")
    \cup Reads({"events_clear", "events_seek"}, Hdl)

\* zfs_iter_cb, l_zfs_foreach_mountpoint, l_zfs_open, l_zfs_iter_root; the
\* handles that foreach_mountpoint was given are wrapped again for the callback
\* (and the cookie of the last of them is overwritten with the table's).
ZfsOpen ==
    WalksWith({"foreach_mountpoint"}, <<"libzfs", "zfs">>, "zfs", "again")
    \cup Spawns({"open"}, Hdl, "zfs")
    \cup WalksOver({"iter_root"}, Hdl, "zfs")

\* l_zfs_crypto_create .. l_zfs_path_to_zhandle; the key that crypto_create
\* generates is freed by nobody.
ZfsPrepare ==
    Leaks({"crypto_create"}, Hdl)
    \cup Uses({"crypto_clone_check"}, WithList(<<"libzfs", "zfs">>))
    \cup Uses({"crypto_attempt_load_keys"}, Hdl)
    \cup Makes({"valid_proplist"}, WithList(Hdl), "nvlist")
    \cup Spawns({"path_to_zhandle"}, Hdl, "zfs")

\* l_zfs_dataset_exists .. l_zfs_snapshot_nvl
ZfsDatasets ==
    Reads({"dataset_exists"}, Hdl)
    \cup Uses({"create_ancestors", "snapshot"}, Hdl)
    \cup Uses({"create", "create_ancestors_props", "destroy_snaps_nvl", "snapshot",
               "snapshot_nvl"}, WithList(Hdl))

\* l_zfs_send_resume .. l_zfs_receive
ZfsStreams ==
    Uses({"send_resume", "receive"}, Hdl)
    \cup Uses({"receive"}, WithList(Hdl))
    \cup Makes({"send_resume_token_to_nvlist"}, Hdl, "nvlist")

\* l_zfs_is_mounted .. l_zfs_nextboot; is_mounted and pool_in_use do not free
\* the strings they get.
ZfsQueries ==
    Leaks({"is_mounted", "pool_in_use"}, Hdl) \cup Uses({"nicestrtonum", "nextboot"}, Hdl)

\* l_zfs_handle_dup .. l_zfs_prop_set_list_flags; a duplicate uses the same
\* libzfs handle.
ZfsNames ==
    Spawns({"handle_dup"}, Zfs, "zfs")
    \cup Reads({"get_type", "get_underlying_type", "get_name", "get_pool_name"}, Zfs)
    \cup Uses({"prop_set"}, Zfs)
    \cup Uses({"prop_set_list", "prop_set_list_flags"}, WithList(Zfs))

\* l_zfs_prop_get .. l_zfs_prop_get_userquota_int
ZfsProps ==
    Uses({"prop_get", "prop_get_recvd", "prop_get_numeric", "prop_get_userquota",
          "prop_get_userquota_int", "prop_get_written", "prop_get_written_int"}, Zfs)
    \cup Reads({"getprop_uint64", "prop_get_int"}, Zfs)

\* l_zfs_prop_inherit .. l_zfs_get_clones_nvl; the lists of properties are
\* copied ("Need to dup to have sane lifetime"), the list of clones is not.
ZfsPropLists ==
    Uses({"prop_inherit"}, Zfs)
    \cup Makes({"get_all_props", "get_user_props", "get_recvd_props"}, Zfs, "nvlist")
    \cup Lends({"get_clones_nvl"}, Zfs, "nvlist")

\* l_zfs_iter_children .. l_zfs_iter_snapspec
ZfsWalks ==
    WalksOver({"iter_children", "iter_dependents", "iter_filesystems", "iter_snapshots",
               "iter_snapshots_sorted", "iter_snapspec"}, Zfs, "zfs")

\* l_zfs_iter_bookmarks .. l_zfs_iter_snapshots_v2
ZfsWalksV2 ==
    WalksOver({"iter_bookmarks", "iter_children_v2", "iter_dependents_v2",
               "iter_filesystems_v2", "iter_snapshots_v2"}, Zfs, "zfs")

\* l_zfs_iter_snapshots_sorted_v2 .. l_zfs_iter_mounted
ZfsWalksLast ==
    WalksOver({"iter_snapshots_sorted_v2", "iter_snapspec_v2", "iter_bookmarks_v2",
               "iter_mounted"}, Zfs, "zfs")

\* l_zfs_wait_status .. l_zfs_is_encrypted
ZfsCrypto ==
    Uses({"wait_status", "crypto_get_encryption_root", "crypto_load_key",
          "crypto_unload_key", "crypto_rewrap"}, Zfs)
    \cup Uses({"crypto_rewrap"}, WithList(Zfs))
    \cup Reads({"is_encrypted"}, Zfs)

\* l_zfs_destroy .. l_zfs_rename
ZfsChange ==
    Uses({"destroy", "destroy_snaps", "clone", "rename"}, Zfs)
    \cup Uses({"clone"}, WithList(Zfs))
    \cup Uses({"rollback"}, <<"zfs", "zfs">>)

\* snapfilter_cb, l_zfs_send .. l_zfs_promote; the handles wrapped for the
\* filter are those of zfs_send(3).
ZfsSend ==
    WalksWith({"send"}, Zfs, "zfs", "lent") \cup Makes({"send"}, Zfs, "nvlist")
    \cup Uses({"send_one", "send_progress", "send_saved", "promote"}, Zfs)

\* l_zfs_hold .. l_zfs_spa_version
ZfsHolds ==
    Uses({"hold", "release"}, Zfs) \cup Uses({"hold_nvl"}, WithList(Zfs))
    \cup Makes({"get_holds"}, Zfs, "nvlist")
    \cup Reads({"refresh_properties", "parent_name", "spa_version"}, Zfs)

\* l_zfs_is_mounted .. l_zfs_jail
ZfsMounts ==
    Uses({"is_mounted", "mount", "mount_at", "unmount", "unmountall", "jail"}, Zfs)

\* l_zpool_get_name .. l_zpool_scan
PoolState ==
    Reads({"get_name", "get_state", "get_state_str", "get_status"}, Pool)
    \cup Uses({"wait", "wait_status", "destroy", "scan"}, Pool)
    \cup Uses({"add"}, WithList(Pool))

\* l_zpool_scan_range .. l_zpool_trim
PoolInit ==
    Uses({"scan_range", "initialize_one"}, Pool)
    \cup Uses({"initialize", "initialize_wait", "trim"}, WithList(Pool))

\* l_zpool_clear .. l_zpool_ddt_prune
PoolClear ==
    Uses({"clear", "reguid", "set_guid", "reopen_one", "sync_one", "trim_one",
          "ddt_prune"}, Pool)
    \cup Uses({"clear"}, WithList(Pool))
    \cup Makes({"collect_leaves"}, WithList(Pool), "nvlist")

\* l_zpool_vdev_online .. l_zpool_vdev_indirect_size
PoolVdevs ==
    Uses({"vdev_online", "vdev_offline", "vdev_detach", "vdev_remove",
          "vdev_remove_cancel", "vdev_indirect_size"}, Pool)
    \cup Uses({"vdev_attach"}, WithList(Pool))

\* l_zpool_vdev_split .. l_zpool_vdev_clear; split drops the list that it gets.
PoolVdevFaults ==
    Leaks({"vdev_split"}, Pool) \cup Leaks({"vdev_split"}, WithList(Pool))
    \cup Uses({"vdev_remove_wanted", "vdev_fault", "vdev_degrade",
               "vdev_set_removed_state", "vdev_clear"}, Pool)

\* l_zpool_find_vdev .. l_zpool_vdev_path_to_guid; the lists found belong to
\* the pool's configuration.
PoolFind ==
    Lends({"find_vdev", "find_parent_vdev", "find_vdev_by_physpath"}, Pool, "nvlist")
    \cup Uses({"prepare_disk"}, WithList(Pool))
    \cup Reads({"vdev_path_to_guid"}, Pool)

\* l_zpool_set_prop .. l_zpool_set_vdev_prop
PoolProps ==
    Uses({"set_prop", "get_prop", "get_userprop", "props_refresh", "get_vdev_prop",
          "set_vdev_prop"}, Pool)
    \cup Reads({"get_prop_int"}, Pool)
    \cup Makes({"get_all_vdev_props"}, Pool, "nvlist")

\* l_zpool_get_config .. l_zpool_add_propname; configuration and features
\* belong to the pool.
PoolConfig ==
    Lends({"get_config", "get_features"}, Pool, "nvlist")
    \cup Uses({"refresh_stats", "add_propname"}, Pool)
    \cup Uses({"refresh_stats_from_handle"}, <<"zpool", "zpool">>)
    \cup Makes({"get_errlog"}, Pool, "nvlist")

\* l_zpool_export .. l_zpool_prefetch
PoolExport ==
    Uses({"export", "export_force", "upgrade", "checkpoint", "discard_checkpoint",
          "prefetch"}, Pool)
    \cup Makes({"get_history"}, Pool, "nvlist")
    \cup Reads({"obj_to_path", "obj_to_path_ds"}, Pool)

\* l_zpool_prop_get_feature .. l_zpool_disable_datasets
PoolBoot ==
    Uses({"prop_get_feature", "enable_datasets", "disable_datasets"}, Pool)
    \cup Uses({"zvol_volsize_to_reservation", "set_bootenv"}, WithList(Pool))
    \cup Makes({"get_bootenv"}, Pool, "nvlist")

ZfsRows ==
    ZfsHandle \cup ZfsOpenPool \cup ZfsCreatePool \cup ZfsEvents \cup ZfsOpen
    \cup ZfsPrepare \cup ZfsDatasets \cup ZfsStreams \cup ZfsQueries \cup ZfsNames
    \cup ZfsProps \cup ZfsPropLists \cup ZfsWalks \cup ZfsWalksV2 \cup ZfsWalksLast
    \cup ZfsCrypto \cup ZfsChange \cup ZfsSend \cup ZfsHolds \cup ZfsMounts

PoolRows ==
    PoolState \cup PoolInit \cup PoolClear \cup PoolVdevs \cup PoolVdevFaults
    \cup PoolFind \cup PoolProps \cup PoolConfig \cup PoolExport \cup PoolBoot
=============================================================================
