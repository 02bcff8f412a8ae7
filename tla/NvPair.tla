------------------------------- MODULE NvPair -------------------------------
(* libnvpair/lua_nvpair.c and libzfs/core/lua_zfs_core.c: lists of            *)
(* libnvpair(3) and the functions of libzfs_core(3), which take lists and     *)
(* return lists that the caller frees.                                        *)
EXTENDS Handles

LOCAL List == <<"nvlist">>

\* l_nvlist_gc; there is no close.
NvPairMetatables == [nvlist |-> Metatable("none", TRUE)]

\* l_nvpair_nvlist, l_nvpair_unpack, pushvalue and what returns its values: a
\* list inside a list is wrapped as if it were the caller's, and a list in an
\* array of lists as well, though with a REF to the outer list.
NvPairLists ==
    Makes({"nvlist", "unpack"}, <<>>, "nvlist")
    \cup Lends({"pairs"}, List, "nvlist")
    \cup Made({"pairs"}, List, "nvlist", "reflent")

\* l_nvlist_pairs .. l_nvlist_add_boolean, add_*, add_*_array: adding a pair
\* replaces the one of that name.  The array copied for an add is lost when an
\* element has the wrong type.
NvPairAdd ==
    Reads({"size", "pack", "nvflag"}, List) \cup Makes({"dup"}, List, "nvlist")
    \cup Cuts({"merge", "add_nvlist", "add_nvlist_array"}, <<"nvlist", "nvlist">>)
    \cup Cuts({"add"}, List)
    \cup Leaks({"add_array"}, List)

\* l_nvlist_remove .. lookup_*_array
NvPairLookup ==
    Cuts({"remove"}, List)
    \cup Reads({"lookup", "lookup_boolean", "lookup_array"}, List)
    \cup Lends({"lookup", "lookup_nvlist"}, List, "nvlist")
    \cup Made({"lookup", "lookup_nvlist_array"}, List, "nvlist", "reflent")

NvPairRows == NvPairLists \cup NvPairAdd \cup NvPairLookup

-----------------------------------------------------------------------------
\* Functions that fail with a list of errors in place of the message, and
\* return one when they succeed: on a list, or on names alone.
LOCAL Errors(fs, on) == Makes(fs, on, "nvlist")

\* l_lzc_init .. l_lzc_get_bookmarks
CoreSnapshots ==
    Reads({"init", "fini", "promote"}, <<>>) \cup Reads({"create"}, List)
    \cup Errors({"snapshot"}, <<"nvlist", "nvlist">>)
    \cup Errors({"snapshot", "destroy_snaps", "bookmark", "get_bookmarks"}, List)

\* l_lzc_get_bookmark_props .. l_lzc_initialize
CoreKeys ==
    Reads({"load_key", "unload_key", "change_key"}, <<>>) \cup Reads({"change_key"}, List)
    \cup Makes({"get_bookmark_props"}, <<>>, "nvlist")
    \cup Errors({"destroy_bookmarks", "initialize"}, List)

\* l_lzc_trim .. l_lzc_get_props
CoreHolds ==
    Reads({"redact"}, List) \cup Reads({"snaprange_space"}, <<>>)
    \cup Errors({"trim", "hold", "release"}, List)
    \cup Makes({"get_holds", "get_props"}, <<>>, "nvlist")

\* l_lzc_send .. l_lzc_send_progress
CoreSend ==
    Reads({"send", "send_resume", "send_redacted", "send_resume_redacted", "send_space",
           "send_space_resume_redacted", "send_progress"}, <<>>)

\* l_lzc_receive .. l_lzc_receive_one
CoreReceive ==
    Reads({"receive", "receive_resumable", "receive_with_header"}, <<>>)
    \cup Reads({"receive", "receive_resumable", "receive_with_header"}, List)
    \cup Errors({"receive_one"}, <<>>) \cup Errors({"receive_one"}, List)

\* l_lzc_receive_with_cmdprops .. l_lzc_rename
CoreReceiveProps ==
    Errors({"receive_with_cmdprops", "receive_with_heal"}, <<>>)
    \cup Errors({"receive_with_cmdprops", "receive_with_heal"}, <<"nvlist", "nvlist">>)
    \cup Reads({"exists", "rollback", "rollback_to", "rename"}, <<>>)

\* l_lzc_destroy .. l_lzc_pool_checkpoint_discard
CorePrograms ==
    Reads({"destroy", "reopen", "pool_checkpoint", "pool_checkpoint_discard"}, <<>>)
    \cup Errors({"channel_program", "channel_program_nosync", "sync"}, List)
    \cup Errors({"sync"}, <<>>)

\* l_lzc_wait .. l_lzc_get_vdev_prop
CoreWait ==
    Reads({"wait", "wait_tag", "pool_prefetch", "wait_fs"}, <<>>)
    \cup Reads({"set_bootenv"}, List)
    \cup Makes({"get_bootenv"}, <<>>, "nvlist")
    \cup Errors({"get_vdev_prop"}, List)

\* l_lzc_set_vdev_prop .. l_lzc_ddt_prune
CoreScrub == Errors({"set_vdev_prop", "scrub"}, List) \cup Reads({"ddt_prune"}, <<>>)

CoreRows ==
    CoreSnapshots \cup CoreKeys \cup CoreHolds \cup CoreSend \cup CoreReceive
    \cup CoreReceiveProps \cup CorePrograms \cup CoreWait \cup CoreScrub
=============================================================================
