------------------------------- MODULE Casper -------------------------------
(* libcasper: channels, the limits that are built for them, the mibs of the   *)
(* sysctl service and the file arguments.  "nv" is a list of libnv(3), which  *)
(* has a module of its own (Nv).                                              *)
EXTENDS Handles

LOCAL Chan == <<"channel">>

\* l_cap_close; l_fileargs_free; l_cap_net_free; l_cap_mib_gc;
\* l_cap_sysctl_limit_free: all but the first run as __gc only.
CasperMetatables ==
    [channel      |-> Metatable("clears", TRUE),
     nv           |-> Metatable("none", TRUE),
     fileargs     |-> Metatable("none", TRUE),
     net_limit    |-> Metatable("none", TRUE),
     mib          |-> Metatable("none", TRUE),
     sysctl_limit |-> Metatable("none", TRUE)]

\* l_cap_init .. l_cap_clone; unwrap turns the channel into a descriptor.
CasperChannels ==
    Makes({"init", "wrap"}, <<>>, "channel")
    \cup Takes({"unwrap"}, Chan, 1, "-")
    \cup Reads({"sock"}, Chan) \cup Makes({"clone"}, Chan, "channel")

\* l_cap_limit .. l_cap_service_open; limit_set and xfer consume the list.
CasperMessages ==
    Makes({"limit", "recv"}, Chan, "nv")
    \cup Takes({"limit"}, <<"channel", "nv">>, 2, "-")
    \cup Takes({"xfer"}, <<"channel", "nv">>, 2, "nv")
    \cup Reads({"send"}, <<"channel", "nv">>)
    \cup Makes({"service_open"}, Chan, "channel")

\* l_fileargs_init .. l_fileargs_wrap; wrap accepts no argument.
CasperFileargsInit ==
    Makes({"init"}, <<>>, "fileargs") \cup Makes({"cinit"}, Chan, "fileargs")
    \cup Takes({"initnv"}, <<"nv">>, 1, "fileargs")
    \cup Takes({"cinitnv"}, <<"channel", "nv">>, 2, "fileargs")

\* l_fileargs_lstat .. l_fileargs_unwrap
CasperFileargs ==
    Reads({"lstat", "open", "fopen", "realpath"}, <<"fileargs">>)
    \cup Takes({"unwrap"}, <<"fileargs">>, 1, "channel")

\* l_cap_bind .. l_cap_net_limit_init; the limit keeps the channel's address.
CasperNet ==
    Reads({"bind", "connect", "getaddrinfo", "getnameinfo"}, Chan)
    \cup Spawns({"limit_init"}, Chan, "net_limit")

\* l_cap_net_limit_addr2name .. l_cap_net_limit
CasperNetLimit ==
    Reads({"addr2name", "addr2name_family", "bind", "connect", "name2addr",
           "name2addr_family"}, <<"net_limit">>)
    \cup Takes({"limit"}, <<"net_limit">>, 1, "-")

\* l_cap_sysctl .. l_cap_mib_description; a mib keeps the channel's address.
CasperMib ==
    Spawns({"sysctl"}, Chan, "mib")
    \cup Reads({"oid"}, <<"mib">>) \cup Uses({"format", "name", "description"}, <<"mib">>)

\* l_cap_mib_value; a value of unknown type is not freed.
CasperMibValue == Uses({"value"}, <<"mib">>) \cup Leaks({"value"}, <<"mib">>)

\* l_cap_mib_iter_next .. l_cap_sysctl_limit
CasperMibIter ==
    Reads({"iter", "iter_noskip"}, <<"mib">>) \cup Spawns({"iter_next"}, <<"mib">>, "mib")
    \cup Spawns({"limit_init"}, Chan, "sysctl_limit")
    \cup Reads({"name"}, <<"sysctl_limit">>)
    \cup Takes({"limit"}, <<"sysctl_limit">>, 1, "-")

\* l_cap_getgrent .. l_cap_grp_limit_groups; every buffer of the retry loops
\* is freed before the next is allocated.
CasperGrp ==
    Reads({"getgrent", "getgrnam", "getgrgid", "setgroupent", "setgrent", "endgrent",
           "limit_cmds", "limit_fields", "limit_groups"}, Chan)

\* l_cap_getpwent .. l_cap_pwd_limit_users
CasperPwd ==
    Reads({"getpwent", "getpwnam", "getpwuid", "setpassent", "setpwent", "endpwent",
           "limit_cmds", "limit_fields", "limit_users"}, Chan)

\* l_cap_openlog .. l_cap_closelog; l_cap_getprotobyname
CasperSyslog ==
    Reads({"openlog", "setlogmask", "syslog", "closelog", "getprotobyname"}, Chan)

CasperRows ==
    CasperChannels \cup CasperMessages \cup CasperFileargsInit \cup CasperFileargs
    \cup CasperNet \cup CasperNetLimit \cup CasperMib \cup CasperMibValue
    \cup CasperMibIter \cup CasperGrp \cup CasperPwd \cup CasperSyslog
    \cup Makes({"nvlist"}, <<>>, "nv")
=============================================================================
