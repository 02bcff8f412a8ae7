------------------------------ MODULE Bindings ------------------------------
(* A Lua program and what it works with: the handles of one binding (Handles, *)
(* with the tables of all bindings), the callbacks of libzfs (ZfsIter), an    *)
(* event loop (EventLoop), or lists of I/O requests (Listio).                 *)
EXTENDS LibZfs, NvPair, Casper, Descriptors, SysHandles, ZfsIter, EventLoop, Listio

BindingTable ==
    [zfs         |-> ZfsRows \cup {r \in NvPairRows : r.on = <<>>},
     zpool       |-> {r \in ZfsHandle \cup ZfsOpenPool : r.mk \in {"libzfs", "zpool"}}
                        \cup PoolRows \cup {r \in NvPairRows : r.on = <<>>},
     nvpair      |-> NvPairRows,
     core        |-> CoreRows \cup NvPairRows,
     casper      |-> CasperRows,
     descriptors |-> DescriptorRows,
     acl         |-> AclRows,
     mac         |-> MacRows,
     kvm         |-> KvmRows,
     be          |-> BeRows,
     magic       |-> MagicRows,
     ifconfig    |-> IfcRows,
     callbacks   |-> {},
     events      |-> {},
     listio      |-> {}]

BindingMetatables ==
    ZfsMetatables @@ NvPairMetatables @@ CasperMetatables @@ DescriptorMetatables
        @@ SysMetatables

Apart == {"callbacks", "events", "listio"}

\* The parts do not meet in a program: a step is a step of one of them.
BindingsInit ==
    /\ HandlesInit /\ IterInit /\ EventInit /\ ListioInit
    /\ lib # "listio" => /\ lop = [c \in Requests |-> "read"]
                         /\ lstate = [c \in Requests |-> "UNINIT"]

BindingsNext ==
    \/ lib \notin Apart /\ HandlesNext /\ UNCHANGED <<iterVars, evVars, lioVars>>
    \/ lib = "callbacks" /\ IterNext /\ UNCHANGED <<hVars, evVars, lioVars>>
    \/ lib = "events" /\ EventNext /\ UNCHANGED <<hVars, iterVars, lioVars>>
    \/ lib = "listio" /\ ListioNext /\ UNCHANGED <<hVars, iterVars, evVars>>

BindingsSpec == BindingsInit /\ [][BindingsNext]_<<hVars, iterVars, evVars, lioVars>>
=============================================================================
