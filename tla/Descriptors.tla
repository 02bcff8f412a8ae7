---------------------------- MODULE Descriptors -----------------------------
(* Bindings whose objects are descriptors of the kernel or close to it:       *)
(* mqueue, sys.inotify, sys.eventfd, sys.procdesc, sys.event and dirent.      *)
EXTENDS Handles

\* l_mq_close and l_mq_gc; l_inotify_close, l_eventfd_close, l_procdesc_close;
\* l_close and l_gc; l_closedir and l_dir_gc.  A closed descriptor is -1 or nil,
\* a closed stream NULL.  Only mqueue marks it before it asks the system.
DescriptorMetatables ==
    [mqd      |-> Metatable("clears", TRUE),
     inotify  |-> Metatable("fallible", TRUE),
     eventfd  |-> Metatable("fallible", TRUE),
     procdesc |-> Metatable("fallible", TRUE),
     kqueue   |-> Metatable("fallible", TRUE),
     dir      |-> Metatable("fallible", TRUE)]

\* l_mq_open .. l_mq_notify; open with attributes empties the stack that holds
\* the new userdata, and the methods do not look for -1.
MqueueOpen ==
    Makes({"open"}, <<>>, "mqd") \cup Leaks({"open"}, <<>>) \cup Reads({"unlink"}, <<>>)
    \cup Blind({"close", "getattr", "setattr", "notify"}, <<"mqd">>)

\* l_mq_send .. l_mq_getfd_np; the buffer that a message is received into is
\* freed only when there is none.
MqueueMessages ==
    Blind({"send", "timedsend", "getfd"}, <<"mqd">>)
    \cup {[r EXCEPT !.chk = FALSE] : r \in Leaks({"receive", "timedreceive"}, <<"mqd">>)}

\* l_inotify_init .. l_inotify_wrap
InotifyRows ==
    Makes({"init", "wrap"}, <<>>, "inotify")
    \cup Reads({"fileno", "read", "add_watch", "add_watch_at", "rm_watch"}, <<"inotify">>)

\* l_eventfd .. l_eventfd_wrap
EventfdRows ==
    Makes({"eventfd", "wrap"}, <<>>, "eventfd")
    \cup Reads({"fileno", "read", "write"}, <<"eventfd">>)

\* l_pdfork .. l_procdesc_fileno
ProcdescRows ==
    Makes({"pdfork", "wrap"}, <<>>, "procdesc")
    \cup Reads({"pdgetpid", "pdkill", "fileno"}, <<"procdesc">>)

\* l_kqueue .. l_gc; kevent does not look for -1, and the copy of the changes
\* that it is given is never freed.
KqueueRows ==
    Makes({"kqueue", "wrap"}, <<>>, "kqueue")
    \cup Reads({"fileno"}, <<"kqueue">>)
    \cup {[r EXCEPT !.chk = FALSE] : r \in Leaks({"kevent"}, <<"kqueue">>)}

\* l_opendir .. l_dttoif
DirRows ==
    Makes({"opendir", "fdopendir"}, <<>>, "dir")
    \cup Reads({"read", "tell", "seek", "rewind", "fd"}, <<"dir">>)
    \cup Reads({"iftodt", "dttoif"}, <<>>)

DescriptorRows ==
    MqueueOpen \cup MqueueMessages \cup InotifyRows \cup EventfdRows \cup ProcdescRows
    \cup KqueueRows \cup DirRows
=============================================================================
