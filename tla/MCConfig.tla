------------------------------ MODULE MCConfig ------------------------------
(***************************************************************************)
(* Config for TLC: two servers.  The first one's endpoints take every kind *)
(* of address; paths, passwords and timeouts vary where the endpoints are  *)
(* accepted.                                                               *)
(***************************************************************************)
EXTENDS Config, TLC

At(hosts, ports) == [host : hosts, port : ports]

Rcon(hosts, names) ==
    {{r} : r \in [target : At(hosts, {2}), password_env : names]}

Listens == At({"0.0.0.0", "::", "127.0.0.1", "::ffff:127.0.0.1"}, {1, 3})
Backends == At({"127.0.0.1", "::1", "::ffff:127.0.0.1", "::ffff:0.0.0.0",
                "224.0.0.1", "backend", "other"}, {1, 2, 3, 4})

Server(listener, backend, rcon, directory, program, icon, messages, command,
       shutdown) ==
    [listener |-> listener, backend |-> backend, rcon |-> rcon,
     directory |-> directory, program |-> program, icon |-> icon,
     messages |-> messages, command_timeout |-> command, shutdown_timeout |-> shutdown,
     other_timeouts |-> 1]

Simple(listener, backend, rcon, directory) ==
    Server(listener, backend, rcon, directory, "found", "none", "fit", 1, 2)

Document(first, second) ==
    [schema_version |-> 3, max_connections |-> 1,
     servers |-> 1 :> first @@ 2 :> second]

\* Where the endpoints differ.
Endpoints ==
    {Document(Simple(l, b, {}, "survival"),
              Simple([host |-> m, port |-> 3], c, r, "creative")) :
        l \in Listens, b \in Backends,
        m \in {"0.0.0.0", "::", "127.0.0.1"},
        c \in At({"127.0.0.1", "Backend"}, {4}),
        r \in {{}} \cup Rcon({"127.0.0.1"}, {"P"})}

Free1 == [host |-> "0.0.0.0", port |-> 1]
Free2 == [host |-> "0.0.0.0", port |-> 3]
Backend1 == [host |-> "127.0.0.1", port |-> 4]
Backend2 == [host |-> "127.0.0.1", port |-> 5]

\* Where directories and passwords do.
Shared ==
    {Document(Simple(Free1, Backend1, r, d), Simple(Free2, Backend2, q, e)) :
        d, e \in Directories,
        r \in {{}} \cup Rcon({"127.0.0.1"}, {"P", "Q"}),
        q \in {{}} \cup Rcon({"::1"}, {"P", "Q"})}

\* Where files and timeouts do.
Single ==
    {Document(Server(Free1, Backend1, {}, "survival", p, i, m, c, h),
              Simple(Free2, Backend2, {}, "creative")) :
        p \in {"found", "bare name", "missing"}, i \in {"none", "valid", "bad"},
        m \in {"fit", "too long"},
        c \in {0, 1, MaxTimer, MaxTimer + 1}, h \in {1, MaxTimer}}

Refused ==
    {[schema_version |-> v, max_connections |-> n, servers |-> id :> s] :
        v \in {2, 3}, n \in {0, 1, MaxPermits + 1}, id \in {1, 3},
        s \in {Simple(Free1, Backend1, {}, "survival")}}

MCDocuments == Endpoints \cup Shared \cup Single \cup Refused

MCEnvironments ==
    {[P |-> "password", Q |-> "password", HOME |-> "something"],
     [P |-> "password", Q |-> "empty"], [P |-> "password"]}
=============================================================================
