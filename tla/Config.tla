------------------------------- MODULE Config -------------------------------
(***************************************************************************)
(* From a configuration document to prepared servers (config.rs, and       *)
(* ServerRuntime::prepare in runtime.rs), and what the prepared servers    *)
(* then do to the machine: listen, connect, and launch processes.          *)
(*                                                                         *)
(* validate_document judges the document as a whole, before any name is    *)
(* resolved or any socket bound; prepare_document goes through the servers *)
(* in the order of their ids and gives up at the first error.  A document  *)
(* is parsed already; a host is an address or a name, and a file is what   *)
(* the file system makes of its path.                                      *)
(***************************************************************************)
EXTENDS Integers, FiniteSets

CONSTANTS
    Servers,       \* the servers' ids, numbers in BTreeMap order
    BadIds,        \* those that are not lowercase kebab case
    MaxPermits,    \* Semaphore::MAX_PERMITS
    Documents,     \* ConfigDocument: what an operator may write
    Environments,  \* the daemon's environment: variables and their values
    Margin,        \* SUPERVISOR_SHUTDOWN_MARGIN
    MaxDuration,   \* the largest Duration
    MaxTimer,      \* the largest duration tokio can wait for
    DualStack      \* an IPv6 listener on :: takes IPv4 connections too

ASSUME ServersAssumption == Servers \subseteq Nat
ASSUME DurationsAssumption ==
    {Margin, MaxDuration, MaxTimer} \subseteq Nat /\ MaxTimer <= MaxDuration

VARIABLES
    document,     \* what is loaded
    environment,
    pc,           \* validate, prepare, run, rejected
    todo,         \* the servers still to prepare
    prepared,     \* the prepared ones, from ids to what they run with
    children,     \* the processes launched
    dialed        \* the last connection made: who connected and to what

vars == <<document, environment, pc, todo, prepared, children, dialed>>

-----------------------------------------------------------------------------
(***************************************************************************)
(* Addresses.  One of each kind that is treated differently; the last two  *)
(* IPv6 ones are IPv4-mapped.                                              *)
(***************************************************************************)
V4 == {"0.0.0.0", "127.0.0.1", "224.0.0.1"}
Mapped == {"::ffff:0.0.0.0", "::ffff:127.0.0.1"}
V6 == {"::", "::1", "ff02::1"} \cup Mapped
Addresses == V4 \cup V6

is_unspecified(address) == address \in {"0.0.0.0", "::"}
is_multicast(address) == address \in {"224.0.0.1", "ff02::1"}

canonicalize_ip(address) ==
    CASE address = "::ffff:0.0.0.0"   -> "0.0.0.0"
      [] address = "::ffff:127.0.0.1" -> "127.0.0.1"
      [] OTHER                        -> address

\* The families of canonical addresses.
same_ip_family(a, b) == a \in V4 <=> b \in V4

\* DNS names, with two spellings of one of them.
Names == {"backend", "Backend", "other"}
to_ascii_lowercase(name) == IF name = "Backend" THEN "backend" ELSE name

Canonical(host) ==
    IF host \in Addresses THEN canonicalize_ip(host)
    ELSE to_ascii_lowercase(host)

\* The file system: one directory has a second name, one does not exist.
Directories == {"survival", "link-to-survival", "creative", "missing"}

\* What the parser makes of a file: ServerSchema, as far as it is modelled.
\* rcon is an Option, a set of at most one.
Endpoint == [host : Addresses \cup Names, port : Nat]
RconSchema == [target : Endpoint, password_env : STRING]

ASSUME DocumentsAssumption ==
    \A doc \in Documents : \A s \in DOMAIN doc.servers :
        /\ s \in Servers
        /\ doc.servers[s].listener \in Endpoint
        /\ doc.servers[s].backend \in Endpoint
        /\ doc.servers[s].rcon \subseteq RconSchema
        /\ doc.servers[s].directory \in Directories
        /\ doc.servers[s].command_timeout \in Nat
        /\ doc.servers[s].shutdown_timeout \in Nat

-----------------------------------------------------------------------------
(***************************************************************************)
(* Validation of the document.                                             *)
(***************************************************************************)

validate_listener(listener) == listener.port # 0 /\ listener.host \in Addresses

validate_server_id(s) == s \notin BadIds

\* validate_hostname is taken to accept the Names.
validate_target(target) ==
    /\ target.port # 0
    /\ ~is_unspecified(Canonical(target.host))
    /\ ~is_multicast(Canonical(target.host))

\* Every endpoint a server of the document connects to, with its role.
Targets(doc) ==
    {[server |-> s, role |-> "backend", target |-> doc.servers[s].backend] :
        s \in DOMAIN doc.servers}
    \cup UNION {{[server |-> s, role |-> "rcon", target |-> rcon.target] :
                    rcon \in doc.servers[s].rcon} : s \in DOMAIN doc.servers}

\* Seeded fault of listeners_overlap: addresses are compared as written.
listeners_overlap_literal(left, right) ==
    /\ left.port = right.port
    /\ \/ left.host = right.host
       \/ /\ is_unspecified(left.host) \/ is_unspecified(right.host)
          /\ same_ip_family(left.host, right.host)

listeners_overlap(left, right) ==
    LET l == Canonical(left.host)
        r == Canonical(right.host)
    IN /\ left.port = right.port
       /\ \/ l = r
          \/ (is_unspecified(l) \/ is_unspecified(r)) /\ same_ip_family(l, r)

\* Seeded fault of may_target: names are not known to reach a listener.
may_target_literal(target, listener) ==
    /\ target.port = listener.port
    /\ target.host \in Addresses
    /\ \/ Canonical(target.host) = Canonical(listener.host)
       \/ is_unspecified(Canonical(listener.host))

\* A name may stand for any address, and an unspecified listener takes
\* connections to all of them, of the other family too.
may_target(target, listener) ==
    /\ target.port = listener.port
    /\ \/ target.host \notin Addresses
       \/ Canonical(target.host) = Canonical(listener.host)
       \/ is_unspecified(Canonical(listener.host))

validate_endpoints(doc) ==
    /\ \A s \in DOMAIN doc.servers : validate_listener(doc.servers[s].listener)
    /\ \A t \in Targets(doc) : validate_target(t.target)
    /\ \A s, r \in DOMAIN doc.servers :
          s # r => ~listeners_overlap(doc.servers[s].listener,
                                      doc.servers[r].listener)
    /\ \A t, u \in Targets(doc) :
          t # u => \/ t.target.port # u.target.port
                   \/ Canonical(t.target.host) # Canonical(u.target.host)
    /\ \A t \in Targets(doc), s \in DOMAIN doc.servers :
          ~may_target(t.target, doc.servers[s].listener)

\* inspect_schema_version and validate_document.
Validate ==
    /\ pc = "validate"
    /\ IF /\ document.schema_version = 3
          /\ DOMAIN document.servers # {}
          /\ document.max_connections \in 1..MaxPermits
          /\ \A s \in DOMAIN document.servers : validate_server_id(s)
          /\ validate_endpoints(document)
       THEN pc' = "prepare" /\ todo' = DOMAIN document.servers
       ELSE pc' = "rejected" /\ UNCHANGED todo
    /\ UNCHANGED <<document, environment, prepared, children, dialed>>

-----------------------------------------------------------------------------
(***************************************************************************)
(* Preparation of one server after the other.                              *)
(***************************************************************************)

\* Seeded fault of canonicalize: the path is not resolved.
canonicalize_not(path) == path

canonicalize(path) == IF path = "link-to-survival" THEN "survival" ELSE path

\* resolve_working_directory, resolve_program and load_server_icon find what
\* they look for; a program that is no path is left to the launch.
files_resolve(server) ==
    /\ server.directory # "missing"
    /\ server.program \in {"found", "bare name"}
    /\ server.icon \in {"none", "valid"}

\* MinecraftResponder::new: each of the answers, icon included, fits a packet.
responder_fits(server) == server.messages = "fit"

\* prepare_timeouts; all eight are alike.
validate_durations(server) ==
    \A d \in {server.command_timeout, server.shutdown_timeout,
              server.other_timeouts} : d > 0 /\ d <= MaxTimer

\* prepare_rcon: the variable is there, is Unicode and holds a valid password.
prepare_rcon(server) ==
    \A rcon \in server.rcon :
        /\ rcon.password_env \in DOMAIN environment
        /\ environment[rcon.password_env] = "password"

\* What the processes of a server are launched without: the passwords of all.
secret_names(s) ==
    {rcon.password_env :
        rcon \in UNION {document.servers[r].rcon : r \in DOMAIN document.servers}}

\* supervisor_shutdown_wait_limit: the watchdog's limit is a Duration.
wait_limit_fits(server) ==
    server.command_timeout + server.shutdown_timeout + Margin <= MaxDuration

Used(s) == \E r \in DOMAIN prepared :
              prepared[r].directory = canonicalize(document.servers[s].directory)

\* Endpoint::new, of a host in its canonical form.
new_endpoint(endpoint) == [endpoint EXCEPT !.host = Canonical(@)]

Prepared(s) ==
    LET server == document.servers[s]
    IN [listener  |-> new_endpoint(server.listener),
        backend   |-> new_endpoint(server.backend),
        rcon      |-> {new_endpoint(r.target) : r \in server.rcon},
        directory |-> canonicalize(server.directory),
        removed   |-> secret_names(s)]

PrepareServer ==
    /\ pc = "prepare"
    /\ \E s \in todo :
          /\ \A r \in todo : s <= r
          /\ LET server == document.servers[s]
             IN IF /\ files_resolve(server) /\ ~Used(s)
                   /\ responder_fits(server)
                   /\ validate_durations(server) /\ prepare_rcon(server)
                THEN /\ prepared' = [r \in DOMAIN prepared \cup {s} |->
                                      IF r = s THEN Prepared(s)
                                      ELSE prepared[r]]
                     /\ todo' = todo \ {s} /\ UNCHANGED pc
                ELSE pc' = "rejected" /\ UNCHANGED <<todo, prepared>>
    /\ UNCHANGED <<document, environment, children, dialed>>

\* ServerRuntime::prepare for all of them, before anything is bound.
PrepareRuntimes ==
    /\ pc = "prepare" /\ todo = {}
    /\ pc' = IF \A s \in DOMAIN prepared : wait_limit_fits(document.servers[s])
             THEN "run" ELSE "rejected"
    /\ UNCHANGED <<document, environment, todo, prepared, children, dialed>>

-----------------------------------------------------------------------------
(***************************************************************************)
(* The prepared servers at work.                                           *)
(***************************************************************************)

\* process::launch: the process inherits what is not removed.
Launch(s) ==
    /\ pc = "run" /\ s \in DOMAIN prepared
    /\ children' = children \cup
          {[server      |-> s, directory |-> prepared[s].directory,
            environment |-> DOMAIN environment \ prepared[s].removed]}
    /\ UNCHANGED <<document, environment, pc, todo, prepared, dialed>>

\* TcpStream::connect, to the address itself or to any a name may stand for.
Resolved(host) == IF host \in Addresses THEN {host} ELSE Addresses

Connect(s) ==
    /\ pc = "run" /\ s \in DOMAIN prepared
    /\ \E target \in {prepared[s].backend} \cup prepared[s].rcon :
          \E address \in Resolved(target.host) :
             dialed' = {[server |-> s, port |-> target.port, address |-> address]}
    /\ UNCHANGED <<document, environment, pc, todo, prepared, children>>

Init ==
    /\ document \in Documents /\ environment \in Environments
    /\ pc = "validate" /\ todo = {} /\ prepared = [s \in {} |-> 0]
    /\ children = {} /\ dialed = {}

Finished == pc = "rejected" /\ UNCHANGED vars

Next == \/ Validate \/ PrepareServer \/ PrepareRuntimes \/ Finished
        \/ \E s \in Servers : Launch(s) \/ Connect(s)

Spec == Init /\ [][Next]_vars

-----------------------------------------------------------------------------
(***************************************************************************)
(* Properties.                                                             *)
(***************************************************************************)

TypeOK ==
    /\ pc \in {"validate", "prepare", "run", "rejected"}
    /\ todo \subseteq DOMAIN document.servers
    /\ DOMAIN prepared \subseteq DOMAIN document.servers
    /\ \A s \in DOMAIN prepared :
          /\ Canonical(prepared[s].listener.host) = prepared[s].listener.host
          /\ Canonical(prepared[s].backend.host) = prepared[s].backend.host
    /\ children \subseteq [server      : Servers,
                           directory   : {"survival", "creative"},
                           environment : SUBSET DOMAIN environment]
    /\ dialed \subseteq [server : Servers, port : Nat, address : Addresses]

\* What a listening socket takes: connections to its address, and to any of
\* its family, or of both, when it has none.  A connection to the unspecified
\* address goes to the machine itself.
Destination(address) ==
    CASE address \in {"0.0.0.0"} \cup Mapped -> "127.0.0.1"
      [] address = "::"                      -> "::1"
      [] OTHER                               -> address

Takes(listener, connection) ==
    LET to == Destination(connection.address)
    IN /\ listener.port = connection.port
       /\ \/ listener.host = to
          \/ listener.host \in Mapped /\ Destination(listener.host) = to
          \/ is_unspecified(listener.host)
             /\ (same_ip_family(listener.host, to)
                    \/ (DualStack /\ listener.host = "::"))

\* No connection the gateway makes is taken by a listener of its own, whatever
\* its names resolve to: a proxied client would go round in a circle until the
\* connection limit is used up, and RCON passwords would be sent to it.
NoProxyLoop ==
    \A c \in dialed, s \in DOMAIN prepared : ~Takes(prepared[s].listener, c)

\* No Minecraft process sees any server's RCON password, its own included.
PasswordsHidden ==
    \A child \in children, s \in DOMAIN document.servers :
        \A rcon \in document.servers[s].rcon :
            rcon.password_env \notin child.environment

\* The directory a path leads to, whatever it is called.
Place(directory) ==
    IF directory \in {"survival", "link-to-survival"} THEN "survival"
    ELSE directory

\* Two servers never run in one directory, by whatever names it is written:
\* they would share a world.
OneServerPerDirectory ==
    \A c, d \in children : Place(c.directory) = Place(d.directory)
                              => c.server = d.server

\* No connection can be taken by the listeners of two servers of one address
\* family, whatever address it is made to and however theirs are written: a
\* player who joins one server would wake, or enter, another.
ListenersApart ==
    pc = "run" => \A s, r \in DOMAIN prepared : \A address \in Addresses :
        LET left  == prepared[s].listener
            right == prepared[r].listener
            c == [address |-> address, port |-> left.port]
        IN s # r /\ same_ip_family(left.host, right.host) =>
              ~(Takes(left, c) /\ Takes(right, c))
=============================================================================
