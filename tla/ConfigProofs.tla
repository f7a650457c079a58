---------------------------- MODULE ConfigProofs ----------------------------
(***************************************************************************)
(* Proofs about Config: for every document, every environment and every    *)
(* limit, and whatever names resolve to.                                   *)
(***************************************************************************)
EXTENDS Config, TLAPS

\* Everything a prepared server is follows from the document, which was
\* accepted; everything done since follows from the prepared servers.
Accepted ==
    /\ document \in Documents
    /\ pc \in {"validate", "prepare", "run", "rejected"}
    /\ pc = "validate" => DOMAIN prepared = {}
    /\ pc # "validate" /\ pc # "rejected" => validate_endpoints(document)
    /\ DOMAIN prepared # {} => validate_endpoints(document)
    /\ pc = "run" => \A s \in DOMAIN prepared :
                         wait_limit_fits(document.servers[s])

Faithful ==
    /\ todo \subseteq DOMAIN document.servers
    /\ DOMAIN prepared \subseteq DOMAIN document.servers
    /\ \A s \in DOMAIN prepared : /\ prepared[s] = Prepared(s)
                                 /\ files_resolve(document.servers[s])
    /\ \A s, r \in DOMAIN prepared :
          canonicalize(document.servers[s].directory)
             = canonicalize(document.servers[r].directory) => s = r

Launched ==
    \A child \in children :
        /\ child = [server |-> child.server, directory |-> child.directory,
                    environment |-> child.environment]
        /\ child.server \in DOMAIN prepared
        /\ child.directory = canonicalize(document.servers[child.server].directory)
        /\ child.environment = DOMAIN environment \ secret_names(child.server)

Dialed ==
    \A c \in dialed :
        /\ DOMAIN prepared # {}
        /\ c \in [server : Servers, port : Nat, address : Addresses]
        /\ \E t \in Targets(document) :
              /\ c.port = t.target.port
              /\ c.address \in Resolved(Canonical(t.target.host))

IInv == Accepted /\ Faithful /\ Launched /\ Dialed

-----------------------------------------------------------------------------
\* The validated endpoints of a document are endpoints.
LEMMA TargetsAreEndpoints ==
    ASSUME document \in Documents, NEW t \in Targets(document)
    PROVE  t.target \in Endpoint
  BY DocumentsAssumption DEF Targets, RconSchema

\* An address stays one when it is canonical, a name stays a name.
LEMMA CanonicalKinds ==
    ASSUME NEW host \in Addresses \cup Names
    PROVE  /\ host \in Addresses => /\ Canonical(host) \in Addresses \ Mapped
                                    /\ Canonical(host) = canonicalize_ip(host)
           /\ host \notin Addresses => Canonical(host) \notin Addresses
  BY DEF Canonical, canonicalize_ip, to_ascii_lowercase, Addresses, V4, V6,
         Mapped, Names

\* Canonicalising twice is canonicalising once.
LEMMA CanonicalTwice ==
    ASSUME NEW host \in Addresses \cup Names
    PROVE  Canonical(Canonical(host)) = Canonical(host)
  BY DEF Canonical, canonicalize_ip, to_ascii_lowercase, Addresses, V4, V6,
         Mapped, Names

\* No address a target's host may stand for is taken by a listener the target
\* was compared with.
LEMMA TargetMissesListener ==
    ASSUME NEW target \in Endpoint, NEW listener \in Endpoint,
           validate_target(target), validate_listener(listener),
           ~may_target(target, listener),
           NEW c, c.port = target.port,
           c.address \in Resolved(Canonical(target.host))
    PROVE  ~Takes(new_endpoint(listener), c)
  <1> DEFINE bound == new_endpoint(listener)
  <1>1. bound.port = listener.port /\ bound.host = Canonical(listener.host)
    BY DEF Endpoint, new_endpoint
  <1>2. CASE target.port # listener.port
    BY <1>1, <1>2 DEF Takes
  <1>3. CASE target.port = listener.port
    <2>1. /\ target.host \in Addresses
          /\ Canonical(target.host) # Canonical(listener.host)
          /\ ~is_unspecified(Canonical(listener.host))
      BY <1>3 DEF may_target
    <2>2. /\ c.address = Canonical(target.host)
          /\ c.address \in Addresses \ Mapped
      BY <2>1, CanonicalKinds DEF Resolved, Endpoint
    <2>3. ~is_unspecified(c.address)
      BY <2>2 DEF validate_target
    <2>4. Destination(c.address) = c.address
      BY <2>2, <2>3 DEF Destination, is_unspecified
    <2>5. bound.host \notin Mapped
      BY <1>1, CanonicalKinds DEF validate_listener, Endpoint
    <2> QED
      BY <1>1, <2>1, <2>2, <2>4, <2>5 DEF Takes
  <1> QED BY <1>2, <1>3

-----------------------------------------------------------------------------
\* At first nothing is prepared.
LEMMA Initially == Init => IInv
  BY DEF Init, IInv, Accepted, Faithful, Launched, Dialed

\* A document that is prepared was accepted.
LEMMA ValidateKeeps == IInv /\ Validate => IInv'
  <1> SUFFICES ASSUME IInv, Validate PROVE IInv'
    OBVIOUS
  <1> USE DEF Validate
  <1>1. Accepted'
    BY DEF IInv, Accepted
  <1>2. Faithful'
    BY DEF IInv, Accepted, Faithful, Prepared, secret_names
  <1>3. Launched'
    BY DEF IInv, Launched, secret_names
  <1>4. Dialed'
    BY DEF IInv, Dialed
  <1> QED BY <1>1, <1>2, <1>3, <1>4 DEF IInv

\* A server is prepared from its own part of the document, in a directory of its
\* own.
LEMMA PrepareServerKeeps == IInv /\ PrepareServer => IInv'
  <1> SUFFICES ASSUME IInv, PrepareServer PROVE IInv'
    OBVIOUS
  <1>0. UNCHANGED <<document, environment, children, dialed>> /\ pc = "prepare"
    BY DEF PrepareServer
  <1>1. CASE pc' = "rejected" /\ UNCHANGED <<todo, prepared>>
    <2>1. Accepted'
      BY <1>0, <1>1 DEF IInv, Accepted
    <2>2. Faithful'
      BY <1>0, <1>1 DEF IInv, Faithful, Prepared, secret_names
    <2>3. Launched'
      BY <1>0, <1>1 DEF IInv, Launched, secret_names
    <2>4. Dialed'
      BY <1>0, <1>1 DEF IInv, Dialed
    <2> QED BY <2>1, <2>2, <2>3, <2>4 DEF IInv
  <1>2. CASE pc' # "rejected" \/ ~UNCHANGED <<todo, prepared>>
    <2>1. PICK s \in todo :
             /\ ~Used(s) /\ files_resolve(document.servers[s])
             /\ prepared' = [r \in DOMAIN prepared \cup {s} |->
                               IF r = s THEN Prepared(s) ELSE prepared[r]]
             /\ todo' = todo \ {s} /\ pc' = pc
      BY <1>2 DEF PrepareServer
    <2>2. s \in DOMAIN document.servers /\ DOMAIN prepared' = DOMAIN prepared \cup {s}
      BY <2>1 DEF IInv, Faithful
    <2>3. Accepted'
      BY <1>0, <2>1 DEF IInv, Accepted
    <2>4. Faithful'
      <3>1. todo' \subseteq DOMAIN document'.servers
        BY <1>0, <2>1 DEF IInv, Faithful
      <3>2. DOMAIN prepared' \subseteq DOMAIN document'.servers
        BY <1>0, <2>2 DEF IInv, Faithful
      <3>3. \A r \in DOMAIN prepared' :
               /\ prepared'[r] = Prepared(r)'
               /\ files_resolve(document'.servers[r])
        <4>1. \A r : Prepared(r)' = Prepared(r)
          BY <1>0 DEF Prepared, secret_names
        <4> QED BY <1>0, <2>1, <2>2, <4>1 DEF IInv, Faithful
      <3>4. \A r \in DOMAIN prepared :
               canonicalize(document.servers[r].directory)
                  # canonicalize(document.servers[s].directory)
        BY <2>1 DEF Used, IInv, Faithful, Prepared
      <3>5. \A q, r \in DOMAIN prepared' :
               canonicalize(document'.servers[q].directory)
                  = canonicalize(document'.servers[r].directory) => q = r
        BY <1>0, <2>2, <3>4 DEF IInv, Faithful
      <3> QED BY <3>1, <3>2, <3>3, <3>5 DEF Faithful
    <2>5. Launched'
      BY <1>0, <2>2 DEF IInv, Launched, secret_names
    <2>6. Dialed'
      BY <1>0, <2>2 DEF IInv, Dialed
    <2> QED BY <2>3, <2>4, <2>5, <2>6 DEF IInv
  <1> QED BY <1>1, <1>2

\* Servers run only when all their limits fit.
LEMMA PrepareRuntimesKeeps == IInv /\ PrepareRuntimes => IInv'
  <1> SUFFICES ASSUME IInv, PrepareRuntimes PROVE IInv'
    OBVIOUS
  <1> USE DEF PrepareRuntimes
  <1>1. Accepted'
    BY DEF IInv, Accepted
  <1>2. Faithful'
    BY DEF IInv, Faithful, Prepared, secret_names
  <1>3. Launched'
    BY DEF IInv, Launched, secret_names
  <1>4. Dialed'
    BY DEF IInv, Dialed
  <1> QED BY <1>1, <1>2, <1>3, <1>4 DEF IInv

\* A process gets the directory and the variables of its server.
LEMMA LaunchKeeps == ASSUME NEW s \in Servers PROVE IInv /\ Launch(s) => IInv'
  <1> SUFFICES ASSUME IInv, Launch(s) PROVE IInv'
    OBVIOUS
  <1>0. UNCHANGED <<document, environment, pc, todo, prepared, dialed>>
    BY DEF Launch
  <1>1. Accepted' /\ Faithful' /\ Dialed'
    BY <1>0 DEF IInv, Accepted, Faithful, Dialed, Prepared, secret_names
  <1>2. Launched'
    <2>1. prepared[s] = Prepared(s)
      BY DEF IInv, Faithful, Launch
    <2>2. /\ prepared[s].directory = canonicalize(document.servers[s].directory)
          /\ prepared[s].removed = secret_names(s)
      BY <2>1 DEF Prepared
    <2>3. \A r : secret_names(r)' = secret_names(r)
      BY <1>0 DEF secret_names
    <2> QED BY <1>0, <2>2, <2>3 DEF IInv, Launched, Launch
  <1> QED BY <1>1, <1>2 DEF IInv

\* A connection goes to an address one of the document's targets may stand for.
LEMMA ConnectKeeps == ASSUME NEW s \in Servers PROVE IInv /\ Connect(s) => IInv'
  <1> SUFFICES ASSUME IInv, Connect(s) PROVE IInv'
    OBVIOUS
  <1>0. UNCHANGED <<document, environment, pc, todo, prepared, children>>
    BY DEF Connect
  <1>1. Accepted' /\ Faithful' /\ Launched'
    BY <1>0 DEF IInv, Accepted, Faithful, Launched, Prepared,
                secret_names
  <1>2. Dialed'
    <2>1. PICK target \in {prepared[s].backend} \cup prepared[s].rcon :
             \E address \in Resolved(target.host) :
                dialed' = {[server |-> s, port |-> target.port,
                            address |-> address]}
      BY DEF Connect
    <2>2. s \in DOMAIN prepared /\ prepared[s] = Prepared(s)
          /\ s \in DOMAIN document.servers /\ document \in Documents
      BY DEF IInv, Accepted, Faithful, Connect
    <2>3. \E t \in Targets(document) :
             target.port = t.target.port /\ target.host = Canonical(t.target.host)
      <3>1. CASE target = prepared[s].backend
        <4> DEFINE t == [server |-> s, role |-> "backend",
                         target |-> document.servers[s].backend]
        <4>1. t \in Targets(document)
          BY <2>2 DEF Targets
        <4>2. target = new_endpoint(t.target)
          BY <2>2, <3>1 DEF Prepared
        <4>3. t.target \in Endpoint
          BY <2>2, <4>1, TargetsAreEndpoints
        <4> HIDE DEF t
        <4> QED BY <4>1, <4>2, <4>3 DEF Endpoint, new_endpoint
      <3>2. CASE target \in prepared[s].rcon
        <4>1. PICK r \in document.servers[s].rcon :
                 target = new_endpoint(r.target)
          BY <2>2, <3>2 DEF Prepared
        <4> DEFINE t == [server |-> s, role |-> "rcon", target |-> r.target]
        <4>2. t \in Targets(document)
          BY <2>2, <4>1 DEF Targets
        <4>3. t.target \in Endpoint
          BY <2>2, <4>2, TargetsAreEndpoints
        <4>4. t.target = r.target
          OBVIOUS
        <4> HIDE DEF t
        <4> QED BY <4>1, <4>2, <4>3, <4>4 DEF Endpoint, new_endpoint
      <3> QED BY <3>1, <3>2
    <2>4. Targets(document)' = Targets(document)
      BY <1>0 DEF Targets
    <2>5. PICK address \in Resolved(target.host) :
             dialed' = {[server |-> s, port |-> target.port,
                         address |-> address]}
      BY <2>1
    <2>6. PICK t \in Targets(document) :
             target.port = t.target.port /\ target.host = Canonical(t.target.host)
      BY <2>3
    <2>7. target.port \in Nat /\ address \in Addresses
      BY <2>2, <2>5, <2>6, TargetsAreEndpoints DEF Endpoint, Resolved
    <2> QED BY <1>0, <2>2, <2>4, <2>5, <2>6, <2>7 DEF Dialed
  <1> QED BY <1>1, <1>2 DEF IInv

\* A stutter changes nothing.
LEMMA StutterKeeps == IInv /\ UNCHANGED vars => IInv'
  BY DEF IInv, Accepted, Faithful, Launched, Dialed, Prepared, secret_names, vars

\* What is prepared, launched and dialed follows from an accepted document.
THEOREM ConfigInvariance == Spec => []IInv
  <1>1. IInv /\ [Next]_vars => IInv'
    BY ValidateKeeps, PrepareServerKeeps, PrepareRuntimesKeeps, LaunchKeeps,
       ConnectKeeps, StutterKeeps DEF Next, Finished
  <1> QED BY Initially, <1>1, PTL DEF Spec

-----------------------------------------------------------------------------
\* The prepared servers are some of the document's, their endpoints are
\* canonical, and what is launched and dialed has its type.
THEOREM TypeCorrect == Spec => []TypeOK
  <1>1. IInv => TypeOK
    <2> SUFFICES ASSUME IInv PROVE TypeOK
      OBVIOUS
    <2>1. pc \in {"validate", "prepare", "run", "rejected"}
      BY DEF IInv, Accepted
    <2>2. \A s \in DOMAIN prepared :
             /\ Canonical(prepared[s].listener.host) = prepared[s].listener.host
             /\ Canonical(prepared[s].backend.host) = prepared[s].backend.host
      <3> SUFFICES ASSUME NEW s \in DOMAIN prepared
                   PROVE  /\ Canonical(prepared[s].listener.host)
                                = prepared[s].listener.host
                          /\ Canonical(prepared[s].backend.host)
                                = prepared[s].backend.host
        OBVIOUS
      <3>1. /\ prepared[s] = Prepared(s) /\ document \in Documents
            /\ s \in DOMAIN document.servers
        BY DEF IInv, Accepted, Faithful
      <3>2. /\ document.servers[s].listener \in Endpoint
            /\ document.servers[s].backend \in Endpoint
        BY <3>1, DocumentsAssumption
      <3>3. /\ prepared[s].listener.host
                  = Canonical(document.servers[s].listener.host)
            /\ prepared[s].backend.host
                  = Canonical(document.servers[s].backend.host)
        BY <3>1, <3>2 DEF Prepared, Endpoint, new_endpoint
      <3> QED BY <3>2, <3>3, CanonicalTwice DEF Endpoint, new_endpoint
    <2>3. children \subseteq [server      : Servers,
                              directory   : {"survival", "creative"},
                              environment : SUBSET DOMAIN environment]
      <3> SUFFICES ASSUME NEW child \in children
                   PROVE  child \in [server      : Servers,
                                     directory   : {"survival", "creative"},
                                     environment : SUBSET DOMAIN environment]
        OBVIOUS
      <3> DEFINE server == document.servers[child.server]
      <3>1. /\ child = [server |-> child.server, directory |-> child.directory,
                        environment |-> child.environment]
            /\ child.server \in DOMAIN document.servers
            /\ child.directory = canonicalize(server.directory)
            /\ child.environment \in SUBSET DOMAIN environment
        BY DEF IInv, Faithful, Launched
      <3>2. /\ child.server \in Servers /\ server.directory \in Directories
            /\ server.directory # "missing"
        BY <3>1, DocumentsAssumption
           DEF IInv, Accepted, Faithful, Launched, files_resolve
      <3>3. child.directory \in {"survival", "creative"}
        BY <3>1, <3>2 DEF Directories, canonicalize
      <3> HIDE DEF server
      <3> QED BY <3>1, <3>2, <3>3
    <2> QED BY <2>1, <2>2, <2>3 DEF IInv, Faithful, Dialed, TypeOK
  <1> QED BY ConfigInvariance, <1>1, PTL

\* No connection the gateway makes (connect_backend, RconClient::connect) is
\* taken by one of its own listeners, whatever names resolve to, for every
\* document that validate_endpoints accepts.
THEOREM LoopsAreImpossible == Spec => []NoProxyLoop
  <1>1. IInv => NoProxyLoop
    <2> SUFFICES ASSUME IInv, NEW c \in dialed, NEW s \in DOMAIN prepared
                 PROVE  ~Takes(prepared[s].listener, c)
      BY DEF NoProxyLoop
    <2>1. /\ validate_endpoints(document) /\ document \in Documents
          /\ s \in DOMAIN document.servers /\ prepared[s] = Prepared(s)
      BY DEF IInv, Accepted, Faithful
    <2>2. PICK t \in Targets(document) :
             /\ c.port = t.target.port
             /\ c.address \in Resolved(Canonical(t.target.host))
      BY DEF IInv, Dialed
    <2> DEFINE listener == document.servers[s].listener
    <2>3. /\ validate_target(t.target) /\ validate_listener(listener)
          /\ ~may_target(t.target, listener)
      BY <2>1 DEF validate_endpoints
    <2>4. listener \in Endpoint /\ t.target \in Endpoint
      BY <2>1, TargetsAreEndpoints, DocumentsAssumption
    <2>5. prepared[s].listener = new_endpoint(listener)
      BY <2>1 DEF Prepared
    <2> HIDE DEF listener
    <2> QED BY <2>2, <2>3, <2>4, <2>5, TargetMissesListener
  <1> QED BY ConfigInvariance, <1>1, PTL

\* No process launched for a server (process::launch) inherits the variable of
\* any server's RCON password.
THEOREM PasswordsAreHidden == Spec => []PasswordsHidden
  <1>1. IInv => PasswordsHidden
    BY DEF IInv, Launched, PasswordsHidden, secret_names
  <1> QED BY ConfigInvariance, <1>1, PTL

\* Processes of two servers never run in one directory, however its path is
\* written in the document.
THEOREM DirectoriesAreNotShared == Spec => []OneServerPerDirectory
  <1>1. IInv => OneServerPerDirectory
    <2> SUFFICES ASSUME IInv, NEW c \in children, NEW d \in children,
                        Place(c.directory) = Place(d.directory)
                 PROVE  c.server = d.server
      BY DEF OneServerPerDirectory
    <2>1. \A x \in children : Place(x.directory) = x.directory
      BY DEF IInv, Launched, Place, canonicalize
    <2>2. c.directory = d.directory
      BY <2>1
    <2> QED BY <2>2 DEF IInv, Launched, Faithful
  <1> QED BY ConfigInvariance, <1>1, PTL

\* No connection can be taken by the listeners of two servers of one address
\* family, for every document that validate_endpoints accepts.
THEOREM ListenersAreApart == Spec => []ListenersApart
  <1>1. IInv => ListenersApart
    <2> SUFFICES ASSUME IInv, NEW s \in DOMAIN prepared,
                        NEW r \in DOMAIN prepared, NEW address \in Addresses,
                        s # r,
                        same_ip_family(prepared[s].listener.host,
                                       prepared[r].listener.host),
                        NEW c, c = [address |-> address,
                                    port |-> prepared[s].listener.port],
                        Takes(prepared[s].listener, c),
                        Takes(prepared[r].listener, c)
                 PROVE  FALSE
      BY DEF ListenersApart
    <2>1. /\ validate_endpoints(document) /\ document \in Documents
          /\ {s, r} \subseteq DOMAIN document.servers
          /\ prepared[s] = Prepared(s) /\ prepared[r] = Prepared(r)
      BY DEF IInv, Accepted, Faithful
    <2> DEFINE left == document.servers[s].listener
               right == document.servers[r].listener
    <2>2. /\ left \in Endpoint /\ right \in Endpoint
          /\ validate_listener(left) /\ validate_listener(right)
          /\ ~listeners_overlap(left, right)
      BY <2>1, DocumentsAssumption DEF validate_endpoints
    <2>3. /\ prepared[s].listener = new_endpoint(left)
          /\ prepared[r].listener = new_endpoint(right)
      BY <2>1 DEF Prepared
    <2> HIDE DEF left, right
    <2> DEFINE l == Canonical(left.host)
               q == Canonical(right.host)
               to == Destination(address)
    <2>4. /\ prepared[s].listener.host = l /\ prepared[r].listener.host = q
          /\ prepared[s].listener.port = left.port
          /\ prepared[r].listener.port = right.port
      BY <2>2, <2>3 DEF Endpoint, new_endpoint
    <2>5. l \in Addresses \ Mapped /\ q \in Addresses \ Mapped
      BY <2>2, CanonicalKinds DEF validate_listener, Endpoint
    <2>6. /\ left.port = right.port /\ same_ip_family(l, q)
          /\ l # q /\ ~is_unspecified(l) /\ ~is_unspecified(q)
      BY <2>2, <2>4 DEF listeners_overlap, Takes
    <2>7. l = to /\ q = to
      BY <2>4, <2>5, <2>6 DEF Takes
    <2> QED BY <2>6, <2>7
  <1> QED BY ConfigInvariance, <1>1, PTL
=============================================================================
