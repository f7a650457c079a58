-------------------------- MODULE BackendUseProofs --------------------------
(***************************************************************************)
(* Proofs about BackendUse, for any number of handlers and of cycles and   *)
(* any idle timeout.  Nobody uses the backend while the monitor holds the  *)
(* gate (Exclusion), so what expired before it was granted is expired when *)
(* the stop is committed (Anchors); the anchors are right because the      *)
(* tracker counts the sessions of its cycle and no others.                 *)
(***************************************************************************)
EXTENDS BackendUse, FiniteSetTheorems, TLAPS

\* TypeOK but for the gate's queue.
Typed ==
    /\ running \in Nat /\ cycle \in Nat
    /\ monitor \in {"down", "begun", "monitor", "waiting", "holding",
                    "final_check", "stopping"}
    /\ activity \in [cycle : Nat, active : Nat, age : 0..IdleTimeout]
    /\ permit \in BOOLEAN /\ moved \in BOOLEAN
    /\ inspection \in {"ProxyOnly", "ConfiguredRcon"} /\ rcon \in BOOLEAN
    /\ writing \in BOOLEAN /\ zeroAge \subseteq 0..IdleTimeout
    /\ conn \in [Clients -> [at : Stages, cycle : Nat,
                             intent : {"Login", "Status"}]]
    /\ sinceUse \in 0..IdleTimeout /\ sinceDoubt \in 0..IdleTimeout

\* What the gate's guards exclude, whoever waits for them.
Exclusion ==
    /\ readers = {c \in Clients : conn[c].at \in LeaseStages}
    /\ writing <=> monitor \in {"holding", "final_check"}
    /\ writing => readers = {}

\* No handler is of a cycle to come.
Cycles ==
    /\ running <= cycle /\ activity.cycle = cycle
    /\ \A c \in Clients : conn[c].cycle <= cycle

\* The login sessions of one cycle.
Sessions(k) == {c \in Clients : conn[c].at = "session" /\ conn[c].cycle = k}

\* The idle anchors are no older than what they stand for.
Anchors ==
    /\ activity.active = 0 => sinceUse >= activity.age
    /\ \A age \in zeroAge : sinceDoubt >= age
    /\ monitor = "final_check" =>
          /\ sinceUse >= IdleTimeout
          /\ inspection = "ConfiguredRcon" => sinceDoubt >= IdleTimeout

\* Nobody waits twice.
Distinct(q) == \A i, j \in 1..Len(q) : q[i] = q[j] => i = j

\* Who waits for the gate.
Waiters == {c \in Clients : conn[c].at = "queued"}
           \cup {x \in {Supervisor} : monitor = "waiting"}

\* The queue is of those who wait, each once.
Queued ==
    /\ queue \in Seq(Clients \cup {Supervisor})
    /\ Waiting(queue) = Waiters
    /\ Distinct(queue)

\* Everything together.
IInv ==
    /\ Typed /\ Exclusion /\ Queued /\ Cycles
    /\ CountMatchesSessions /\ Anchors

-----------------------------------------------------------------------------
\* Whoever is taken out of the queue is out of it, and nobody else.
LEMMA TakenOut ==
    ASSUME NEW S, NEW q \in Seq(S), Distinct(q), NEW who
    PROVE  /\ Without(q, who) \in Seq(S)
           /\ Waiting(Without(q, who)) = Waiting(q) \ {who}
           /\ Distinct(Without(q, who))
  <1>1. CASE who \notin Waiting(q)
    BY <1>1 DEF Without
  <1>2. CASE who \in Waiting(q)
    <2> DEFINE at == CHOOSE i \in 1..Len(q) : q[i] = who
               rest == [i \in 1..(Len(q) - 1) |->
                          IF i < at THEN q[i] ELSE q[i + 1]]
    <2>1. at \in 1..Len(q) /\ q[at] = who
      BY <1>2 DEF Waiting
    <2>2. Without(q, who) = rest
      BY <1>2 DEF Without
    <2> HIDE DEF at
    <2>3. Len(q) \in Nat /\ \A i \in 1..Len(q) : q[i] \in S
      OBVIOUS
    <2>4. rest \in Seq(S) /\ Len(rest) = Len(q) - 1
      BY <2>1, <2>3
    <2>5. \A i \in 1..Len(rest) : rest[i] = IF i < at THEN q[i] ELSE q[i + 1]
      BY <2>4
    <2> HIDE DEF rest
    <2>6. Waiting(rest) \subseteq Waiting(q) \ {who}
      <3> SUFFICES ASSUME NEW i \in 1..Len(rest)
                   PROVE  rest[i] \in Waiting(q) /\ rest[i] # who
        BY DEF Waiting
      <3> QED BY <2>1, <2>3, <2>4, <2>5 DEF Waiting, Distinct
    <2>7. Waiting(q) \ {who} \subseteq Waiting(rest)
      <3> SUFFICES ASSUME NEW i \in 1..Len(q), q[i] # who
                   PROVE  q[i] \in Waiting(rest)
        BY DEF Waiting
      <3>1. CASE i < at
        <4>1. i \in 1..Len(rest) /\ rest[i] = q[i]
          BY <2>1, <2>3, <2>4, <2>5, <3>1
        <4> QED BY <4>1 DEF Waiting
      <3>2. CASE i > at
        <4>1. i - 1 \in 1..Len(rest) /\ rest[i - 1] = q[i]
          BY <2>1, <2>3, <2>4, <2>5, <3>2
        <4> QED BY <4>1 DEF Waiting
      <3> QED BY <2>1, <2>3, <3>1, <3>2
    <2>8. Distinct(rest)
      <3> DEFINE was(i) == IF i < at THEN i ELSE i + 1
      <3>1. \A i \in 1..Len(rest) : /\ was(i) \in 1..Len(q)
                                   /\ rest[i] = q[was(i)]
        BY <2>1, <2>3, <2>4, <2>5
      <3>2. \A i, j \in 1..Len(rest) : was(i) = was(j) => i = j
        BY <2>1, <2>3, <2>4
      <3> HIDE DEF was
      <3> QED BY <3>1, <3>2 DEF Distinct
    <2> QED BY <2>2, <2>4, <2>6, <2>7, <2>8
  <1> QED BY <1>1, <1>2

\* Whoever joins is in the queue, once if he was not in it before.
LEMMA Joined ==
    ASSUME NEW S, NEW q \in Seq(S), Distinct(q), NEW who \in S,
           who \notin Waiting(q)
    PROVE  /\ Append(q, who) \in Seq(S)
           /\ Waiting(Append(q, who)) = Waiting(q) \cup {who}
           /\ Distinct(Append(q, who))
  <1> DEFINE r == Append(q, who)
  <1>1. /\ r \in Seq(S) /\ Len(q) \in Nat /\ Len(r) = Len(q) + 1
        /\ \A i \in 1..Len(q) : r[i] = q[i]
        /\ r[Len(q) + 1] = who
    OBVIOUS
  <1> HIDE DEF r
  <1>2. Waiting(r) = Waiting(q) \cup {who}
    <2>1. Waiting(r) \subseteq Waiting(q) \cup {who}
      BY <1>1 DEF Waiting
    <2>2. who \in Waiting(r)
      BY <1>1 DEF Waiting
    <2>3. Waiting(q) \subseteq Waiting(r)
      <3> SUFFICES ASSUME NEW i \in 1..Len(q) PROVE q[i] \in Waiting(r)
        BY DEF Waiting
      <3>1. i \in 1..Len(r) /\ r[i] = q[i]
        BY <1>1
      <3> QED BY <3>1 DEF Waiting
    <2> QED BY <2>1, <2>2, <2>3
  <1>3. Distinct(r)
    BY <1>1 DEF Distinct, Waiting
  <1> QED BY <1>1, <1>2, <1>3 DEF r

\* The head waited, and is the one who waits no more without it.
LEMMA HeadTaken ==
    ASSUME NEW S, NEW q \in Seq(S), Distinct(q), q # <<>>
    PROVE  /\ Head(q) \in Waiting(q) /\ Tail(q) \in Seq(S)
           /\ Waiting(Tail(q)) = Waiting(q) \ {Head(q)}
           /\ Distinct(Tail(q))
  <1> DEFINE r == Tail(q)
  <1>1. /\ r \in Seq(S) /\ Len(q) \in Nat \ {0} /\ Len(r) = Len(q) - 1
        /\ \A i \in 1..Len(r) : r[i] = q[i + 1]
        /\ Head(q) = q[1]
    OBVIOUS
  <1> HIDE DEF r
  <1>2. Head(q) \in Waiting(q)
    BY <1>1 DEF Waiting
  <1>3. Waiting(r) \subseteq Waiting(q) \ {Head(q)}
    <2> SUFFICES ASSUME NEW i \in 1..Len(r)
                 PROVE  r[i] \in Waiting(q) /\ r[i] # Head(q)
      BY DEF Waiting
    <2>1. i + 1 \in 1..Len(q) /\ 1 \in 1..Len(q) /\ i + 1 # 1
      BY <1>1
    <2> QED BY <1>1, <2>1 DEF Waiting, Distinct
  <1>4. Waiting(q) \ {Head(q)} \subseteq Waiting(r)
    <2> SUFFICES ASSUME NEW i \in 1..Len(q), q[i] # Head(q)
                 PROVE  q[i] \in Waiting(r)
      BY DEF Waiting
    <2>1. i - 1 \in 1..Len(r) /\ r[i - 1] = q[i]
      BY <1>1
    <2> QED BY <2>1 DEF Waiting
  <1>5. Distinct(r)
    BY <1>1 DEF Distinct
  <1> QED BY <1>1, <1>2, <1>3, <1>4, <1>5 DEF r
\* The queue stays right when one of its members leaves it, when somebody joins
\* it, and when its head is served.
LEMMA QueueMoves ==
    ASSUME Queued, NEW who,
           \/ /\ queue' = Without(queue, who)
              /\ Waiters' = Waiters \ {who}
           \/ /\ queue' = Append(queue, who)
              /\ who \in (Clients \cup {Supervisor}) \ Waiters
              /\ Waiters' = Waiters \cup {who}
           \/ /\ queue # <<>> /\ queue' = Tail(queue) /\ who = Head(queue)
              /\ Waiters' = Waiters \ {who}
    PROVE  Queued'
  <1> DEFINE S == Clients \cup {Supervisor}
  <1>0. queue \in Seq(S) /\ Distinct(queue) /\ Waiting(queue) = Waiters
    BY DEF Queued
  <1>1. CASE queue' = Without(queue, who) /\ Waiters' = Waiters \ {who}
    <2>1. /\ queue' \in Seq(S) /\ Waiting(queue') = Waiting(queue) \ {who}
          /\ Distinct(queue')
      BY <1>0, <1>1, TakenOut
    <2> QED BY <1>0, <1>1, <2>1 DEF Queued, Waiting, Distinct
  <1>2. CASE /\ queue' = Append(queue, who)
             /\ who \in (Clients \cup {Supervisor}) \ Waiters
             /\ Waiters' = Waiters \cup {who}
    <2>1. /\ queue' \in Seq(S) /\ Waiting(queue') = Waiting(queue) \cup {who}
          /\ Distinct(queue')
      BY <1>0, <1>2, Joined
    <2> QED BY <1>0, <1>2, <2>1 DEF Queued, Waiting, Distinct
  <1>3. CASE /\ queue # <<>> /\ queue' = Tail(queue) /\ who = Head(queue)
             /\ Waiters' = Waiters \ {who}
    <2>1. /\ queue' \in Seq(S) /\ Waiting(queue') = Waiting(queue) \ {who}
          /\ Distinct(queue')
      BY <1>0, <1>3, HeadTaken
    <2> QED BY <1>0, <1>3, <2>1 DEF Queued, Waiting, Distinct
  <1> QED BY <1>1, <1>2, <1>3

\* The head of the queue waits.
LEMMA HeadWaits == ASSUME Queued, queue # <<>> PROVE Head(queue) \in Waiters
  BY HeadTaken DEF Queued

\* A queue nobody joins or leaves stays right.
LEMMA QueueStays ==
    ASSUME Queued, UNCHANGED queue, Waiters' = Waiters PROVE Queued'
  BY DEF Queued

-----------------------------------------------------------------------------

\* There are finitely many sessions.
LEMMA SessionsFinite ==
    \A k : IsFiniteSet(Sessions(k)) /\ Cardinality(Sessions(k)) \in Nat
  <1>1. \A k : Sessions(k) \subseteq Clients
    BY DEF Sessions
  <1> QED BY <1>1, FS_Subset, FS_CardinalityType, UseClientsAssumption

\* The session of the tracker's cycle is one the tracker counts.
LEMMA LiveCounts ==
    ASSUME IInv, NEW c \in Clients, conn[c].at = "session",
           conn[c].cycle = activity.cycle
    PROVE  activity.active >= 1
  <1>1. c \in Sessions(activity.cycle)
    BY DEF Sessions
  <1>2. Cardinality(Sessions(activity.cycle)) # 0
    BY <1>1, SessionsFinite, FS_EmptySet
  <1> QED BY <1>2, SessionsFinite DEF IInv, CountMatchesSessions, Sessions

\* The count in terms of the sessions.
LEMMA Counting ==
    /\ CountMatchesSessions
          <=> activity.active = Cardinality(Sessions(activity.cycle))
    /\ CountMatchesSessions'
          <=> activity'.active = Cardinality(Sessions(activity.cycle)')
  BY DEF CountMatchesSessions, Sessions

\* A handler that is in no session of the tracker's cycle, before or after its
\* step, changes nothing the tracker counts.
LEMMA SessionsKept ==
    ASSUME IInv, NEW c \in Clients, UNCHANGED activity,
           \A d \in Clients \ {c} : conn'[d] = conn[d],
           conn[c].at # "session" \/ conn[c].cycle # activity.cycle,
           conn'[c].at # "session" \/ conn'[c].cycle # activity.cycle
    PROVE  CountMatchesSessions'
  <1>1. Sessions(activity.cycle)' = Sessions(activity.cycle)
    BY DEF Sessions
  <1> QED BY <1>1 DEF IInv, CountMatchesSessions, Sessions

\* Nobody uses the backend while the monitor holds the gate.
LEMMA NobodyUses ==
    ASSUME IInv, monitor \in {"holding", "final_check"}
    PROVE  \A c \in Clients : conn[c].at \notin LeaseStages
  BY DEF IInv, Exclusion

-----------------------------------------------------------------------------
\* A reader is let in only while nobody writes.
LEMMA GrantSharedKeeps ==
    ASSUME NEW c \in Clients, IInv, GrantShared(c)
    PROVE  IInv'
  <1>1. Typed'
    BY IdleTimeoutAssumption
    DEF IInv, Typed, Cycles, Idle, Stages, GrantShared, rconVars, gateVars
  <1>2. Exclusion'
    BY DEF IInv, Typed, Exclusion, LeaseStages, GrantShared
  <1>3. Cycles'
    BY DEF IInv, Cycles, GrantShared
  <1>4. CountMatchesSessions'
    <2>1. /\ UNCHANGED activity
          /\ \A d \in Clients \ {c} : conn'[d] = conn[d]
          /\ conn[c].at # "session" \/ conn[c].cycle # activity.cycle
          /\ conn'[c].at # "session" \/ conn'[c].cycle # activity.cycle
      BY HeadWaits, ClientNamesAssumption
      DEF IInv, GrantShared, Waiters, Supervisor
    <2> QED BY <2>1, SessionsKept
  <1>5. Anchors'
    BY DEF IInv, Anchors, GrantShared, rconVars
  <1>6. Queued'
    <2>1. Waiters' = Waiters \ {Head(queue)}
      BY ClientNamesAssumption
      DEF IInv, Typed, GrantShared, Waiters, Supervisor
    <2> QED BY <2>1, QueueMoves DEF IInv, GrantShared
  <1> QED BY <1>1, <1>2, <1>3, <1>4, <1>5, <1>6 DEF IInv

\* A handler joins the queue with the cycle that is published.
LEMMA SampleKeeps == ASSUME NEW c \in Clients, IInv, Sample(c) PROVE IInv'
  <1>1. Typed'
    BY DEF IInv, Typed, Stages, Sample, rconVars
  <1>2. Exclusion'
    BY DEF IInv, Exclusion, LeaseStages, Sample
  <1>3. Cycles'
    BY DEF IInv, Cycles, Sample
  <1>4. CountMatchesSessions'
    <2>1. /\ UNCHANGED activity
          /\ \A d \in Clients \ {c} : conn'[d] = conn[d]
          /\ conn[c].at # "session" \/ conn[c].cycle # activity.cycle
          /\ conn'[c].at # "session" \/ conn'[c].cycle # activity.cycle
      BY DEF Sample
    <2> QED BY <2>1, SessionsKept
  <1>5. Anchors'
    BY DEF IInv, Anchors, Sample, rconVars
  <1>6. Queued'
    <2>1. c \notin Waiters /\ Waiters' = Waiters \cup {c}
      BY ClientNamesAssumption DEF IInv, Typed, Sample, Waiters, Supervisor
    <2> QED BY <2>1, QueueMoves DEF IInv, Sample
  <1> QED BY <1>1, <1>2, <1>3, <1>4, <1>5, <1>6 DEF IInv

\* A check of the cycle keeps the lease, or gives it back with the handler.
LEMMA EnsureKeeps ==
    ASSUME NEW c \in Clients, IInv,
           NEW from \in {"leased", "connecting", "replaying"},
           NEW to \in {"connecting", "replaying", "ensured"},
           EnsureThen(c, from, to)
    PROVE  IInv'
  <1>1. Typed'
    BY DEF IInv, Typed, Idle, Stages, EnsureThen, ReleaseShared,
        rconVars, gateVars
  <1>2. Exclusion'
    BY DEF IInv, Typed, Exclusion, Idle, LeaseStages, EnsureThen,
        ReleaseShared, gateVars
  <1>3. Cycles'
    BY DEF IInv, Typed, Cycles, Idle, EnsureThen
  <1>4. CountMatchesSessions'
    <2>1. /\ UNCHANGED activity
          /\ \A d \in Clients \ {c} : conn'[d] = conn[d]
          /\ conn[c].at # "session" \/ conn[c].cycle # activity.cycle
          /\ conn'[c].at # "session" \/ conn'[c].cycle # activity.cycle
      BY DEF IInv, Typed, EnsureThen, Idle
    <2> QED BY <2>1, SessionsKept
  <1>5. Anchors'
    BY DEF IInv, Anchors, EnsureThen, rconVars
  <1>6. Queued'
    <2>1. \/ Waiters' = Waiters /\ UNCHANGED queue
          \/ Waiters' = Waiters \ {c} /\ queue' = Without(queue, c)
      BY ClientNamesAssumption
      DEF IInv, Typed, EnsureThen, ReleaseShared, gateVars,
          Waiters, Supervisor, Idle
    <2> QED BY <2>1, QueueMoves, QueueStays DEF IInv
  <1> QED BY <1>1, <1>2, <1>3, <1>4, <1>5, <1>6 DEF IInv

\* One session more is counted, if it is of the tracker's cycle.
LEMMA EstablishSessionKeeps ==
    ASSUME NEW c \in Clients, IInv, EstablishSession(c)
    PROVE  IInv'
  <1>1. Typed'
    <2>1. activity' \in [cycle : Nat, active : Nat, age : 0..IdleTimeout]
      BY DEF IInv, Typed, EstablishSession
    <2>2. conn' \in [Clients -> [at : Stages, cycle : Nat,
                                intent : {"Login", "Status"}]]
      BY DEF IInv, Typed, Stages, Idle, EstablishSession
    <2>3. sinceUse' \in 0..IdleTimeout
      BY IdleTimeoutAssumption DEF IInv, Typed, EstablishSession
    <2>4. permit' \in BOOLEAN /\ moved' \in BOOLEAN /\ writing' \in BOOLEAN
      BY DEF IInv, Typed, EstablishSession, ReleaseShared, gateVars
    <2> QED
      BY <2>1, <2>2, <2>3, <2>4 DEF IInv, Typed, EstablishSession, rconVars
  <1>2. Exclusion'
    BY DEF IInv, Typed, Exclusion, Idle, LeaseStages, EstablishSession,
        ReleaseShared, gateVars
  <1>3. Cycles'
    BY DEF IInv, Typed, Cycles, Idle, EstablishSession
  <1>4. CountMatchesSessions'
    <2>1. CASE activity.cycle = conn[c].cycle
      <3>1. /\ activity' = [activity EXCEPT !.active = @ + 1]
            /\ conn' = [conn EXCEPT ![c].at = "session"]
            /\ c \notin Sessions(activity.cycle)
        BY <2>1 DEF EstablishSession, Sessions
      <3>2. Sessions(activity.cycle)' = Sessions(activity.cycle) \cup {c}
        BY <2>1, <3>1 DEF IInv, Typed, Sessions
      <3>3. activity'.active = activity.active + 1
        BY <3>1
      <3> QED
        BY <3>1, <3>2, <3>3, SessionsFinite, FS_AddElement, Counting DEF IInv
    <2>2. CASE activity.cycle # conn[c].cycle
      <3>1. /\ UNCHANGED activity /\ conn' = [conn EXCEPT ![c] = Idle]
            /\ conn[c].at = "ensured"
        BY <2>2 DEF EstablishSession
      <3> QED BY <3>1, SessionsKept DEF IInv, Typed, Idle
    <2> QED BY <2>1, <2>2
  <1>5. Anchors'
    BY NobodyUses
    DEF IInv, Typed, Anchors, LeaseStages, EstablishSession, rconVars
  <1>6. Queued'
    <2>1. \/ Waiters' = Waiters /\ UNCHANGED queue
          \/ Waiters' = Waiters \ {c} /\ queue' = Without(queue, c)
      BY ClientNamesAssumption
      DEF IInv, Typed, EstablishSession, ReleaseShared, gateVars, Waiters,
          Supervisor, Idle
    <2> QED BY <2>1, QueueMoves, QueueStays DEF IInv
  <1> QED BY <1>1, <1>2, <1>3, <1>4, <1>5, <1>6 DEF IInv

\* A status connection needs no lease.
LEMMA ProxyStatusKeeps ==
    ASSUME NEW c \in Clients, IInv, ProxyStatus(c)
    PROVE  IInv'
  <1>1. Typed'
    BY DEF IInv, Typed, Stages, ProxyStatus, ReleaseShared, rconVars
  <1>2. Exclusion'
    BY DEF IInv, Typed, Exclusion, LeaseStages, ProxyStatus, ReleaseShared
  <1>3. Cycles'
    BY DEF IInv, Cycles, ProxyStatus
  <1>4. CountMatchesSessions'
    <2>1. \A x \in Clients :
             /\ conn'[x].at = "session" <=> conn[x].at = "session"
             /\ conn'[x].cycle = conn[x].cycle
      BY DEF IInv, Typed, ProxyStatus
    <2> QED BY <2>1 DEF IInv, CountMatchesSessions, ProxyStatus
  <1>5. Anchors'
    BY DEF IInv, Anchors, ProxyStatus, rconVars
  <1>6. Queued'
    <2>1. \/ Waiters' = Waiters /\ UNCHANGED queue
          \/ Waiters' = Waiters \ {c} /\ queue' = Without(queue, c)
      BY ClientNamesAssumption
      DEF ProxyStatus, ReleaseShared, Waiters, Supervisor
    <2> QED BY <2>1, QueueMoves, QueueStays DEF IInv
  <1> QED BY <1>1, <1>2, <1>3, <1>4, <1>5, <1>6 DEF IInv

\* One session less is counted, if it is of the tracker's cycle, and the last one
\* moves the idle anchor.
LEMMA DropSessionKeeps ==
    ASSUME NEW c \in Clients, IInv, DropSession(c)
    PROVE  IInv'
  <1>0. /\ conn[c].at = "session"
        /\ activity.cycle = conn[c].cycle => activity.active >= 1
    <2>1. conn[c].at = "session"
      BY DEF DropSession
    <2> QED BY <2>1, LiveCounts
  <1>1. Typed'
    <2>0. activity' = IF activity.cycle = conn[c].cycle
                      THEN [activity EXCEPT
                              !.active = @ - 1,
                              !.age = IF activity.active = 1 THEN 0 ELSE @]
                      ELSE activity
      BY DEF DropSession
    <2>1. activity' \in [cycle : Nat, active : Nat, age : 0..IdleTimeout]
      <3>1. activity.active - 1 \in Nat \/ activity.cycle # conn[c].cycle
        BY <1>0 DEF IInv, Typed
      <3>2. 0 \in 0..IdleTimeout
        BY IdleTimeoutAssumption
      <3> QED BY <2>0, <3>1, <3>2 DEF IInv, Typed
    <2>2. conn' \in [Clients -> [at : Stages, cycle : Nat,
                                intent : {"Login", "Status"}]]
      BY DEF IInv, Typed, Stages, DropSession
    <2>3. sinceUse' \in 0..IdleTimeout
      BY IdleTimeoutAssumption DEF IInv, Typed, DropSession
    <2>4. permit' \in BOOLEAN /\ moved' \in BOOLEAN
      BY DEF IInv, Typed, DropSession
    <2> QED
      BY <2>1, <2>2, <2>3, <2>4
      DEF IInv, Typed, DropSession, rconVars, gateVars
  <1>2. Exclusion'
    BY DEF IInv, Exclusion, LeaseStages, DropSession, gateVars
  <1>3. Cycles'
    BY DEF IInv, Typed, Cycles, DropSession
  <1>4. CountMatchesSessions'
    <2>1. CASE activity.cycle = conn[c].cycle
      <3>1. /\ activity' = [activity EXCEPT
                   !.active = @ - 1,
                   !.age = IF activity.active = 1 THEN 0 ELSE @]
            /\ conn' = [conn EXCEPT ![c].at = "closing"]
            /\ c \in Sessions(activity.cycle)
        BY <2>1 DEF DropSession, Sessions
      <3>2. Sessions(activity.cycle)' = Sessions(activity.cycle) \ {c}
        BY <2>1, <3>1 DEF IInv, Typed, Sessions
      <3>3. activity'.active = activity.active - 1
        BY <3>1
      <3> QED
        BY <3>1, <3>2, <3>3, SessionsFinite, FS_RemoveElement, Counting
        DEF IInv
    <2>2. CASE activity.cycle # conn[c].cycle
      <3>1. UNCHANGED activity /\ conn' = [conn EXCEPT ![c].at = "closing"]
        BY <2>2 DEF DropSession
      <3> QED BY <2>2, <3>1, SessionsKept DEF IInv, Typed
    <2> QED BY <2>1, <2>2
  <1>5. Anchors'
    <2>1. monitor # "final_check"
      BY NobodyUses DEF DropSession, LeaseStages
    <2>2. CASE activity.cycle = conn[c].cycle
      <3>1. /\ activity' = [activity EXCEPT
                   !.active = @ - 1,
                   !.age = IF activity.active = 1 THEN 0 ELSE @]
            /\ sinceUse' = IF conn[c].cycle = cycle THEN 0 ELSE sinceUse
            /\ UNCHANGED <<monitor, zeroAge, sinceDoubt>>
        BY <2>2 DEF DropSession, rconVars
      <3>2. activity'.active = 0 => activity'.age = 0
        BY <1>0, <2>2, <3>1
      <3> QED
        BY <2>1, <3>1, <3>2 DEF IInv, Typed, Anchors
    <2>3. CASE activity.cycle # conn[c].cycle
      BY <2>1, <2>3 DEF IInv, Cycles, Anchors, DropSession, rconVars
    <2> QED BY <2>2, <2>3
  <1>6. Queued'
    <2>1. Waiters' = Waiters /\ UNCHANGED queue
      BY DEF DropSession, gateVars, Waiters
    <2> QED BY <2>1, QueueStays DEF IInv
  <1> QED BY <1>1, <1>2, <1>3, <1>4, <1>5, <1>6 DEF IInv

\* A dropped session has been counted off already.
LEMMA ReleaseLeaseKeeps ==
    ASSUME NEW c \in Clients, IInv, ReleaseLease(c)
    PROVE  IInv'
  <1>1. Typed'
    BY DEF IInv, Typed, Idle, Stages, ReleaseLease, Leave, ReleaseShared,
        rconVars
  <1>2. Exclusion'
    BY DEF IInv, Typed, Exclusion, Idle, LeaseStages, ReleaseLease, Leave,
        ReleaseShared
  <1>3. Cycles'
    BY DEF IInv, Typed, Cycles, Idle, ReleaseLease, Leave
  <1>4. CountMatchesSessions'
    BY DEF IInv, Typed, CountMatchesSessions, Idle, ReleaseLease, Leave
  <1>5. Anchors'
    BY DEF IInv, Anchors, ReleaseLease, Leave, rconVars
  <1>6. Queued'
    <2>1. \/ Waiters' = Waiters /\ UNCHANGED queue
          \/ Waiters' = Waiters \ {c} /\ queue' = Without(queue, c)
      BY ClientNamesAssumption
      DEF ReleaseLease, Leave, ReleaseShared, Waiters, Supervisor, Idle
    <2> QED BY <2>1, QueueMoves, QueueStays DEF IInv
  <1> QED BY <1>1, <1>2, <1>3, <1>4, <1>5, <1>6 DEF IInv

\* A handler that ends outside a session was never counted.
LEMMA CloseConnectionKeeps ==
    ASSUME NEW c \in Clients, IInv, CloseConnection(c)
    PROVE  IInv'
  <1>1. Typed'
    BY DEF IInv, Typed, Idle, Stages, CloseConnection, Leave, ReleaseShared,
        rconVars
  <1>2. Exclusion'
    BY DEF IInv, Typed, Exclusion, Idle, LeaseStages, CloseConnection, Leave,
        ReleaseShared
  <1>3. Cycles'
    BY DEF IInv, Typed, Cycles, Idle, CloseConnection, Leave
  <1>4. CountMatchesSessions'
    BY DEF IInv, Typed, CountMatchesSessions, Idle, CloseConnection, Leave
  <1>5. Anchors'
    BY DEF IInv, Anchors, CloseConnection, Leave, rconVars
  <1>6. Queued'
    <2>1. \/ Waiters' = Waiters /\ UNCHANGED queue
          \/ Waiters' = Waiters \ {c} /\ queue' = Without(queue, c)
      BY ClientNamesAssumption
      DEF IInv, Typed, CloseConnection, Leave, ReleaseShared, Waiters,
          Supervisor, Idle
    <2> QED BY <2>1, QueueMoves, QueueStays DEF IInv
  <1> QED BY <1>1, <1>2, <1>3, <1>4, <1>5, <1>6 DEF IInv

\* The monitor gets the gate when no reader is left.
LEMMA GrantExclusiveKeeps == ASSUME IInv, GrantExclusive PROVE IInv'
  <1>1. Typed'
    BY DEF IInv, Typed, GrantExclusive, rconVars
  <1>2. Exclusion'
    BY DEF IInv, Exclusion, GrantExclusive
  <1>3. Cycles'
    BY DEF IInv, Cycles, GrantExclusive
  <1>4. CountMatchesSessions'
    BY DEF IInv, CountMatchesSessions, GrantExclusive
  <1>5. Anchors'
    BY DEF IInv, Anchors, GrantExclusive, rconVars
  <1>6. Queued'
    <2>1. Waiters' = Waiters \ {Head(queue)}
      BY ClientNamesAssumption DEF GrantExclusive, Waiters, Supervisor
    <2> QED BY <2>1, QueueMoves DEF IInv, GrantExclusive
  <1> QED BY <1>1, <1>2, <1>3, <1>4, <1>5, <1>6 DEF IInv

\* A notification changes nothing by itself.
LEMMA ConsumePermitKeeps == ASSUME IInv, ConsumePermit PROVE IInv'
  <1>1. Typed'
    BY DEF IInv, Typed, ConsumePermit, rconVars, gateVars
  <1>2. Exclusion'
    BY DEF IInv, Exclusion, ConsumePermit, gateVars
  <1>3. Cycles'
    BY DEF IInv, Cycles, ConsumePermit
  <1>4. CountMatchesSessions'
    BY DEF IInv, CountMatchesSessions, ConsumePermit
  <1>5. Anchors'
    BY DEF IInv, Anchors, ConsumePermit, rconVars
  <1>6. Queued'
    <2>1. Waiters' = Waiters /\ UNCHANGED queue
      BY DEF ConsumePermit, gateVars, Waiters
    <2> QED BY <2>1, QueueStays DEF IInv
  <1> QED BY <1>1, <1>2, <1>3, <1>4, <1>5, <1>6 DEF IInv

\* An attempt that is given up leaves the queue.
LEMMA RecheckWhileWaitingKeeps == ASSUME IInv, RecheckWhileWaiting PROVE IInv'
  <1>1. Typed'
    BY DEF IInv, Typed, RecheckWhileWaiting, ReleaseExclusive, rconVars,
        gateVars
  <1>2. Exclusion'
    BY DEF IInv, Exclusion, RecheckWhileWaiting, ReleaseExclusive, gateVars
  <1>3. Cycles'
    BY DEF IInv, Cycles, RecheckWhileWaiting
  <1>4. CountMatchesSessions'
    BY DEF IInv, CountMatchesSessions, RecheckWhileWaiting
  <1>5. Anchors'
    BY DEF IInv, Anchors, RecheckWhileWaiting, rconVars
  <1>6. Queued'
    <2>1. \/ Waiters' = Waiters /\ UNCHANGED queue
          \/ Waiters' = Waiters \ {Supervisor} /\ queue' = Without(queue, Supervisor)
      BY ClientNamesAssumption
      DEF RecheckWhileWaiting, ReleaseExclusive, gateVars, Waiters, Supervisor
    <2> QED BY <2>1, QueueMoves, QueueStays DEF IInv
  <1> QED BY <1>1, <1>2, <1>3, <1>4, <1>5, <1>6 DEF IInv

\* A commit gives the gate back.
LEMMA CommitProxyOnlyKeeps == ASSUME IInv, CommitProxyOnly PROVE IInv'
  <1>1. Typed'
    BY DEF IInv, Typed, CommitProxyOnly, Commit, ReleaseExclusive, rconVars
  <1>2. Exclusion'
    BY DEF IInv, Exclusion, CommitProxyOnly, Commit, ReleaseExclusive
  <1>3. Cycles'
    BY DEF IInv, Typed, Cycles, CommitProxyOnly, Commit
  <1>4. CountMatchesSessions'
    BY DEF IInv, CountMatchesSessions, CommitProxyOnly, Commit
  <1>5. Anchors'
    BY DEF IInv, Anchors, CommitProxyOnly, Commit, rconVars
  <1>6. Queued'
    <2>1. \/ Waiters' = Waiters /\ UNCHANGED queue
          \/ Waiters' = Waiters \ {Supervisor} /\ queue' = Without(queue, Supervisor)
      BY ClientNamesAssumption
      DEF CommitProxyOnly, Commit, ReleaseExclusive, Waiters, Supervisor
    <2> QED BY <2>1, QueueMoves, QueueStays DEF IInv
  <1> QED BY <1>1, <1>2, <1>3, <1>4, <1>5, <1>6 DEF IInv

\* The final check begins with both anchors expired.
LEMMA BeginFinalCheckKeeps == ASSUME IInv, BeginFinalCheck PROVE IInv'
  <1>1. Typed'
    BY DEF IInv, Typed, BeginFinalCheck, Veto, ReleaseExclusive, rconVars,
        gateVars
  <1>2. Exclusion'
    BY DEF IInv, Exclusion, BeginFinalCheck, Veto, ReleaseExclusive, gateVars
  <1>3. Cycles'
    BY DEF IInv, Cycles, BeginFinalCheck
  <1>4. CountMatchesSessions'
    BY DEF IInv, CountMatchesSessions, BeginFinalCheck
  <1>5. Anchors'
    <2>1. /\ sinceUse >= IdleTimeout
          /\ inspection = "ConfiguredRcon" => sinceDoubt >= IdleTimeout
      BY IdleTimeoutAssumption
      DEF IInv, Typed, Anchors, BeginFinalCheck, StillIdle, IdleExpired
    <2> QED
      BY <2>1 DEF IInv, Anchors, BeginFinalCheck, rconVars
  <1>6. Queued'
    <2>1. \/ Waiters' = Waiters /\ UNCHANGED queue
          \/ Waiters' = Waiters \ {Supervisor} /\ queue' = Without(queue, Supervisor)
      BY ClientNamesAssumption
      DEF BeginFinalCheck, Veto, ReleaseExclusive, gateVars, Waiters,
          Supervisor
    <2> QED BY <2>1, QueueMoves, QueueStays DEF IInv
  <1> QED BY <1>1, <1>2, <1>3, <1>4, <1>5, <1>6 DEF IInv

\* A veto gives the gate back.
LEMMA RecheckFailsKeeps == ASSUME IInv, RecheckFails PROVE IInv'
  <1>1. Typed'
    BY DEF IInv, Typed, RecheckFails, Veto, ReleaseExclusive, rconVars
  <1>2. Exclusion'
    BY DEF IInv, Exclusion, RecheckFails, Veto, ReleaseExclusive
  <1>3. Cycles'
    BY DEF IInv, Cycles, RecheckFails
  <1>4. CountMatchesSessions'
    BY DEF IInv, CountMatchesSessions, RecheckFails
  <1>5. Anchors'
    BY DEF IInv, Anchors, RecheckFails, Veto, rconVars
  <1>6. Queued'
    <2>1. \/ Waiters' = Waiters /\ UNCHANGED queue
          \/ Waiters' = Waiters \ {Supervisor} /\ queue' = Without(queue, Supervisor)
      BY ClientNamesAssumption
      DEF RecheckFails, Veto, ReleaseExclusive, Waiters, Supervisor
    <2> QED BY <2>1, QueueMoves, QueueStays DEF IInv
  <1> QED BY <1>1, <1>2, <1>3, <1>4, <1>5, <1>6 DEF IInv

\* A commit gives the gate back.
LEMMA CommitAfterFinalCheckKeeps ==
    ASSUME IInv, CommitAfterFinalCheck
    PROVE  IInv'
  <1>1. Typed'
    BY DEF IInv, Typed, CommitAfterFinalCheck, Commit, ReleaseExclusive,
        rconVars
  <1>2. Exclusion'
    BY DEF IInv, Exclusion, CommitAfterFinalCheck, Commit, ReleaseExclusive
  <1>3. Cycles'
    BY DEF IInv, Typed, Cycles, CommitAfterFinalCheck, Commit
  <1>4. CountMatchesSessions'
    BY DEF IInv, CountMatchesSessions, CommitAfterFinalCheck, Commit
  <1>5. Anchors'
    BY DEF IInv, Anchors, CommitAfterFinalCheck, Commit, rconVars
  <1>6. Queued'
    <2>1. \/ Waiters' = Waiters /\ UNCHANGED queue
          \/ Waiters' = Waiters \ {Supervisor} /\ queue' = Without(queue, Supervisor)
      BY ClientNamesAssumption
      DEF CommitAfterFinalCheck, Commit, ReleaseExclusive, Waiters, Supervisor
    <2> QED BY <2>1, QueueMoves, QueueStays DEF IInv
  <1> QED BY <1>1, <1>2, <1>3, <1>4, <1>5, <1>6 DEF IInv

\* A veto gives the gate back, and doubt starts anew.
LEMMA FinalCheckVetoesKeeps == ASSUME IInv, FinalCheckVetoes PROVE IInv'
  <1>1. Typed'
    <2>1. rcon' \in BOOLEAN /\ writing' \in BOOLEAN
      BY DEF FinalCheckVetoes, InspectReply, Veto, ReleaseExclusive
    <2>2. zeroAge' \subseteq 0..IdleTimeout /\ sinceDoubt' \in 0..IdleTimeout
      BY IdleTimeoutAssumption DEF FinalCheckVetoes, InspectReply
    <2> QED BY <2>1, <2>2 DEF IInv, Typed, FinalCheckVetoes, Veto
  <1>2. Exclusion'
    BY DEF IInv, Exclusion, FinalCheckVetoes, Veto, ReleaseExclusive
  <1>3. Cycles'
    BY DEF IInv, Cycles, FinalCheckVetoes
  <1>4. CountMatchesSessions'
    BY DEF IInv, CountMatchesSessions, FinalCheckVetoes
  <1>5. Anchors'
    BY DEF IInv, Anchors, FinalCheckVetoes, Veto, InspectReply
  <1>6. Queued'
    <2>1. \/ Waiters' = Waiters /\ UNCHANGED queue
          \/ Waiters' = Waiters \ {Supervisor} /\ queue' = Without(queue, Supervisor)
      BY ClientNamesAssumption
      DEF FinalCheckVetoes, Veto, ReleaseExclusive, Waiters, Supervisor
    <2> QED BY <2>1, QueueMoves, QueueStays DEF IInv
  <1> QED BY <1>1, <1>2, <1>3, <1>4, <1>5, <1>6 DEF IInv

\* The monitor joins the queue.
LEMMA AttemptIdleStopKeeps == ASSUME IInv, AttemptIdleStop PROVE IInv'
  <1>1. Typed'
    BY DEF IInv, Typed, AttemptIdleStop, rconVars
  <1>2. Exclusion'
    BY DEF IInv, Exclusion, AttemptIdleStop
  <1>3. Cycles'
    BY DEF IInv, Cycles, AttemptIdleStop
  <1>4. CountMatchesSessions'
    BY DEF IInv, CountMatchesSessions, AttemptIdleStop
  <1>5. Anchors'
    BY DEF IInv, Anchors, AttemptIdleStop, rconVars
  <1>6. Queued'
    <2>1. Supervisor \notin Waiters /\ Waiters' = Waiters \cup {Supervisor}
      BY ClientNamesAssumption DEF AttemptIdleStop, Waiters, Supervisor
    <2> QED BY <2>1, QueueMoves DEF IInv, AttemptIdleStop
  <1> QED BY <1>1, <1>2, <1>3, <1>4, <1>5, <1>6 DEF IInv

\* A zero never makes the anchor older than the last doubt.
LEMMA PollPlayersKeeps == ASSUME IInv, PollPlayers PROVE IInv'
  <1>1. Typed'
    <2>1. rcon' \in BOOLEAN
      BY DEF PollPlayers, InspectReply
    <2>2. zeroAge' \subseteq 0..IdleTimeout /\ sinceDoubt' \in 0..IdleTimeout
      BY IdleTimeoutAssumption DEF IInv, Typed, PollPlayers, InspectReply
    <2> QED BY <2>1, <2>2 DEF IInv, Typed, PollPlayers, gateVars
  <1>2. Exclusion'
    BY DEF IInv, Exclusion, PollPlayers, gateVars
  <1>3. Cycles'
    BY DEF IInv, Cycles, PollPlayers
  <1>4. CountMatchesSessions'
    BY DEF IInv, CountMatchesSessions, PollPlayers
  <1>5. Anchors'
    BY DEF IInv, Typed, Anchors, PollPlayers, InspectReply
  <1>6. Queued'
    <2>1. Waiters' = Waiters /\ UNCHANGED queue
      BY DEF PollPlayers, gateVars, Waiters
    <2> QED BY <2>1, QueueStays DEF IInv
  <1> QED BY <1>1, <1>2, <1>3, <1>4, <1>5, <1>6 DEF IInv

\* No session is of the cycle that begins.
LEMMA BeginCycleKeeps == ASSUME IInv, BeginCycle PROVE IInv'
  <1>1. Typed'
    <2>1. activity' \in [cycle : Nat, active : Nat, age : 0..IdleTimeout]
      BY IdleTimeoutAssumption DEF IInv, Typed, BeginCycle
    <2>2. /\ rcon' \in BOOLEAN /\ zeroAge' = {}
          /\ UNCHANGED <<permit, moved, writing, conn, running>>
      BY DEF BeginCycle, gateVars
    <2> QED BY <2>1, <2>2, IdleTimeoutAssumption DEF IInv, Typed, BeginCycle
  <1>2. Exclusion'
    BY DEF IInv, Exclusion, BeginCycle, gateVars
  <1>3. Cycles'
    BY DEF IInv, Typed, Cycles, BeginCycle
  <1>4. CountMatchesSessions'
    <2>1. activity'.cycle = cycle + 1 /\ activity'.active = 0 /\ UNCHANGED conn
      BY DEF BeginCycle
    <2>2. \A c \in Clients : conn[c].cycle # cycle + 1
      BY DEF IInv, Typed, Cycles
    <2>3. Sessions(activity.cycle)' = {}
      BY <2>1, <2>2 DEF Sessions
    <2> QED BY <2>1, <2>3, FS_EmptySet, Counting
  <1>5. Anchors'
    BY DEF Anchors, BeginCycle
  <1>6. Queued'
    <2>1. Waiters' = Waiters /\ UNCHANGED queue
      BY DEF BeginCycle, gateVars, Waiters
    <2> QED BY <2>1, QueueStays DEF IInv
  <1> QED BY <1>1, <1>2, <1>3, <1>4, <1>5, <1>6 DEF IInv

\* What is published is the latest cycle.
LEMMA PublishRunningKeeps == ASSUME IInv, PublishRunning PROVE IInv'
  <1>1. Typed'
    BY DEF IInv, Typed, PublishRunning, rconVars, gateVars
  <1>2. Exclusion'
    BY DEF IInv, Exclusion, PublishRunning, gateVars
  <1>3. Cycles'
    BY DEF IInv, Typed, Cycles, PublishRunning
  <1>4. CountMatchesSessions'
    BY DEF IInv, CountMatchesSessions, PublishRunning
  <1>5. Anchors'
    BY DEF IInv, Anchors, PublishRunning, rconVars
  <1>6. Queued'
    <2>1. Waiters' = Waiters /\ UNCHANGED queue
      BY DEF PublishRunning, gateVars, Waiters
    <2> QED BY <2>1, QueueStays DEF IInv
  <1> QED BY <1>1, <1>2, <1>3, <1>4, <1>5, <1>6 DEF IInv

\* A lost cycle takes the monitor out of the gate.
LEMMA LoseCycleKeeps == ASSUME IInv, LoseCycle PROVE IInv'
  <1>1. Typed'
    BY DEF IInv, Typed, LoseCycle, ReleaseExclusive, rconVars
  <1>2. Exclusion'
    BY DEF IInv, Exclusion, LoseCycle, ReleaseExclusive
  <1>3. Cycles'
    BY DEF IInv, Typed, Cycles, LoseCycle
  <1>4. CountMatchesSessions'
    BY DEF IInv, CountMatchesSessions, LoseCycle
  <1>5. Anchors'
    BY DEF IInv, Anchors, LoseCycle, rconVars
  <1>6. Queued'
    <2>1. \/ Waiters' = Waiters /\ UNCHANGED queue
          \/ Waiters' = Waiters \ {Supervisor} /\ queue' = Without(queue, Supervisor)
      BY ClientNamesAssumption
      DEF LoseCycle, ReleaseExclusive, Waiters, Supervisor
    <2> QED BY <2>1, QueueMoves, QueueStays DEF IInv
  <1> QED BY <1>1, <1>2, <1>3, <1>4, <1>5, <1>6 DEF IInv

\* The gate was given back at the commit.
LEMMA FinishIdleStopKeeps == ASSUME IInv, FinishIdleStop PROVE IInv'
  <1>1. Typed'
    BY DEF IInv, Typed, FinishIdleStop, rconVars, gateVars
  <1>2. Exclusion'
    BY DEF IInv, Exclusion, FinishIdleStop, gateVars
  <1>3. Cycles'
    BY DEF IInv, Cycles, FinishIdleStop
  <1>4. CountMatchesSessions'
    BY DEF IInv, CountMatchesSessions, FinishIdleStop
  <1>5. Anchors'
    BY DEF IInv, Anchors, FinishIdleStop, rconVars
  <1>6. Queued'
    <2>1. Waiters' = Waiters /\ UNCHANGED queue
      BY DEF FinishIdleStop, gateVars, Waiters
    <2> QED BY <2>1, QueueStays DEF IInv
  <1> QED BY <1>1, <1>2, <1>3, <1>4, <1>5, <1>6 DEF IInv

\* Anchors and their histories age alike.
LEMMA TickKeeps == ASSUME IInv, Tick PROVE IInv'
  <1>1. Typed'
    BY IdleTimeoutAssumption DEF IInv, Typed, Tick, Older, gateVars
  <1>2. Exclusion'
    BY DEF IInv, Exclusion, Tick, gateVars
  <1>3. Cycles'
    BY DEF IInv, Cycles, Tick
  <1>4. CountMatchesSessions'
    BY DEF IInv, Typed, CountMatchesSessions, Tick
  <1>5. Anchors'
    <2>1. LiveSessions # {} => activity.active # 0 /\ monitor # "final_check"
      BY LiveCounts, NobodyUses DEF IInv, Cycles, LiveSessions, LeaseStages
    <2>2. activity.active = 0 => (sinceUse >= activity.age)'
      BY <2>1 DEF IInv, Typed, Anchors, Tick, Older
    <2>3. \A age \in zeroAge' : sinceDoubt' >= age
      BY DEF IInv, Typed, Anchors, Tick, Older
    <2>4. monitor = "final_check" => sinceUse' >= IdleTimeout
      BY <2>1, IdleTimeoutAssumption DEF IInv, Typed, Anchors, Tick, Older
    <2>5. monitor = "final_check" /\ inspection = "ConfiguredRcon"
             => sinceDoubt' >= IdleTimeout
      BY IdleTimeoutAssumption DEF IInv, Typed, Anchors, Tick, Older
    <2> QED BY <2>2, <2>3, <2>4, <2>5 DEF IInv, Typed, Anchors, Tick
  <1>6. Queued'
    <2>1. Waiters' = Waiters /\ UNCHANGED queue
      BY DEF Tick, gateVars, Waiters
    <2> QED BY <2>1, QueueStays DEF IInv
  <1> QED BY <1>1, <1>2, <1>3, <1>4, <1>5, <1>6 DEF IInv

\* At first nobody uses anything.
LEMMA Initially == Init => IInv
  <1> SUFFICES ASSUME Init PROVE IInv
    OBVIOUS
  <1>1. Typed
    <2>1. /\ activity \in [cycle : Nat, active : Nat, age : 0..IdleTimeout]
          /\ conn \in [Clients -> [at : Stages, cycle : Nat,
                                  intent : {"Login", "Status"}]]
      BY IdleTimeoutAssumption DEF Init, Idle, Stages
    <2> QED BY <2>1, IdleTimeoutAssumption DEF Init, Typed
  <1>2. Exclusion /\ Cycles /\ Anchors
    BY DEF Init, Exclusion, Cycles, Anchors, Idle, LeaseStages
  <1>3. Queued
    BY DEF Init, Queued, Waiting, Waiters, Distinct, Idle
  <1>4. Sessions(activity.cycle) = {} /\ activity.active = 0
    BY DEF Init, Sessions, Idle
  <1> QED BY <1>1, <1>2, <1>3, <1>4, FS_EmptySet, Counting DEF IInv

\* A stutter changes nothing.
LEMMA StutterKeeps == ASSUME IInv, UNCHANGED vars PROVE IInv'
  <1> USE DEF IInv, vars, rconVars, gateVars
  <1>1. Typed' /\ Cycles'
    BY DEF Typed, Cycles
  <1>2. Exclusion' /\ Anchors'
    BY DEF Exclusion, Anchors
  <1>3. Queued'
    BY QueueStays DEF Waiters
  <1>4. CountMatchesSessions'
    BY DEF CountMatchesSessions
  <1> QED BY <1>1, <1>2, <1>3, <1>4

-----------------------------------------------------------------------------
\* The invariant holds in every reachable state.
THEOREM BackendUseInvariance == Spec => []IInv
  <1>1. ASSUME IInv, Next PROVE IInv'
    <2>1. ASSUME NEW c \in Clients,
                 Sample(c) \/ Handler(c) \/ DropSession(c) \/ CloseConnection(c)
          PROVE  IInv'
      BY <1>1, <2>1, GrantSharedKeeps, SampleKeeps, EnsureKeeps,
          EstablishSessionKeeps, ProxyStatusKeeps, DropSessionKeeps,
          ReleaseLeaseKeeps, CloseConnectionKeeps
      DEF Handler, BeginConnect, BeginReplay, EndReplay
    <2>2. CASE Monitor
      BY <1>1, <2>2, GrantExclusiveKeeps, ConsumePermitKeeps,
          RecheckWhileWaitingKeeps, CommitProxyOnlyKeeps, BeginFinalCheckKeeps,
          RecheckFailsKeeps, CommitAfterFinalCheckKeeps, FinalCheckVetoesKeeps,
          AttemptIdleStopKeeps
      DEF Monitor
    <2> QED
      BY <1>1, <2>1, <2>2, PollPlayersKeeps, BeginCycleKeeps,
          PublishRunningKeeps, LoseCycleKeeps, FinishIdleStopKeeps, TickKeeps,
          StutterKeeps
      DEF Next, Rest
  <1>2. IInv /\ [Next]_vars => IInv'
    BY <1>1, StutterKeeps
  <1> QED BY Initially, <1>2, PTL DEF Spec

\* Every variable has its type, the gate's queue among them.
THEOREM TypeCorrect == Spec => []TypeOK
  <1>1. IInv => TypeOK
    BY DEF IInv, Typed, Exclusion, Queued, TypeOK
  <1> QED BY BackendUseInvariance, <1>1, PTL

\* The gate's shared and exclusive guards and its queue always agree with what
\* the handlers and the monitor are doing.
THEOREM GateIsConsistent == Spec => []GateConsistent
  <1>1. IInv => GateConsistent
    BY DEF IInv, Exclusion, Queued, Waiters, Distinct, GateConsistent
  <1> QED BY BackendUseInvariance, <1>1, PTL

\* The activity tracker counts exactly the login sessions of its cycle, for any
\* number of handlers and cycles.
THEOREM CountIsExact == Spec => []CountMatchesSessions
  <1>1. IInv => CountMatchesSessions
    BY DEF IInv
  <1> QED BY BackendUseInvariance, <1>1, PTL

\* The two steps that commit an idle stop, of all steps.
LEMMA IdleStopIsCommit ==
    ASSUME Next, IdleStopStep PROVE CommitProxyOnly \/ CommitAfterFinalCheck
  <1>1. ASSUME NEW c \in Clients
        PROVE  ~(Sample(c) \/ Handler(c) \/ DropSession(c) \/ CloseConnection(c))
    BY DEF IdleStopStep, Handler, Sample, GrantShared, BeginConnect,
        BeginReplay, EndReplay, EnsureThen, EstablishSession, ProxyStatus,
        ReleaseLease, Leave, DropSession, CloseConnection
  <1>2. ~(PollPlayers \/ BeginCycle \/ PublishRunning \/ LoseCycle
          \/ FinishIdleStop \/ Tick \/ Rest)
    BY DEF IdleStopStep, PollPlayers, BeginCycle, PublishRunning, LoseCycle,
        FinishIdleStop, Tick, Rest, vars
  <1>3. ~(GrantExclusive \/ ConsumePermit \/ RecheckWhileWaiting
          \/ AttemptIdleStop)
    BY DEF IdleStopStep, GrantExclusive, ConsumePermit, RecheckWhileWaiting,
        AttemptIdleStop
  <1>4. ~(BeginFinalCheck \/ RecheckFails \/ FinalCheckVetoes)
    BY DEF IdleStopStep, BeginFinalCheck, RecheckFails, FinalCheckVetoes, Veto
  <1> QED BY <1>1, <1>2, <1>3, <1>4 DEF Next, Monitor

\* begin_idle_stop never commits a stop while a handler is between its cycle
\* check and the end of its use of the backend.
THEOREM NobodyIsStoppedUnder == Spec => NoStopUnderUse
  <1> DEFINE A == IdleStopStep => \A c \in Clients :
                    conn[c].at \notin {"connecting", "replaying", "ensured",
                                       "session"}
  <1>1. ASSUME IInv, Next PROVE A
    <2> SUFFICES ASSUME IdleStopStep, NEW c \in Clients
                 PROVE  conn[c].at \notin {"connecting", "replaying", "ensured",
                                           "session"}
      OBVIOUS
    <2>1. monitor \in {"holding", "final_check"}
      BY <1>1, IdleStopIsCommit DEF CommitProxyOnly, CommitAfterFinalCheck
    <2> QED BY <1>1, <2>1, NobodyUses DEF LeaseStages
  <1>2. IInv /\ [Next]_vars => [A]_vars
    BY <1>1
  <1> QED BY BackendUseInvariance, <1>2, PTL DEF Spec, NoStopUnderUse

\* An idle stop is committed only after a whole idle timeout without a login
\* session and, with RCON, without an observation other than zero players.
THEOREM IdleIsLongEnough == Spec => IdleLongEnough
  <1> DEFINE A == IdleStopStep =>
                    /\ sinceUse >= IdleTimeout
                    /\ inspection = "ConfiguredRcon" => sinceDoubt >= IdleTimeout
  <1>1. ASSUME IInv, Next PROVE A
    <2> SUFFICES ASSUME IdleStopStep
                 PROVE  /\ sinceUse >= IdleTimeout
                        /\ inspection = "ConfiguredRcon" => sinceDoubt >= IdleTimeout
      OBVIOUS
    <2>1. CommitProxyOnly \/ CommitAfterFinalCheck
      BY <1>1, IdleStopIsCommit
    <2>2. CASE CommitProxyOnly
      BY <1>1, <2>2, IdleTimeoutAssumption
      DEF IInv, Typed, Anchors, CommitProxyOnly, StillIdle, IdleExpired
    <2>3. CASE CommitAfterFinalCheck
      BY <1>1, <2>3 DEF IInv, Anchors, CommitAfterFinalCheck
    <2> QED BY <2>1, <2>2, <2>3
  <1>2. IInv /\ [Next]_vars => [A]_vars
    BY <1>1
  <1> QED BY BackendUseInvariance, <1>2, PTL DEF Spec, IdleLongEnough
=============================================================================
