--------------------------- MODULE SessionsProofs ---------------------------
(***************************************************************************)
(* Proofs about Sessions: the supplication lock is held exactly while one  *)
(* supplicant is pending, nobody asks for a session while there is one,    *)
(* and a session is discarded only once the proxy has forgotten it, for    *)
(* any number of connections, restarts and failures.                       *)
(***************************************************************************)
EXTENDS Sessions, TLAPS

(***************************************************************************)
(* How far a connection has come: a supplicant exists only while its       *)
(* connection does, is not served before a downstreamer waits for the      *)
(* reply, and is served once.  Nobody connects before the agent is born.   *)
(***************************************************************************)
Stages ==
    /\ agent = "unborn" => ~lock /\ session = NoSession
    /\ agent \in {"connecting", "waiting"} <=> supplicant[Agent] = "pending"
    /\ \A c \in Conn :
         /\ up[c] = "none" /\ down[c] = "none" =>
               supplicant[c] = "none" /\ request[c] = NoMessage /\ reply[c] = NoMessage
         /\ up[c] \in {"deferred", "connecting"} =>
               /\ down[c] = "none" /\ supplicant[c] # "done"
               /\ request[c] = NoMessage /\ reply[c] = NoMessage
         /\ down[c] = "auth" => supplicant[c] # "done"

(***************************************************************************)
(* What the messages on their way say: a request names the session of its  *)
(* connection, and a reply that does not confirm a session is about one    *)
(* that the proxy does not know.                                           *)
(***************************************************************************)
Letters ==
    \A c \in Conn :
        /\ request[c] # NoMessage => request[c].id = mine[c]
        /\ (reply[c] # NoMessage /\ mine[c] # NoSession /\ reply[c].signal # "ok")
              => mine[c] \notin known

Inv == TypeOK /\ LockDiscipline /\ AsksOnlyWithout /\ Stages /\ Letters

-----------------------------------------------------------------------------

\* Init establishes the invariant.
LEMMA InitInv == Init => Inv
  <1> SUFFICES ASSUME Init PROVE Inv
    OBVIOUS
  <1> USE SessionsAssumption DEF Init
  <1>1. TypeOK
    <2>1. /\ defer \in BOOLEAN /\ passwordOK \in BOOLEAN /\ lock \in BOOLEAN
          /\ broken \in [Asker -> BOOLEAN]
      OBVIOUS
    <2>2. /\ session \in Spawned
          /\ mine \in [Conn -> Spawned]
      BY DEF Spawned
    <2>3. /\ request \in [Asker -> Request \cup {NoMessage}]
          /\ reply \in [Asker -> Reply \cup {NoMessage}]
      OBVIOUS
    <2>4. /\ agent \in {"unborn", "connecting", "waiting", "gone"}
          /\ up \in [Conn -> {"none", "deferred", "connecting", "streaming", "inert"}]
          /\ down \in [Conn -> {"none", "auth", "op", "stream"}]
          /\ supplicant \in [Asker -> {"none", "pending", "done"}]
      OBVIOUS
    <2>5. /\ known \subseteq 1..spawned /\ spawned \in 0..MaxSession
          /\ restarts \in 0..MaxRestart /\ failures \in 0..MaxFailure
      OBVIOUS
    <2> QED
      BY <2>1, <2>2, <2>3, <2>4, <2>5 DEF TypeOK
  <1>2. LockDiscipline /\ AsksOnlyWithout
    BY DEF LockDiscipline, AsksOnlyWithout, Asker
  <1>3. Stages /\ Letters
    BY DEF Stages, Letters, Asker
  <1> QED
    BY <1>1, <1>2, <1>3 DEF Inv

\* Start keeps it.
LEMMA StartInv == Inv /\ Start => Inv'
  <1> SUFFICES ASSUME Inv, Start PROVE Inv'
    OBVIOUS
  <1> USE SessionsAssumption DEF Start, network, proxy
  <1>1. TypeOK'
    <2>1. supplicant' \in [Asker -> {"none", "pending", "done"}]
      BY DEF Inv, TypeOK, Asker
    <2>2. lock' \in BOOLEAN
      BY DEF Inv, TypeOK
    <2> QED
      BY <2>1, <2>2 DEF Inv, TypeOK, Spawned, Request, Reply
  <1>2. LockDiscipline' /\ AsksOnlyWithout'
    BY DEF Inv, TypeOK, Stages, LockDiscipline, AsksOnlyWithout, Asker
  <1>3. Stages' /\ Letters'
    BY DEF Inv, TypeOK, Stages, Letters, Asker
  <1> QED
    BY <1>1, <1>2, <1>3 DEF Inv

\* AgentSends keeps it.
LEMMA AgentSendsInv == Inv /\ AgentSends => Inv'
  <1> SUFFICES ASSUME Inv, AgentSends PROVE Inv'
    OBVIOUS
  <1> USE SessionsAssumption DEF AgentSends, proxy
  <1>1. TypeOK'
    BY DEF Inv, TypeOK, Spawned, Asker, Request, Reply
  <1>2. LockDiscipline' /\ AsksOnlyWithout'
    BY DEF Inv, LockDiscipline, AsksOnlyWithout
  <1>3. Stages' /\ Letters'
    BY DEF Inv, TypeOK, Stages, Letters, Asker
  <1> QED
    BY <1>1, <1>2, <1>3 DEF Inv

\* AgentReceives keeps it.
LEMMA AgentReceivesInv == Inv /\ AgentReceives => Inv'
  <1> SUFFICES ASSUME Inv, AgentReceives PROVE Inv'
    OBVIOUS
  <1> USE SessionsAssumption DEF AgentReceives, Forget, proxy
  <1>1. TypeOK'
    BY DEF Inv, TypeOK, Spawned, Asker, Request, Reply
  <1>2. LockDiscipline' /\ AsksOnlyWithout'
    BY DEF Inv, TypeOK, Stages, LockDiscipline, AsksOnlyWithout, Asker
  <1>3. Stages' /\ Letters'
    BY DEF Inv, TypeOK, Stages, Letters, Asker
  <1> QED
    BY <1>1, <1>2, <1>3 DEF Inv

\* AgentDies keeps it, whatever it was that killed the agent.
LEMMA AgentDiesInv ==
    ASSUME Inv, AgentDies, failures' \in 0..MaxFailure
    PROVE  Inv'
  <1> USE SessionsAssumption DEF AgentDies, DropSupplicant, Forget, proxy
  <1>1. TypeOK'
    BY DEF Inv, TypeOK, Spawned, Asker, Request, Reply
  <1>2. LockDiscipline' /\ AsksOnlyWithout'
    BY DEF Inv, TypeOK, Stages, LockDiscipline, AsksOnlyWithout, Asker
  <1>3. Stages' /\ Letters'
    BY DEF Inv, TypeOK, Stages, Letters, Asker
  <1> QED
    BY <1>1, <1>2, <1>3 DEF Inv

-----------------------------------------------------------------------------
(* Connections. *)

\* A new connection keeps it: the lock is taken only if nobody holds it.
LEMMA NewConnectionInv ==
    ASSUME Inv, NEW c \in Conn, NewConnection(c)
    PROVE  Inv'
  <1> USE SessionsAssumption DEF NewConnection, network, proxy
  <1>1. TypeOK'
    BY DEF Inv, TypeOK, Spawned, Asker, Request, Reply
  <1>2. LockDiscipline' /\ AsksOnlyWithout'
    BY DEF Inv, TypeOK, Stages, LockDiscipline, AsksOnlyWithout, Asker
  <1>3. Stages' /\ Letters'
    BY DEF Inv, TypeOK, Stages, Letters, Asker
  <1> QED
    BY <1>1, <1>2, <1>3 DEF Inv

\* A deferred connection that starts keeps it.
LEMMA ReadableInv ==
    ASSUME Inv, NEW c \in Conn, Readable(c)
    PROVE  Inv'
  <1> USE SessionsAssumption DEF Readable, network, proxy
  <1>1. TypeOK'
    BY DEF Inv, TypeOK, Spawned, Asker, Request, Reply
  <1>2. LockDiscipline' /\ AsksOnlyWithout'
    BY DEF Inv, TypeOK, Stages, LockDiscipline, AsksOnlyWithout, Asker
  <1>3. Stages' /\ Letters'
    BY DEF Inv, TypeOK, Stages, Letters, Asker
  <1> QED
    BY <1>1, <1>2, <1>3 DEF Inv

\* A request that is sent keeps it.
LEMMA SendRequestInv ==
    ASSUME Inv, NEW c \in Conn, SendRequest(c)
    PROVE  Inv'
  <1> USE SessionsAssumption DEF SendRequest, proxy
  <1>1. TypeOK'
    BY DEF Inv, TypeOK, Spawned, Asker, Request, Reply
  <1>2. LockDiscipline' /\ AsksOnlyWithout'
    BY DEF Inv, TypeOK, Stages, LockDiscipline, AsksOnlyWithout, Asker
  <1>3. Stages' /\ Letters'
    BY DEF Inv, TypeOK, Stages, Letters, Asker
  <1> QED
    BY <1>1, <1>2, <1>3 DEF Inv

(***************************************************************************)
(* Become keeps it when it is used to end reactors or to take a            *)
(* downstreamer further, and the session is left alone or discarded.       *)
(***************************************************************************)
LEMMA BecomeInv ==
    ASSUME Inv,
           NEW c \in Conn,
           NEW u \in {"none", "deferred", "connecting", "streaming", "inert"},
           NEW d \in {"none", "auth", "op", "stream"},
           Become(c, u, d),
           u = up[c] \/ u = "inert",
           d = down[c] \/ d = "none" \/ (down[c] # "none" /\ d # "auth"),
           session' = session \/ session' = NoSession,
           failures' \in 0..MaxFailure,
           UNCHANGED <<defer, passwordOK, agent, mine, proxy>>
    PROVE  Inv'
  <1> USE SessionsAssumption DEF Become, DropSupplicant, Forget, proxy
  <1>1. TypeOK'
    <2>1. lock' \in BOOLEAN /\ session' \in Spawned
      BY DEF Inv, TypeOK, Spawned
    <2>2. supplicant' \in [Asker -> {"none", "pending", "done"}]
      BY DEF Inv, TypeOK, Asker
    <2>3. /\ request' \in [Asker -> Request \cup {NoMessage}]
          /\ reply' \in [Asker -> Reply \cup {NoMessage}]
          /\ broken' \in [Asker -> BOOLEAN]
      BY DEF Inv, TypeOK, Asker
    <2>4. /\ up' \in [Conn -> {"none", "deferred", "connecting", "streaming", "inert"}]
          /\ down' \in [Conn -> {"none", "auth", "op", "stream"}]
      BY DEF Inv, TypeOK
    <2> QED
      BY <2>1, <2>2, <2>3, <2>4 DEF Inv, TypeOK, Spawned, Request, Reply
  <1> DEFINE left == IF u = "inert" /\ d \notin {"auth", "op"} THEN "none" ELSE u
  <1>2. /\ up' = [up EXCEPT ![c] = left]
        /\ down' = [down EXCEPT ![c] = d]
    OBVIOUS
  <1>3. CASE left = "none" /\ d = "none"
    <2>1. /\ DropSupplicant(c)
          /\ Forget(c)
      BY <1>3
    <2> HIDE DEF Become, left
    <2>2. LockDiscipline'
      BY <2>1 DEF Inv, TypeOK, LockDiscipline, Asker
    <2>3. AsksOnlyWithout'
      BY <2>1 DEF Inv, TypeOK, AsksOnlyWithout, Asker
    <2>4. Stages'
      BY <1>2, <1>3, <2>1 DEF Inv, TypeOK, Stages, Asker
    <2>5. Letters'
      BY <2>1 DEF Inv, TypeOK, Letters, Asker
    <2> QED
      BY <1>1, <2>2, <2>3, <2>4, <2>5 DEF Inv
  <1>4. CASE ~(left = "none" /\ d = "none")
    <2>1. UNCHANGED <<lock, supplicant, request, reply, broken>>
      BY <1>4
    <2>2. LockDiscipline' /\ AsksOnlyWithout' /\ Letters'
      BY <2>1 DEF Inv, LockDiscipline, AsksOnlyWithout, Letters
    <2>3. Stages'
      BY <1>2, <1>4, <2>1 DEF Inv, TypeOK, Stages
    <2> QED
      BY <1>1, <2>2, <2>3 DEF Inv
  <1> QED
    BY <1>3, <1>4

\* The authentication reply keeps it.
LEMMA DownReceivesInv ==
    ASSUME Inv, NEW c \in Conn, DownReceives(c)
    PROVE  Inv'
  <1> USE SessionsAssumption
  <1>0. /\ up[c] \in {"none", "deferred", "connecting", "streaming", "inert"}
        /\ failures' \in 0..MaxFailure
        /\ UNCHANGED <<defer, passwordOK, agent, mine, proxy>>
        /\ down[c] = "auth"
    BY DEF DownReceives, Inv, TypeOK
  <1>1. ASSUME NEW d \in {"none", "op"}, Become(c, up[c], d),
               session' = IF mine[c] # NoSession /\ reply[c].signal # "ok"
                            THEN Killed(mine[c]) ELSE session
        PROVE  Inv'
    <2>1. session' = session \/ session' = NoSession
      BY <1>1 DEF Killed
    <2> QED
      BY <1>0, <1>1, <2>1, BecomeInv
  <1>2. ASSUME reply[c] # NoMessage, supplicant[c] # "none", Supplicated(c),
               down' = [down EXCEPT ![c] = "op"], UNCHANGED <<up, network>>
        PROVE  Inv'
    <2> USE <1>2 DEF Supplicated, network, proxy
    <2>1. supplicant[c] = "pending" /\ lock /\ agent # "unborn"
      BY <1>0 DEF Inv, TypeOK, Stages, LockDiscipline, Asker
    <2>2. TypeOK'
      BY <1>0 DEF Inv, TypeOK, Spawned, Asker, Request, Reply
    <2>3. LockDiscipline' /\ AsksOnlyWithout'
      BY <1>0, <2>1 DEF Inv, TypeOK, LockDiscipline, AsksOnlyWithout, Asker
    <2>4. Stages' /\ Letters'
      BY <1>0, <2>1 DEF Inv, TypeOK, Stages, Letters, Asker
    <2> QED
      BY <2>2, <2>3, <2>4 DEF Inv
  <1> QED
    BY <1>1, <1>2 DEF DownReceives

\* The operation reply and the ends of a connection keep it.
LEMMA OtherConnInv ==
    ASSUME Inv, NEW c \in Conn,
           \/ OperationReply(c) \/ ClientCloses(c) \/ ServerCloses(c)
           \/ ConnFails(c) \/ ConnSeesReset(c)
    PROVE  Inv'
  <1> USE SessionsAssumption
  <1>0. /\ up[c] \in {"none", "deferred", "connecting", "streaming", "inert"}
        /\ down[c] \in {"none", "auth", "op", "stream"}
        /\ failures \in 0..MaxFailure
    BY DEF Inv, TypeOK
  <1>1. CASE OperationReply(c)
    BY <1>0, <1>1, BecomeInv DEF OperationReply
  <1>2. CASE ClientCloses(c)
    BY <1>0, <1>2, BecomeInv DEF ClientCloses
  <1>3. CASE ServerCloses(c)
    BY <1>0, <1>3, BecomeInv DEF ServerCloses
  <1>4. CASE ConnFails(c)
    <2>1. failures' \in 0..MaxFailure
      BY <1>0, <1>4 DEF ConnFails
    <2> QED
      BY <1>0, <1>4, <2>1, BecomeInv DEF ConnFails, ConnDies
  <1>5. CASE ConnSeesReset(c)
    BY <1>0, <1>5, BecomeInv DEF ConnSeesReset, ConnDies
  <1> QED
    BY <1>1, <1>2, <1>3, <1>4, <1>5

-----------------------------------------------------------------------------
(* The proxy. *)

(***************************************************************************)
(* What a reply may say: it carries no session ID or the new one, and it   *)
(* confirms the session that the request named unless it is unknown.       *)
(***************************************************************************)
LEMMA AuthenticateReplies ==
    ASSUME NEW id, NEW r, passwordOK \in BOOLEAN, r.requested \in BOOLEAN,
           NEW rep \in Authenticate(r, id)
    PROVE  /\ rep \in [code : {"success", "failure"}, id : {id, NoSession},
                       signal : {"ok", "rejected", "absent"}]
           /\ (r.id # NoSession /\ rep.signal # "ok") => r.id \notin known
  <1>1. CASE r.id # NoSession /\ r.id \notin known
    BY <1>1 DEF Authenticate
  <1>2. CASE r.id # NoSession /\ r.id \in known
    BY <1>2 DEF Authenticate
  <1>3. CASE r.id = NoSession /\ ~passwordOK
    BY <1>3 DEF Authenticate
  <1>4. CASE r.id = NoSession /\ passwordOK
    BY <1>4 DEF Authenticate
  <1> QED
    BY <1>1, <1>2, <1>3, <1>4

\* Serving a request keeps it.
LEMMA ServeInv ==
    ASSUME Inv, NEW a \in Asker, Serve(a)
    PROVE  Inv'
  <1> USE SessionsAssumption
  <1>1. request[a] \in Request
    BY DEF Inv, TypeOK, Serve
  <1>2. PICK rep \in Authenticate(request[a], spawned + 1) :
           /\ reply' = [reply EXCEPT ![a] = rep]
           /\ \/ rep.id = NoSession /\ UNCHANGED <<known, spawned>>
              \/ /\ rep.id # NoSession
                 /\ spawned < MaxSession
                 /\ known' = known \cup {rep.id}
                 /\ spawned' = spawned + 1
    BY DEF Serve
  <1>3. /\ rep \in [code : {"success", "failure"}, id : {spawned + 1, NoSession},
                    signal : {"ok", "rejected", "absent"}]
        /\ (request[a].id # NoSession /\ rep.signal # "ok") => request[a].id \notin known
    BY <1>1, AuthenticateReplies DEF Inv, TypeOK, Request
  <1>4. /\ request' = [request EXCEPT ![a] = NoMessage]
        /\ UNCHANGED <<defer, passwordOK, lock, session, agent, up, down, mine,
                       supplicant, broken, restarts, failures>>
        /\ request[a] # NoMessage
    BY DEF Serve, client
  <1>5. /\ spawned' \in 0..MaxSession /\ spawned <= spawned'
        /\ known' \subseteq 1..spawned'
        /\ known' \subseteq known \cup {spawned + 1}
        /\ rep.id \in Spawned'
    <2>1. rep.id \in {spawned + 1, NoSession}
      BY <1>3
    <2>2. spawned \in 0..MaxSession /\ known \subseteq 1..spawned
      BY DEF Inv, TypeOK
    <2>3. CASE rep.id = NoSession
      <3>1. known' = known /\ spawned' = spawned
        BY <1>2, <2>3
      <3> QED
        BY <2>2, <2>3, <3>1 DEF Spawned
    <2>4. CASE rep.id = spawned + 1 /\ rep.id # NoSession
      <3>1. /\ known' = known \cup {spawned + 1}
            /\ spawned' = spawned + 1 /\ spawned < MaxSession
        BY <1>2, <2>4
      <3>2. spawned' \in 0..MaxSession /\ spawned <= spawned' /\ spawned + 1 \in 1..spawned'
        BY <2>2, <3>1
      <3>3. known' \subseteq 1..spawned'
        BY <2>2, <3>1, <3>2
      <3> QED
        BY <2>4, <3>1, <3>2, <3>3 DEF Spawned
    <2> QED
      BY <2>1, <2>3, <2>4
  <1>6. Spawned \subseteq Spawned'
    BY <1>5 DEF Inv, TypeOK, Spawned
  <1>7. TypeOK'
    <2>1. rep \in Reply'
      BY <1>3, <1>5 DEF Reply
    <2>2. Reply \subseteq Reply' /\ Request \subseteq Request'
      BY <1>6 DEF Reply, Request
    <2>3. reply' \in [Asker -> Reply' \cup {NoMessage}]
      BY <1>2, <2>1, <2>2 DEF Inv, TypeOK
    <2>4. request' \in [Asker -> Request' \cup {NoMessage}]
      BY <1>4, <2>2 DEF Inv, TypeOK
    <2>5. session' \in Spawned' /\ mine' \in [Conn -> Spawned']
      BY <1>4, <1>6 DEF Inv, TypeOK
    <2> QED
      BY <1>4, <1>5, <2>3, <2>4, <2>5 DEF Inv, TypeOK, NoMessage
  <1>8. LockDiscipline' /\ AsksOnlyWithout'
    BY <1>4 DEF Inv, LockDiscipline, AsksOnlyWithout
  <1>9. Stages'
    BY <1>2, <1>4 DEF Inv, TypeOK, Stages, Asker
  <1>10. Letters'
    <2> SUFFICES ASSUME NEW c \in Conn
                 PROVE  /\ request'[c] # NoMessage => request'[c].id = mine[c]
                        /\ (/\ reply'[c] # NoMessage /\ mine[c] # NoSession
                            /\ reply'[c].signal # "ok") => mine[c] \notin known'
      BY <1>4 DEF Letters, NoMessage
    <2>1. request'[c] # NoMessage => request'[c].id = mine[c]
      BY <1>4 DEF Inv, TypeOK, Letters, Asker
    <2>2. mine[c] # NoSession => mine[c] \in 1..spawned
      BY DEF Inv, TypeOK, Spawned
    <2>3. ASSUME reply'[c] # NoMessage, mine[c] # NoSession, reply'[c].signal # "ok"
          PROVE  mine[c] \notin known
      <3>1. CASE c = a
        BY <1>2, <1>3, <1>4, <2>3, <3>1 DEF Inv, TypeOK, Letters, Asker
      <3>2. CASE c # a
        BY <1>2, <2>3, <3>2 DEF Inv, TypeOK, Letters, Asker
      <3> QED
        BY <3>1, <3>2
    <2>4. mine[c] \in 1..spawned => mine[c] # spawned + 1
      BY DEF Inv, TypeOK
    <2> QED
      BY <1>5, <2>1, <2>2, <2>3, <2>4
  <1> QED
    BY <1>7, <1>8, <1>9, <1>10 DEF Inv

\* A restart of the proxy keeps it.
LEMMA RestartInv == Inv /\ Restart => Inv'
  <1> SUFFICES ASSUME Inv, Restart PROVE Inv'
    OBVIOUS
  <1> USE SessionsAssumption DEF Restart, client
  <1>1. TypeOK'
    <2>1. broken' \in [Asker -> BOOLEAN]
      BY DEF Inv, TypeOK
    <2>2. restarts' \in 0..MaxRestart /\ known' \subseteq 1..spawned'
      BY DEF Inv, TypeOK
    <2>3. request' \in [Asker -> Request \cup {NoMessage}]
      OBVIOUS
    <2> QED
      BY <2>1, <2>2, <2>3 DEF Inv, TypeOK, Spawned, Request, Reply, NoMessage
  <1>2. LockDiscipline' /\ AsksOnlyWithout'
    BY DEF Inv, LockDiscipline, AsksOnlyWithout
  <1>3. Stages' /\ Letters'
    BY DEF Inv, TypeOK, Stages, Letters, Asker, NoMessage
  <1> QED
    BY <1>1, <1>2, <1>3 DEF Inv

-----------------------------------------------------------------------------

\* Every step keeps the invariant.
LEMMA NextInv == Inv /\ [Next]_vars => Inv'
  <1> SUFFICES ASSUME Inv, [Next]_vars PROVE Inv'
    OBVIOUS
  <1>1. CASE Start \/ AgentSends \/ AgentReceives
    BY <1>1, StartInv, AgentSendsInv, AgentReceivesInv
  <1>2. CASE AgentFails \/ AgentSeesReset
    <2>1. failures' \in 0..MaxFailure
      BY <1>2, SessionsAssumption DEF Inv, TypeOK, AgentFails, AgentSeesReset
    <2> QED
      BY <1>2, <2>1, AgentDiesInv DEF AgentFails, AgentSeesReset
  <1>3. CASE Restart
    BY <1>3, RestartInv
  <1>4. ASSUME NEW a \in Asker, Serve(a) PROVE Inv'
    BY <1>4, ServeInv
  <1>5. ASSUME NEW c \in Conn,
               NewConnection(c) \/ Readable(c) \/ SendRequest(c) \/ DownReceives(c)
        PROVE  Inv'
    BY <1>5, NewConnectionInv, ReadableInv, SendRequestInv, DownReceivesInv
  <1>6. ASSUME NEW c \in Conn,
               \/ OperationReply(c) \/ ClientCloses(c) \/ ServerCloses(c)
               \/ ConnFails(c) \/ ConnSeesReset(c)
        PROVE  Inv'
    BY <1>6, OtherConnInv
  <1>7. CASE UNCHANGED vars
    BY <1>7 DEF vars, client, network, proxy, Inv, TypeOK, LockDiscipline,
                AsksOnlyWithout, Stages, Letters, Spawned, Request, Reply, NoMessage
  <1> QED
    BY <1>1, <1>2, <1>3, <1>4, <1>5, <1>6, <1>7 DEF Next

(***************************************************************************)
(* The inductive invariant holds in every reachable state, for any number  *)
(* of connections, sessions, restarts and failures.                        *)
(***************************************************************************)
THEOREM SessionsInvariant == Spec => []Inv
  BY InitInv, NextInv, PTL DEF Spec

(***************************************************************************)
(* The variables keep their types, and no session ID is ever in use that   *)
(* the proxy did not spawn.                                                *)
(***************************************************************************)
THEOREM SessionsTypeCorrect == Spec => []TypeOK
  <1>1. Inv => TypeOK
    BY DEF Inv
  <1> QED
    BY <1>1, SessionsInvariant, PTL

(***************************************************************************)
(* The supplication lock is held exactly while one supplicant is pending:  *)
(* it is neither given back twice nor lost with a connection.              *)
(***************************************************************************)
THEOREM SessionsLockDiscipline == Spec => []LockDiscipline
  <1>1. Inv => LockDiscipline
    BY DEF Inv
  <1> QED
    BY <1>1, SessionsInvariant, PTL

\* Nobody asks for a session while the proxifier has one.
THEOREM SessionsAskOnlyWithout == Spec => []AsksOnlyWithout
  <1>1. Inv => AsksOnlyWithout
    BY DEF Inv
  <1> QED
    BY <1>1, SessionsInvariant, PTL

(***************************************************************************)
(* A step that changes the session from one that there is discards it, and *)
(* the proxy does not know it any more.                                    *)
(***************************************************************************)
LEMMA DiscardStep ==
    ASSUME Inv, [Next]_vars, session # NoSession, session' # session
    PROVE  session' = NoSession /\ session \notin known
  <1>1. PICK c \in Conn : DownReceives(c)
    <2>1. ~AgentReceives
      BY SessionsAssumption
         DEF AgentReceives, Inv, TypeOK, Stages, LockDiscipline, AsksOnlyWithout, Asker
    <2> QED
      BY <2>1 DEF Next, vars, client, Start, AgentSends, AgentFails, AgentSeesReset,
                  AgentDies, Restart, Serve, NewConnection, Readable, SendRequest,
                  OperationReply, ClientCloses, ServerCloses, ConnFails,
                  ConnSeesReset, ConnDies
  <1>2. down[c] = "auth" /\ reply[c] # NoMessage
    BY <1>1 DEF DownReceives
  <1>3. supplicant[c] = "none"
    BY <1>2 DEF Inv, TypeOK, Stages, LockDiscipline, AsksOnlyWithout, Asker
  <1>4. /\ mine[c] # NoSession /\ reply[c].signal # "ok"
        /\ session' = Killed(mine[c])
    BY <1>1, <1>3 DEF DownReceives
  <1>5. mine[c] \notin known
    BY <1>2, <1>4 DEF Inv, Letters
  <1> QED
    BY <1>4, <1>5 DEF Killed

(***************************************************************************)
(* A session is discarded only once the proxy has forgotten it, and never  *)
(* replaced by another: late rejections touch no newer session.            *)
(***************************************************************************)
THEOREM SessionsDiscardOnlyDead == Spec => DiscardsOnlyDead
  <1>1. Inv /\ [Next]_vars =>
          [session # NoSession /\ session' # session
             => session' = NoSession /\ session \notin known]_vars
    BY DiscardStep
  <1> QED
    BY <1>1, SessionsInvariant, PTL DEF Spec, DiscardsOnlyDead

=============================================================================
