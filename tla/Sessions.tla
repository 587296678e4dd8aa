------------------------------ MODULE Sessions ------------------------------
(***************************************************************************)
(* How a proxifier obtains, shares, loses and regains its SOCKSv6 session  *)
(* (proxifier/proxifier.cc, sessionsupplicant.cc,                          *)
(* sessionsupplicationagent.cc and the session handling of                 *)
(* proxifierupstreamer.cc and proxifierdownstreamer.cc), against a proxy   *)
(* that keeps its sessions in memory (proxy/authutil.cc, proxy.cc) and may *)
(* be restarted.                                                           *)
(*                                                                         *)
(* Many connections are under way at once.  The supplication lock lets one *)
(* of them, the one that holds a SessionSupplicant, ask for a session; the *)
(* lock is given back by the reply or by the supplicant's destructor.      *)
(***************************************************************************)
EXTENDS Naturals, FiniteSets

CONSTANTS
    Conn,         \* client connections, reused when they are over
    Agent,        \* the SessionSupplicationAgent
    NoSession,    \* a null shared_ptr<ClientSession>, an absent session ID
    MaxSession,   \* bound: sessions the proxy spawns; their IDs are 1, 2, ...
    MaxRestart,   \* bound: restarts of the proxy
    MaxFailure    \* bound: connections that break for no other reason

ASSUME SessionsAssumption ==
    /\ Agent \notin Conn
    /\ MaxSession \in Nat /\ MaxRestart \in Nat /\ MaxFailure \in Nat
    /\ NoSession \notin Nat

\* Whoever may hold a supplicant.
Asker == Conn \cup {Agent}

VARIABLES
    defer,        \* Proxifier::defer, the option -D
    passwordOK,   \* the proxy asks for no password, or for the right one
    lock,         \* Proxifier::supplicationLock
    session,      \* Proxifier::session
    agent,        \* the agent: "unborn", "connecting", "waiting", "gone"
    up,           \* ProxifierUpstreamers: "none", "deferred", "connecting",
                  \* "streaming", "inert" (dead, but referenced by "down")
    down,         \* ProxifierDownstreamers: "none", "auth", "op", "stream"
    mine,         \* the session that an upstreamer took when it was made
    supplicant,   \* SessionSupplicants: "none", "pending", "done"
    request,      \* requests on their way to the proxy
    reply,        \* authentication replies on their way back
    broken,       \* connections to the proxy that were reset
    known,        \* Proxy::sessions
    spawned,      \* how many sessions the proxy has spawned in all its lives
    restarts, failures

client  == <<lock, session, agent, up, down, mine, supplicant>>
network == <<request, reply, broken>>
proxy   == <<known, spawned, restarts>>
vars    == <<defer, passwordOK, client, network, proxy, failures>>

NoMessage == [code |-> "none"]

\* The sessions there have been, and "none".
Spawned == 1..spawned \cup {NoSession}

Request == [code : {"connect"}, id : Spawned, requested : BOOLEAN]

Reply == [code : {"success", "failure"}, id : Spawned,
          signal : {"ok", "rejected", "absent"}]

-----------------------------------------------------------------------------

Init == /\ defer \in BOOLEAN
        /\ passwordOK \in BOOLEAN
        /\ lock = FALSE
        /\ session = NoSession
        /\ agent = "unborn"
        /\ up = [c \in Conn |-> "none"]
        /\ down = [c \in Conn |-> "none"]
        /\ mine = [c \in Conn |-> NoSession]
        /\ supplicant = [a \in Asker |-> "none"]
        /\ request = [a \in Asker |-> NoMessage]
        /\ reply = [a \in Asker |-> NoMessage]
        /\ broken = [a \in Asker |-> FALSE]
        /\ known = {}
        /\ spawned = 0
        /\ restarts = 0
        /\ failures = 0

\* A destructor that leaves the lock alone.
DropSupplicantLocked(a) ==
    /\ supplicant' = [supplicant EXCEPT ![a] = "none"]
    /\ UNCHANGED lock

\* A destructor that does not look at "done".
DropSupplicantTwice(a) ==
    /\ supplicant' = [supplicant EXCEPT ![a] = "none"]
    /\ lock' = IF supplicant[a] = "none" THEN lock ELSE FALSE

(***************************************************************************)
(* The supplicant of a loses its last owner; its destructor gives the lock *)
(* back unless process(authRep) has done so already.                       *)
(***************************************************************************)
DropSupplicant(a) ==
    /\ supplicant' = [supplicant EXCEPT ![a] = "none"]
    /\ lock' = IF supplicant[a] = "pending" THEN FALSE ELSE lock

Forget(a) == /\ request' = [request EXCEPT ![a] = NoMessage]
             /\ reply' = [reply EXCEPT ![a] = NoMessage]
             /\ broken' = [broken EXCEPT ![a] = FALSE]

(***************************************************************************)
(* The reactors of connection c become u and d.  An upstreamer that has    *)
(* died lives on while its downstreamer waits for a reply; the supplicant, *)
(* which both share, while either of them lives.                           *)
(***************************************************************************)
Become(c, u, d) ==
    LET left == IF u = "inert" /\ d \notin {"auth", "op"} THEN "none" ELSE u
    IN  /\ up' = [up EXCEPT ![c] = left]
        /\ down' = [down EXCEPT ![c] = d]
        /\ \/ /\ left = "none" /\ d = "none"
              /\ DropSupplicant(c)
              /\ Forget(c)
           \/ /\ ~(left = "none" /\ d = "none")
              /\ UNCHANGED <<lock, supplicant, request, reply, broken>>

-----------------------------------------------------------------------------
(* The supplication agent. *)

(***************************************************************************)
(* Proxifier::start: the lock is taken for the agent's supplicant.  When   *)
(* the agent cannot be made or started, the supplicant gives it back.      *)
(***************************************************************************)
Start ==
    /\ agent = "unborn"
    /\ \/ /\ agent' = "connecting"
          /\ lock' = TRUE
          /\ supplicant' = [supplicant EXCEPT ![Agent] = "pending"]
       \/ /\ agent' = "gone"
          /\ UNCHANGED <<lock, supplicant>>
    /\ UNCHANGED <<defer, passwordOK, session, up, down, mine, network, proxy, failures>>

\* S_SENDING_REQ: a NOOP request that asks for a session.
AgentSends ==
    /\ agent = "connecting"
    /\ ~broken[Agent]
    /\ agent' = "waiting"
    /\ request' = [request EXCEPT ![Agent] =
                     [code |-> "connect", id |-> NoSession, requested |-> TRUE]]
    /\ UNCHANGED <<defer, passwordOK, lock, session, up, down, mine, supplicant,
                   reply, broken, proxy, failures>>

\* SessionSupplicant::process(authRep), with Proxifier::setSession.
Supplicated(a) ==
    /\ session' = IF reply[a].id # NoSession THEN reply[a].id ELSE session
    /\ lock' = FALSE
    /\ supplicant' = [supplicant EXCEPT ![a] = "done"]

\* S_RECEIVING_AUTH_REP: the reply is processed whatever its code; the agent is
\* not registered again and is destroyed.
AgentReceives ==
    /\ agent = "waiting"
    /\ reply[Agent] # NoMessage
    /\ session' = IF reply[Agent].id # NoSession THEN reply[Agent].id ELSE session
    /\ lock' = FALSE
    /\ supplicant' = [supplicant EXCEPT ![Agent] = "none"]
    /\ agent' = "gone"
    /\ Forget(Agent)
    /\ UNCHANGED <<defer, passwordOK, up, down, mine, proxy, failures>>

\* Refused, reset or closed: an exception or a return without registration.
AgentDies ==
    /\ agent' = "gone"
    /\ DropSupplicant(Agent)
    /\ Forget(Agent)
    /\ UNCHANGED <<defer, passwordOK, session, up, down, mine, proxy>>

AgentFails ==
    /\ agent \in {"connecting", "waiting"}
    /\ failures < MaxFailure
    /\ failures' = failures + 1
    /\ AgentDies

AgentSeesReset ==
    /\ agent \in {"connecting", "waiting"}
    /\ broken[Agent]
    /\ reply[Agent] = NoMessage
    /\ AgentDies
    /\ UNCHANGED failures

-----------------------------------------------------------------------------
(* Connections. *)

\* handleNewConnection asking for a session whenever the lock is free.
NewConnectionAlwaysAsks(c) ==
    /\ agent # "unborn"
    /\ up[c] = "none" /\ down[c] = "none"
    /\ mine' = [mine EXCEPT ![c] = session]
    /\ up' = [up EXCEPT ![c] = IF defer THEN "deferred" ELSE "connecting"]
    /\ IF lock THEN UNCHANGED <<lock, supplicant>>
               ELSE /\ lock' = TRUE
                    /\ supplicant' = [supplicant EXCEPT ![c] = "pending"]
    /\ UNCHANGED <<defer, passwordOK, session, agent, down, network, proxy, failures>>

(***************************************************************************)
(* Proxifier::handleNewConnection: try_lock; with no session the           *)
(* connection keeps the lock through its supplicant, otherwise it unlocks. *)
(* The upstreamer takes the session there is.  It starts at once or, with  *)
(* -D, when the client has sent something.                                 *)
(***************************************************************************)
NewConnection(c) ==
    /\ agent # "unborn"
    /\ up[c] = "none" /\ down[c] = "none"
    /\ mine' = [mine EXCEPT ![c] = session]
    /\ up' = [up EXCEPT ![c] = IF defer THEN "deferred" ELSE "connecting"]
    /\ \/ /\ ~lock /\ session = NoSession
          /\ lock' = TRUE
          /\ supplicant' = [supplicant EXCEPT ![c] = "pending"]
       \/ /\ lock \/ session # NoSession
          /\ UNCHANGED <<lock, supplicant>>
    /\ UNCHANGED <<defer, passwordOK, session, agent, down, network, proxy, failures>>

\* ReadableDeferReactor::process: the client has sent something.
Readable(c) ==
    /\ up[c] = "deferred"
    /\ up' = [up EXCEPT ![c] = "connecting"]
    /\ UNCHANGED <<defer, passwordOK, lock, session, agent, down, mine, supplicant,
                   network, proxy, failures>>

(***************************************************************************)
(* The request reaches the proxy: it names the upstreamer's session, or    *)
(* asks for one if the upstreamer has a supplicant; a downstreamer waits   *)
(* for the reply.                                                          *)
(***************************************************************************)
SendRequest(c) ==
    /\ up[c] = "connecting"
    /\ ~broken[c]
    /\ up' = [up EXCEPT ![c] = "streaming"]
    /\ down' = [down EXCEPT ![c] = "auth"]
    /\ request' = [request EXCEPT ![c] =
                     [code |-> "connect", id |-> mine[c],
                      requested |-> supplicant[c] # "none"]]
    /\ UNCHANGED <<defer, passwordOK, lock, session, agent, mine, supplicant,
                   reply, broken, proxy, failures>>

\* A killSession that does not compare.
KilledAny(s) == NoSession

\* killSession: only if the proxifier's session is still the one given.
Killed(s) == IF s = session THEN NoSession ELSE session

(***************************************************************************)
(* S_WAITING_FOR_AUTH_REP.  A connection with a session kills it unless    *)
(* the reply says that it is valid; one without leaves the proxifier's     *)
(* session alone.  After a failure the downstreamer deactivates itself,    *)
(* its supplicant still pending; the upstreamer stays.  After a success    *)
(* the supplicant, if there is one, is served.                             *)
(***************************************************************************)
DownReceives(c) ==
    /\ down[c] = "auth"
    /\ reply[c] # NoMessage
    /\ \/ /\ reply[c].code = "failure"
          /\ session' = IF mine[c] # NoSession /\ reply[c].signal # "ok"
                          THEN Killed(mine[c]) ELSE session
          /\ Become(c, up[c], "none")
       \/ /\ reply[c].code = "success"
          /\ supplicant[c] = "none"
          /\ session' = IF mine[c] # NoSession /\ reply[c].signal # "ok"
                          THEN Killed(mine[c]) ELSE session
          /\ Become(c, up[c], "op")
       \/ /\ reply[c].code = "success"
          /\ supplicant[c] # "none"
          /\ Supplicated(c)
          /\ down' = [down EXCEPT ![c] = "op"]
          /\ UNCHANGED <<up, network>>
    /\ UNCHANGED <<defer, passwordOK, agent, mine, proxy, failures>>

\* S_WAITING_FOR_OP_REP: on success the reference to the upstreamer is dropped.
OperationReply(c) ==
    /\ down[c] = "op"
    /\ \E d \in {"stream", "none"} : Become(c, up[c], d)
    /\ UNCHANGED <<defer, passwordOK, session, agent, mine, proxy, failures>>

\* The client is done: end of stream or a reset on its socket, or its bytes cannot
\* be sent to the proxy.
ClientCloses(c) ==
    /\ up[c] = "streaming"
    /\ Become(c, "inert", down[c])
    /\ UNCHANGED <<defer, passwordOK, session, agent, mine, proxy, failures>>

\* The server is done, and the proxy passes that on.
ServerCloses(c) ==
    /\ down[c] = "stream"
    /\ Become(c, up[c], "none")
    /\ UNCHANGED <<defer, passwordOK, session, agent, mine, proxy, failures>>

\* The connection to the proxy is refused, reset or closed: the reactor that
\* waits on it gets an exception or an end of stream.
ConnDies(c) ==
    /\ \/ /\ up[c] \in {"deferred", "connecting"}
          /\ Become(c, "inert", down[c])
       \/ /\ down[c] # "none"
          /\ Become(c, up[c], "none")
    /\ UNCHANGED <<defer, passwordOK, session, agent, mine, proxy>>

ConnFails(c) ==
    /\ failures < MaxFailure
    /\ failures' = failures + 1
    /\ ConnDies(c)

ConnSeesReset(c) ==
    /\ broken[c]
    /\ reply[c] = NoMessage \/ down[c] # "auth"
    /\ up[c] # "deferred"
    /\ ConnDies(c)
    /\ UNCHANGED failures

-----------------------------------------------------------------------------
(* The proxy. *)

(***************************************************************************)
(* AuthUtil::authenticate: the replies that request r may get when id      *)
(* would be the next session spawned.  A session that is named must be     *)
(* known, and replaces the password; a token that comes with it may be     *)
(* refused by the bank, which says nothing against the session.            *)
(***************************************************************************)
Authenticate(r, id) ==
    CASE r.id # NoSession /\ r.id \notin known ->
            {[code |-> "failure", id |-> NoSession, signal |-> "rejected"]}
      [] r.id # NoSession /\ r.id \in known ->
            [code : {"success", "failure"}, id : {NoSession}, signal : {"ok"}]
      [] r.id = NoSession /\ ~passwordOK ->
            {[code |-> "failure", id |-> NoSession, signal |-> "absent"]}
      [] r.id = NoSession /\ passwordOK ->
            {[code |-> "success", id |-> IF r.requested THEN id ELSE NoSession,
              signal |-> "absent"]}

\* A session ID that is sent but not kept.
ServeUnrecorded(a) ==
    /\ request[a] # NoMessage
    /\ ~broken[a]
    /\ \E rep \in Authenticate(request[a], spawned + 1) :
           reply' = [reply EXCEPT ![a] = rep]
    /\ request' = [request EXCEPT ![a] = NoMessage]
    /\ UNCHANGED <<defer, passwordOK, client, broken, proxy, failures>>

\* AuthServer: the request is authenticated, the reply sent; a new session is
\* entered in Proxy::sessions by spawnSession.
Serve(a) ==
    /\ request[a] # NoMessage
    /\ ~broken[a]
    /\ \E rep \in Authenticate(request[a], spawned + 1) :
           /\ reply' = [reply EXCEPT ![a] = rep]
           /\ \/ /\ rep.id = NoSession
                 /\ UNCHANGED <<known, spawned>>
              \/ /\ rep.id # NoSession
                 /\ spawned < MaxSession
                 /\ known' = known \cup {rep.id}
                 /\ spawned' = spawned + 1
    /\ request' = [request EXCEPT ![a] = NoMessage]
    /\ UNCHANGED <<defer, passwordOK, client, broken, restarts, failures>>

\* The proxy is restarted: its sessions and its connections are gone; replies
\* that left may still arrive.
Restart ==
    /\ restarts < MaxRestart
    /\ restarts' = restarts + 1
    /\ known' = {}
    /\ request' = [a \in Asker |-> NoMessage]
    /\ broken' = [a \in Asker |->
                    IF a = Agent THEN agent = "waiting" ELSE down[a] # "none"]
    /\ UNCHANGED <<defer, passwordOK, client, reply, spawned, failures>>

-----------------------------------------------------------------------------

Next ==
    \/ Start
    \/ AgentSends
    \/ AgentReceives
    \/ AgentFails
    \/ AgentSeesReset
    \/ Restart
    \/ \E a \in Asker : Serve(a)
    \/ \E c \in Conn : \/ NewConnection(c)
                       \/ Readable(c)
                       \/ SendRequest(c)
                       \/ DownReceives(c)
                       \/ OperationReply(c)
                       \/ ClientCloses(c)
                       \/ ServerCloses(c)
                       \/ ConnFails(c)
                       \/ ConnSeesReset(c)

(***************************************************************************)
(* The poller serves what is ready; the network delivers; clients keep     *)
(* connecting, and close in the end.  Nothing makes a client of a deferred *)
(* connection send, the proxy restart, or a connection fail.               *)
(***************************************************************************)
Fairness ==
    /\ WF_vars(Start) /\ WF_vars(AgentSends)
    /\ WF_vars(AgentReceives) /\ WF_vars(AgentSeesReset)
    /\ \A a \in Asker : WF_vars(Serve(a))
    /\ \A c \in Conn : /\ WF_vars(NewConnection(c))
                       /\ WF_vars(SendRequest(c))
                       /\ WF_vars(DownReceives(c))
                       /\ WF_vars(OperationReply(c))
                       /\ WF_vars(ClientCloses(c))
                       /\ WF_vars(ServerCloses(c))
                       /\ WF_vars(ConnSeesReset(c))

Spec == Init /\ [][Next]_vars /\ Fairness

-----------------------------------------------------------------------------

\* The types of the variables; every session ID in use is one that was spawned.
TypeOK ==
    /\ defer \in BOOLEAN /\ passwordOK \in BOOLEAN /\ lock \in BOOLEAN
    /\ session \in Spawned
    /\ agent \in {"unborn", "connecting", "waiting", "gone"}
    /\ up \in [Conn -> {"none", "deferred", "connecting", "streaming", "inert"}]
    /\ down \in [Conn -> {"none", "auth", "op", "stream"}]
    /\ mine \in [Conn -> Spawned]
    /\ supplicant \in [Asker -> {"none", "pending", "done"}]
    /\ request \in [Asker -> Request \cup {NoMessage}]
    /\ reply \in [Asker -> Reply \cup {NoMessage}]
    /\ broken \in [Asker -> BOOLEAN]
    /\ known \subseteq 1..spawned
    /\ spawned \in 0..MaxSession
    /\ restarts \in 0..MaxRestart
    /\ failures \in 0..MaxFailure

(***************************************************************************)
(* proxifier.hh:68-71 and sessionsupplicant.cc:6-26: the supplication lock *)
(* is held exactly while one supplicant is pending.  It is never given     *)
(* back twice (which would undo somebody else's lock) and never lost with  *)
(* a connection that dies.                                                 *)
(***************************************************************************)
LockDiscipline ==
    /\ lock <=> \E a \in Asker : supplicant[a] = "pending"
    /\ \A a, b \in Asker :
          supplicant[a] = "pending" /\ supplicant[b] = "pending" => a = b

(***************************************************************************)
(* proxifier.cc:69-75: nobody asks for a session while there is one; a     *)
(* request never both names a session and asks for one.                    *)
(***************************************************************************)
AsksOnlyWithout ==
    /\ lock => session = NoSession
    /\ \A c \in Conn : supplicant[c] # "none" => mine[c] = NoSession

(***************************************************************************)
(* proxifier.hh:53-66: a session is replaced only after it has been        *)
(* discarded, and is discarded only once the proxy has forgotten it: a     *)
(* late rejection of an older session does not touch a newer one.          *)
(***************************************************************************)
DiscardsOnlyDead ==
    [][session # NoSession /\ session' # session
         => session' = NoSession /\ session \notin known]_vars

(***************************************************************************)
(* proxifier.cc:64-90: as long as clients connect, the proxifier ends up   *)
(* with a session that the proxy knows, however the proxy's restarts and   *)
(* the failures of connections fall.  With -D there are two ways to fail,  *)
(* and no third: a client that never sends anything sits on the lock, or   *)
(* no client sends anything, so nobody learns that the session is dead.    *)
(***************************************************************************)
SessionRegained ==
    passwordOK => \/ <>[](session \in known)
                  \/ <>[](\E c \in Conn : up[c] = "deferred" /\ supplicant[c] = "pending")
                  \/ <>[](\A c \in Conn : up[c] = "deferred")

=============================================================================
