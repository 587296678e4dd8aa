------------------------------- MODULE Tokens -------------------------------
(***************************************************************************)
(* Idempotence tokens.  TCP fast open and TLS early data may deliver a     *)
(* request twice, so the proxifier puts a token of its session's wallet    *)
(* into it (proxifierupstreamer.cc:63-72, clientsession.hh), and the proxy *)
(* withdraws the token from its session's bank (authutil.cc:67-96,         *)
(* serversession.hh) before it does anything for the request.              *)
(*                                                                         *)
(* Wallet and bank are classes of libsocks6util, modelled by what the code *)
(* here relies on: a wallet hands out the tokens of its window one by one  *)
(* and follows the bank's window forwards; a bank accepts a token of its   *)
(* window once, and may move its window forwards when it does.  Tokens are *)
(* 32-bit numbers that wrap around, here modulo TokenMod.                  *)
(*                                                                         *)
(* How sessions are asked for and lost is in module Sessions; here a       *)
(* request is the life of one connection of the proxifier.                 *)
(***************************************************************************)
EXTENDS Naturals, FiniteSets

CONSTANTS
    Conn,         \* connections of the proxifier
    MaxSession,   \* bound: sessions the proxy spawns, with the IDs 1, 2, ...
    MaxRestart,   \* bound: restarts of the proxy
    TokenMod,     \* how many tokens there are
    WindowSize,   \* the size of window that a supplicant asks for
    Starts        \* where rand() may put the start of a window

ASSUME TokensAssumption ==
    /\ MaxSession \in Nat /\ MaxRestart \in Nat
    /\ TokenMod \in Nat /\ WindowSize \in 1..(TokenMod \div 2)
    /\ Starts \subseteq 0..(TokenMod - 1)

Token   == 0..(TokenMod - 1)
NoToken == TokenMod
Session == 1..MaxSession
NoSession == 0

VARIABLES
    session,      \* Proxifier::session
    lock,         \* Proxifier::supplicationLock
    wallet,       \* ClientSession::wallet, by session: base and next token
    phase,        \* a connection: "none", "made" (constructed), "sent", "over"
    mine,         \* ProxifierUpstreamer::session
    asks,         \* whether it was made with a supplicant, so that its request asks
                  \* for a session; the supplicant is pending until it is "over"
    token,        \* the token in its request
    copies,       \* copies of its request that may still reach the proxy
    reply,        \* authentication replies on the way
    known,        \* Proxy::sessions
    bank,         \* ServerSession::tokenBank, by session: base and spent tokens
    spawned, restarts,
    honored,      \* how often the proxy has acted on a request
    handed        \* the tokens each wallet has handed out

proxifier  == <<session, lock, wallet, handed>>
connection == <<phase, mine, asks, token>>
proxy      == <<known, bank, spawned, restarts, honored>>
vars       == <<proxifier, connection, copies, reply, proxy>>

NoReply == [code |-> "none"]
None    == [base |-> NoToken]

\* How far t is ahead of b, in arithmetic modulo TokenMod.
Ahead(t, b) == (t + TokenMod - b) % TokenMod

-----------------------------------------------------------------------------

Init ==
    /\ session = NoSession /\ lock = FALSE
    /\ wallet = [s \in Session |-> None]
    /\ phase = [c \in Conn |-> "none"]
    /\ mine = [c \in Conn |-> NoSession]
    /\ asks = [c \in Conn |-> FALSE]
    /\ token = [c \in Conn |-> NoToken]
    /\ copies = [c \in Conn |-> 0]
    /\ reply = [c \in Conn |-> NoReply]
    /\ known = {} /\ bank = [s \in Session |-> None]
    /\ spawned = 0 /\ restarts = 0
    /\ honored = [c \in Conn |-> 0]
    /\ handed = [s \in Session |-> {}]

\* Proxifier::handleNewConnection: the upstreamer keeps the session of now; it
\* gets the supplicant if there is no session and nobody else is asking.
Make(c) ==
    /\ phase[c] = "none"
    /\ phase' = [phase EXCEPT ![c] = "made"]
    /\ mine' = [mine EXCEPT ![c] = session]
    /\ asks' = [asks EXCEPT ![c] = ~lock /\ session = NoSession]
    /\ lock' = (lock \/ session = NoSession)
    /\ UNCHANGED <<session, wallet, handed, token, copies, reply, proxy>>

\* ClientSession::getToken: the next token of s's window, if there is one left,
\* goes into the request of c.
Extract(s, c) ==
    /\ s # NoSession /\ wallet[s] # None
    /\ Ahead(wallet[s].next, wallet[s].base) < WindowSize
    /\ token' = [token EXCEPT ![c] = wallet[s].next]
    /\ handed' = [handed EXCEPT ![s] = @ \cup {wallet[s].next}]
    /\ wallet' = [wallet EXCEPT ![s].next = (@ + 1) % TokenMod]

\* The token of the proxifier's session of now, under the ID of then.
SendMixed(c) ==
    /\ phase[c] = "made"
    /\ phase' = [phase EXCEPT ![c] = "sent"]
    /\ \/ Extract(session, c) /\ copies' = [copies EXCEPT ![c] = 1]
       \/ UNCHANGED <<token, wallet, handed>> /\ copies' = [copies EXCEPT ![c] = 1]
    /\ UNCHANGED <<session, lock, mine, asks, reply, proxy>>

\* ProxifierUpstreamer::start: only a request with a token is sent in a way that
\* may deliver it twice.
Send(c) ==
    /\ phase[c] = "made"
    /\ phase' = [phase EXCEPT ![c] = "sent"]
    /\ \/ /\ Extract(mine[c], c)
          /\ \E n \in 1..2 : copies' = [copies EXCEPT ![c] = n]
       \/ UNCHANGED <<token, wallet, handed>> /\ copies' = [copies EXCEPT ![c] = 1]
    /\ UNCHANGED <<session, lock, mine, asks, reply, proxy>>

\* A copy never arrives.
Lose(c) ==
    /\ copies[c] > 0
    /\ copies' = [copies EXCEPT ![c] = @ - 1]
    /\ UNCHANGED <<proxifier, connection, reply, proxy>>

-----------------------------------------------------------------------------
(* The proxy *)

\* The answer to one copy of c's request; the proxifier reads one of them.
Respond(c, r) ==
    /\ copies' = [copies EXCEPT ![c] = @ - 1]
    /\ \/ phase[c] = "sent" /\ reply' = [reply EXCEPT ![c] = r]
       \/ /\ reply[c] # NoReply \/ phase[c] # "sent" \/ copies[c] > 1
          /\ UNCHANGED reply

Honor(c) == honored' = [honored EXCEPT ![c] = @ + 1]

Reply(code, id, signal, window) ==
    [code |-> code, id |-> id, signal |-> signal, window |-> window]

\* SyncedTokenBank::withdraw, when the token is in the window and unspent; the
\* window may move forwards, over unspent tokens too.
Withdraw(s, t) ==
    \E n \in 0..(Ahead(t, bank[s].base) + 1) :
        bank' = [bank EXCEPT ![s] = [base |-> (@.base + n) % TokenMod, spent |-> @.spent \cup {t}]]

Good(s, t) == Ahead(t, bank[s].base) < WindowSize /\ t \notin bank[s].spent

\* A session the proxy does not know, or no longer.
AuthUnknown(c) ==
    /\ copies[c] > 0 /\ mine[c] # NoSession /\ mine[c] \notin known
    /\ Respond(c, Reply("failure", NoSession, "rejected", NoToken))
    /\ UNCHANGED <<proxifier, connection, proxy>>

\* ServerSession::makeBank: the window starts where rand() says.
MakeBank(s, b) == bank' = [bank EXCEPT ![s] = [base |-> b, spent |-> {}]]

\* A new session with its bank, or none if the request asks for none.
AuthNew(c) ==
    /\ copies[c] > 0 /\ mine[c] = NoSession
    /\ Honor(c)
    /\ \/ /\ asks[c] /\ spawned < MaxSession
          /\ spawned' = spawned + 1
          /\ known' = known \cup {spawned + 1}
          /\ \E b \in Starts :
                /\ MakeBank(spawned + 1, b)
                /\ Respond(c, Reply("success", spawned + 1, "absent", b))
       \/ /\ ~asks[c]
          /\ Respond(c, Reply("success", NoSession, "absent", NoToken))
          /\ UNCHANGED <<known, bank, spawned>>
    /\ UNCHANGED <<proxifier, connection, restarts>>

\* A token accepted if it is in the window, spent or not.
AuthKnownUnspent(c) ==
    /\ copies[c] > 0 /\ mine[c] \in known
    /\ LET s == mine[c]
           b == bank[s].base
       IN  \/ /\ token[c] = NoToken \/ Ahead(token[c], b) < WindowSize
              /\ Honor(c)
              /\ Respond(c, Reply("success", NoSession, "ok", b))
           \/ /\ token[c] # NoToken /\ Ahead(token[c], b) >= WindowSize
              /\ Respond(c, Reply("failure", NoSession, "ok", b))
              /\ UNCHANGED honored
    /\ UNCHANGED <<proxifier, connection, known, bank, spawned, restarts>>

\* A known session: the window is advertised, then the token withdrawn.
AuthKnown(c) ==
    /\ copies[c] > 0 /\ mine[c] \in known
    /\ LET s == mine[c]
           b == bank[s].base
       IN  \/ /\ token[c] = NoToken
              /\ Honor(c)
              /\ Respond(c, Reply("success", NoSession, "ok", b))
              /\ UNCHANGED bank
           \/ /\ token[c] # NoToken /\ Good(s, token[c])
              /\ Withdraw(s, token[c])
              /\ Honor(c)
              /\ Respond(c, Reply("success", NoSession, "ok", b))
           \/ /\ token[c] # NoToken /\ ~Good(s, token[c])
              /\ Respond(c, Reply("failure", NoSession, "ok", b))
              /\ UNCHANGED <<bank, honored>>
    /\ UNCHANGED <<proxifier, connection, known, spawned, restarts>>

\* The proxy starts anew; its sessions and banks were in memory only.
Restart ==
    /\ restarts < MaxRestart
    /\ restarts' = restarts + 1
    /\ known' = {} /\ bank' = [s \in Session |-> None]
    /\ UNCHANGED <<proxifier, connection, copies, reply, spawned, honored>>

-----------------------------------------------------------------------------
(* ProxifierDownstreamer and SessionSupplicant *)

\* SyncedTokenWallet::updateWindow: forwards only.
Updated(w, b) ==
    IF Ahead(b, w.base) \in 1..(TokenMod \div 2)
    THEN [base |-> b, next |-> IF Ahead(w.next, w.base) < Ahead(b, w.base) THEN b ELSE w.next]
    ELSE w

\* ClientSession::updateWallet: nothing without a wallet, or without a window.
UpdateWallet(s, b) ==
    wallet' = IF wallet[s] # None /\ b # NoToken
              THEN [wallet EXCEPT ![s] = Updated(@, b)]
              ELSE wallet

\* The wallet of a new session filled without a look at the advertised window.
ReceiveNewUnsynced(c) ==
    /\ reply[c].code = "success" /\ mine[c] = NoSession
    /\ session' = IF asks[c] /\ reply[c].id # NoSession THEN reply[c].id ELSE session
    /\ wallet' = IF asks[c] /\ reply[c].id # NoSession
                 THEN [wallet EXCEPT ![reply[c].id] = [base |-> 0, next |-> 0]]
                 ELSE wallet
    /\ lock' = IF asks[c] THEN FALSE ELSE lock
    /\ phase' = [phase EXCEPT ![c] = "over"]
    /\ reply' = [reply EXCEPT ![c] = NoReply]
    /\ UNCHANGED <<handed, mine, asks, token, copies, proxy>>

\* The reply to a request without a session: a supplicant makes one of it.
ReceiveNew(c) ==
    /\ reply[c].code = "success" /\ mine[c] = NoSession
    /\ session' = IF asks[c] /\ reply[c].id # NoSession THEN reply[c].id ELSE session
    /\ wallet' = IF asks[c] /\ reply[c].id # NoSession
                 THEN [wallet EXCEPT ![reply[c].id] =
                          [base |-> reply[c].window, next |-> reply[c].window]]
                 ELSE wallet
    /\ lock' = IF asks[c] THEN FALSE ELSE lock
    /\ phase' = [phase EXCEPT ![c] = "over"]
    /\ reply' = [reply EXCEPT ![c] = NoReply]
    /\ UNCHANGED <<handed, mine, asks, token, copies, proxy>>

\* The reply to a request in a session: a rejected session is given up, and the
\* wallet follows the window, if one is advertised.
ReceiveKnown(c) ==
    /\ reply[c] # NoReply /\ mine[c] # NoSession
    /\ session' = IF reply[c].signal # "ok" /\ session = mine[c] THEN NoSession ELSE session
    /\ UpdateWallet(mine[c], reply[c].window)
    /\ phase' = [phase EXCEPT ![c] = "over"]
    /\ reply' = [reply EXCEPT ![c] = NoReply]
    /\ UNCHANGED <<lock, handed, mine, asks, token, copies, proxy>>

\* The connection breaks; ~SessionSupplicant gives the lock back.
Break(c) ==
    /\ phase[c] \in {"made", "sent"}
    /\ phase' = [phase EXCEPT ![c] = "over"]
    /\ lock' = IF asks[c] THEN FALSE ELSE lock
    /\ reply' = [reply EXCEPT ![c] = NoReply]
    /\ UNCHANGED <<session, wallet, handed, mine, asks, token, copies, proxy>>

Next ==
    \/ \E c \in Conn : \/ Make(c) \/ Send(c) \/ Lose(c)
                       \/ AuthUnknown(c) \/ AuthNew(c) \/ AuthKnown(c)
                       \/ ReceiveNew(c) \/ ReceiveKnown(c) \/ Break(c)
    \/ Restart

Spec == Init /\ [][Next]_vars

-----------------------------------------------------------------------------

(***************************************************************************)
(* authutil.cc:79-96: the proxy acts at most once on a request, however    *)
(* often it arrives and however late, after other requests have moved the  *)
(* window past it, and after the proxy has been restarted.                 *)
(***************************************************************************)
AtMostOnce == \A c \in Conn : honored[c] <= 1

(***************************************************************************)
(* proxifierupstreamer.cc:51-72: session ID and token of a request come    *)
(* from one ClientSession, also when the proxifier has changed its session *)
(* since the connection was accepted.                                      *)
(***************************************************************************)
TokenOfSession ==
    \A c \in Conn : token[c] # NoToken => mine[c] # NoSession /\ token[c] \in handed[mine[c]]

(***************************************************************************)
(* clientsession.hh:15-40, proxifierdownstreamer.cc:36-43: replies come in *)
(* any order, and still a wallet never runs ahead of its bank: a token     *)
(* that the bank does not have yet would be refused and the connection     *)
(* lost for nothing.                                                       *)
(***************************************************************************)
NeverAhead ==
    \A c \in Conn : token[c] # NoToken /\ mine[c] \in known =>
        Ahead(token[c], bank[mine[c]].base) < WindowSize
            \/ Ahead(token[c], bank[mine[c]].base) >= TokenMod - Cardinality(handed[mine[c]])

=============================================================================
