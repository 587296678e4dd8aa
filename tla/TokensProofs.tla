---------------------------- MODULE TokensProofs ----------------------------
(***************************************************************************)
(* Proofs about Tokens: the proxy acts at most once on a request, whatever *)
(* is delivered twice, late or after a restart, a request's token is one   *)
(* of the session that it names, and the wallet never runs ahead of the    *)
(* bank, for any number of connections, sessions, restarts and tokens.     *)
(***************************************************************************)
EXTENDS Tokens, FiniteSetTheorems, TLAPS

Wallets == {None} \cup [base : Token, next : Token]
Banks   == {None} \cup [base : Token, spent : SUBSET Token]
Replies == {NoReply} \cup
    [code : {"success", "failure"}, id : Session \cup {NoSession},
     signal : {"ok", "rejected", "absent"}, window : Token \cup {NoToken}]

\* The types of the variables.
TypeOK ==
    /\ session \in Session \cup {NoSession} /\ lock \in BOOLEAN
    /\ wallet \in [Session -> Wallets]
    /\ handed \in [Session -> SUBSET Token]
    /\ phase \in [Conn -> {"none", "made", "sent", "over"}]
    /\ mine \in [Conn -> Session \cup {NoSession}]
    /\ asks \in [Conn -> BOOLEAN]
    /\ token \in [Conn -> Token \cup {NoToken}]
    /\ copies \in [Conn -> Nat]
    /\ reply \in [Conn -> Replies]
    /\ known \in SUBSET Session
    /\ bank \in [Session -> Banks]
    /\ spawned \in 0..MaxSession /\ restarts \in Nat
    /\ honored \in [Conn -> Nat]

(***************************************************************************)
(* A session ID is not given out before the session is spawned, so that an *)
(* ID the proxy has forgotten never comes to mean another session; a known *)
(* session has its bank, and a reply with a new session its window.        *)
(***************************************************************************)
Spawned ==
    /\ session <= spawned
    /\ \A s \in known : s <= spawned /\ bank[s] # None
    /\ \A c \in Conn : /\ mine[c] <= spawned
                       /\ reply[c] # NoReply => reply[c].id <= spawned
                       /\ (reply[c] # NoReply /\ reply[c].id # NoSession)
                             => reply[c].window # NoToken

\* A request that is not sent yet has had no effect.
Unsent == \A c \in Conn : phase[c] \in {"none", "made"} =>
              copies[c] = 0 /\ honored[c] = 0 /\ token[c] = NoToken

(***************************************************************************)
(* Why a copy cannot be honored again: there is none (a request without a  *)
(* token is sent once), or its session is forgotten, or its token is spent.*)
(***************************************************************************)
Spent ==
    \A c \in Conn :
        /\ token[c] = NoToken => copies[c] + honored[c] <= 1
        /\ (token[c] # NoToken /\ honored[c] = 1 /\ mine[c] \in known)
              => token[c] \in bank[mine[c]].spent

Inv == TypeOK /\ Spawned /\ Unsent /\ Spent /\ AtMostOnce /\ TokenOfSession

-----------------------------------------------------------------------------

\* The next token is one, and wraps around.
LEMMA NextToken == TokenMod \in Nat \ {0} /\ \A n \in Nat : n % TokenMod \in Token
BY TokensAssumption DEF Token

\* There are tokens and sessions, and NoToken and NoSession are none.
LEMMA Constants ==
    /\ NoToken \notin Token /\ Token \subseteq Nat /\ Starts \subseteq Token
    /\ NoSession \notin Session /\ Session \subseteq Nat /\ NoSession \in Nat
BY TokensAssumption DEF Token, NoToken, Session, NoSession

\* The distance between two tokens is a number below TokenMod.
LEMMA AheadType ==
    ASSUME NEW t \in Token \cup {NoToken}, NEW b \in Token
    PROVE  Ahead(t, b) \in 0..(TokenMod - 1) /\ Ahead(t, b) \in Nat
<1> DEFINE x == t + TokenMod - b
<1>1. x \in Nat
  BY TokensAssumption DEF Token, NoToken
<1> HIDE DEF x
<1>2. x % TokenMod \in Token
  BY <1>1, NextToken
<1> QED
  BY <1>2, NextToken DEF Ahead, Token, x

\* None is no wallet and no bank.
LEMMA Real ==
    /\ \A w \in Wallets : w # None => w \in [base : Token, next : Token]
    /\ \A b \in Banks : b # None => b \in [base : Token, spent : SUBSET Token]
    /\ \A x, y \in Token : [base |-> x, spent |-> {}] # None /\ [base |-> x, next |-> y] # None
<1>1. ASSUME NEW x \in Token, NEW y \in Token
      PROVE  [base |-> x, spent |-> {}] # None /\ [base |-> x, next |-> y] # None
  <2>1. [base |-> x, spent |-> {}].base = x /\ [base |-> x, next |-> y].base = x
    OBVIOUS
  <2>2. None.base = NoToken
    BY DEF None
  <2>3. x # NoToken
    BY Constants
  <2> QED
    BY <2>1, <2>2, <2>3
<1>2. \A w \in Wallets : w # None => w \in [base : Token, next : Token]
  BY Zenon DEF Wallets
<1>3. \A b \in Banks : b # None => b \in [base : Token, spent : SUBSET Token]
  BY Zenon DEF Banks
<1> QED
  BY <1>1, <1>2, <1>3, Zenon

\* Nothing has happened yet.
LEMMA InitInv == Init => Inv
<1> SUFFICES ASSUME Init PROVE Inv
  OBVIOUS
<1>1. TypeOK
  <2>1. None \in Wallets /\ None \in Banks /\ NoReply \in Replies /\ 0 \in 0..MaxSession
    BY TokensAssumption DEF Wallets, Banks, Replies
  <2> QED
    BY <2>1 DEF Init, TypeOK
<1>2. Spawned /\ Unsent /\ Spent /\ AtMostOnce /\ TokenOfSession
  BY DEF Init, Spawned, Unsent, Spent, AtMostOnce, TokenOfSession, NoSession
<1> QED
  BY <1>1, <1>2 DEF Inv

\* A new connection takes the session of now.
LEMMA MakeInv ==
    ASSUME Inv, NEW c \in Conn, Make(c)
    PROVE  Inv'
<1> USE DEF Make, proxy
<1>1. TypeOK'
  BY DEF Inv, TypeOK
<1>2. Spawned' /\ Unsent'
  BY DEF Inv, TypeOK, Spawned, Unsent
<1>3. token[c] = NoToken /\ honored[c] = 0
  BY DEF Inv, Unsent
<1>4. Spent' /\ AtMostOnce' /\ TokenOfSession'
  BY <1>3 DEF Inv, TypeOK, Spent, AtMostOnce, TokenOfSession
<1> QED
  BY <1>1, <1>2, <1>4 DEF Inv

\* Only a request with a token is sent in a way that may deliver it twice, and
\* the token is of the connection's own session.
LEMMA SendInv ==
    ASSUME Inv, NEW c \in Conn, Send(c)
    PROVE  Inv'
<1>1. /\ phase[c] = "made"
      /\ phase' = [phase EXCEPT ![c] = "sent"]
      /\ UNCHANGED <<session, lock, mine, asks, reply, known, bank, spawned, restarts, honored>>
  BY DEF Send, proxy
<1>2. copies[c] = 0 /\ honored[c] = 0 /\ token[c] = NoToken
  BY <1>1 DEF Inv, Unsent
<1>3. CASE /\ Extract(mine[c], c)
           /\ \E n \in 1..2 : copies' = [copies EXCEPT ![c] = n]
  <2> DEFINE s == mine[c]
             t == wallet[s].next
  <2>1. /\ s \in Session /\ wallet[s] \in [base : Token, next : Token]
        /\ token' = [token EXCEPT ![c] = t]
        /\ handed' = [handed EXCEPT ![s] = handed[s] \cup {t}]
        /\ wallet' = [wallet EXCEPT ![s].next = (t + 1) % TokenMod]
    BY <1>3, Real DEF Extract, Inv, TypeOK
  <2>2. t \in Token /\ (t + 1) % TokenMod \in Token
    BY <2>1, Constants, NextToken
  <2>3. [wallet[s] EXCEPT !.next = (t + 1) % TokenMod] \in [base : Token, next : Token]
    BY <2>1, <2>2
  <2> HIDE DEF s, t
  <2>4. wallet' \in [Session -> Wallets] /\ handed' \in [Session -> SUBSET Token]
    BY <2>1, <2>2, <2>3 DEF Inv, TypeOK, Wallets
  <2>5. copies' \in [Conn -> Nat] /\ token' \in [Conn -> Token \cup {NoToken}]
    BY <1>3, <2>1, <2>2 DEF Inv, TypeOK
  <2>6. TypeOK'
    BY <1>1, <2>4, <2>5 DEF Inv, TypeOK
  <2>7. token'[c] = t /\ t # NoToken
    BY <2>1, <2>2, Constants DEF Inv, TypeOK
  <2>8. \A e \in Conn : e # c => token'[e] = token[e] /\ copies'[e] = copies[e]
    BY <1>3, <2>1 DEF Inv, TypeOK
  <2>9. Spawned' /\ Unsent' /\ AtMostOnce'
    BY <1>1, <2>8 DEF Inv, TypeOK, Spawned, Unsent, AtMostOnce
  <2>10. Spent'
    BY <1>1, <1>2, <2>7, <2>8 DEF Inv, TypeOK, Spent
  <2>11. \A q \in Session : handed[q] \subseteq handed'[q]
    BY <2>1 DEF Inv, TypeOK
  <2>12. t \in handed'[mine[c]] /\ mine[c] # NoSession
    BY <2>1, Constants DEF Inv, TypeOK, s
  <2>13. \A e \in Conn : mine[e] \in Session \cup {NoSession}
    BY DEF Inv, TypeOK
  <2>14. TokenOfSession'
    BY <1>1, <2>7, <2>8, <2>11, <2>12, <2>13 DEF Inv, TokenOfSession
  <2> QED
    BY <2>6, <2>9, <2>10, <2>14 DEF Inv
<1>4. CASE UNCHANGED <<token, wallet, handed>> /\ copies' = [copies EXCEPT ![c] = 1]
  <2>1. TypeOK'
    BY <1>1, <1>4 DEF Inv, TypeOK
  <2>2. Spawned' /\ Unsent' /\ AtMostOnce' /\ TokenOfSession'
    BY <1>1, <1>4 DEF Inv, TypeOK, Spawned, Unsent, AtMostOnce, TokenOfSession
  <2>3. Spent'
    BY <1>1, <1>2, <1>4 DEF Inv, TypeOK, Spent
  <2> QED
    BY <2>1, <2>2, <2>3 DEF Inv
<1> QED
  BY <1>3, <1>4 DEF Send

\* A lost copy leaves fewer to be honored.
LEMMA LoseInv ==
    ASSUME Inv, NEW c \in Conn, Lose(c)
    PROVE  Inv'
<1>1. /\ copies[c] > 0 /\ copies' = [copies EXCEPT ![c] = copies[c] - 1]
      /\ UNCHANGED <<session, lock, wallet, handed, phase, mine, asks, token, reply,
                     known, bank, spawned, restarts, honored>>
  BY DEF Lose, proxifier, connection, proxy
<1>2. TypeOK'
  BY <1>1 DEF Inv, TypeOK
<1>3. Spawned' /\ Unsent' /\ AtMostOnce' /\ TokenOfSession' /\ Spent'
  BY <1>1 DEF Inv, TypeOK, Spawned, Unsent, AtMostOnce, TokenOfSession, Spent
<1> QED
  BY <1>2, <1>3 DEF Inv

\* A response consumes a copy; the session IDs in it are spawned ones.
LEMMA RespondInv ==
    ASSUME TypeOK, NEW c \in Conn, NEW r \in Replies \ {NoReply}, copies[c] > 0, Respond(c, r)
    PROVE  /\ copies' \in [Conn -> Nat] /\ reply' \in [Conn -> Replies]
           /\ copies'[c] = copies[c] - 1
           /\ \A e \in Conn : e # c => copies'[e] = copies[e]
           /\ \A e \in Conn : reply'[e] = reply[e] \/ reply'[e] = r
BY DEF TypeOK, Respond

\* A rejection honors nothing.
LEMMA AuthUnknownInv ==
    ASSUME Inv, NEW c \in Conn, AuthUnknown(c)
    PROVE  Inv'
<1> DEFINE r == Reply("failure", NoSession, "rejected", NoToken)
<1>1. /\ copies[c] > 0 /\ Respond(c, r)
      /\ UNCHANGED <<session, lock, wallet, handed, phase, mine, asks, token,
                     known, bank, spawned, restarts, honored>>
  BY DEF AuthUnknown, proxifier, connection, proxy
<1>2. r \in Replies \ {NoReply} /\ r.id = NoSession
  BY DEF Reply, Replies, NoReply
<1> HIDE DEF r
<1>3. /\ copies' \in [Conn -> Nat] /\ reply' \in [Conn -> Replies]
      /\ copies'[c] = copies[c] - 1
      /\ \A e \in Conn : e # c => copies'[e] = copies[e]
      /\ \A e \in Conn : reply'[e] = reply[e] \/ reply'[e] = r
  BY <1>1, <1>2, RespondInv DEF Inv
<1>4. TypeOK'
  BY <1>1, <1>3 DEF Inv, TypeOK
<1>5. Spawned'
  <2>1. \A e \in Conn : reply'[e] = r =>
          reply'[e].id <= spawned /\ reply'[e].id = NoSession
    BY <1>2 DEF Inv, TypeOK, NoSession
  <2> QED
    BY <1>1, <1>3, <2>1 DEF Inv, Spawned
<1>6. Unsent' /\ Spent' /\ AtMostOnce' /\ TokenOfSession'
  BY <1>1, <1>3 DEF Inv, TypeOK, Unsent, Spent, AtMostOnce, TokenOfSession
<1> QED
  BY <1>4, <1>5, <1>6 DEF Inv

(***************************************************************************)
(* A request without a session is honored with its only copy; a session    *)
(* that is spawned for it has an ID that nobody has used.                  *)
(***************************************************************************)
LEMMA AuthNewInv ==
    ASSUME Inv, NEW c \in Conn, AuthNew(c)
    PROVE  Inv'
<1>1. /\ copies[c] > 0 /\ mine[c] = NoSession
      /\ honored' = [honored EXCEPT ![c] = honored[c] + 1]
      /\ UNCHANGED <<session, lock, wallet, handed, phase, mine, asks, token, restarts>>
  BY DEF AuthNew, Honor, proxifier, connection
<1>2. token[c] = NoToken
  BY <1>1 DEF Inv, TokenOfSession
<1>3. copies[c] = 1 /\ honored[c] = 0
  BY <1>1, <1>2 DEF Inv, TypeOK, Spent
<1>4. honored' \in [Conn -> Nat] /\ AtMostOnce' /\ TokenOfSession' /\ honored'[c] = 1
  BY <1>1, <1>3 DEF Inv, TypeOK, AtMostOnce, TokenOfSession
<1>5. Unsent' /\ Spent' /\ TypeOK' /\ Spawned'
  <2>1. CASE /\ asks[c] /\ spawned < MaxSession
             /\ spawned' = spawned + 1
             /\ known' = known \cup {spawned + 1}
             /\ \E b \in Starts :
                   /\ MakeBank(spawned + 1, b)
                   /\ Respond(c, Reply("success", spawned + 1, "absent", b))
    <3>1. PICK b \in Starts : /\ MakeBank(spawned + 1, b)
                              /\ Respond(c, Reply("success", spawned + 1, "absent", b))
      BY <2>1
    <3> DEFINE n == spawned + 1
               r == Reply("success", n, "absent", b)
    <3>2. b \in Token /\ n \in Session /\ n \in Nat /\ n # NoSession /\ b # NoToken
      <4>1. b \in Token /\ b # NoToken
        BY Constants
      <4>2. spawned \in Nat /\ spawned < MaxSession /\ MaxSession \in Nat
        BY <2>1, TokensAssumption DEF Inv, TypeOK
      <4> QED
        BY <4>1, <4>2 DEF Session, NoSession
    <3>3. /\ bank' = [bank EXCEPT ![n] = [base |-> b, spent |-> {}]]
          /\ Respond(c, r) /\ spawned' = n /\ known' = known \cup {n}
          /\ n > spawned
      <4>1. spawned \in Nat
        BY DEF Inv, TypeOK
      <4>2. bank' = [bank EXCEPT ![n] = [base |-> b, spent |-> {}]]
        BY <3>1 DEF MakeBank
      <4>3. n > spawned
        BY <4>1
      <4> HIDE DEF r
      <4>4. Respond(c, r)
        BY <3>1 DEF r
      <4> QED
        BY <2>1, <4>2, <4>3, <4>4
    <3> HIDE DEF n
    <3>4. r \in Replies \ {NoReply} /\ r.id = n /\ r.window = b
      BY <3>2 DEF Reply, Replies, NoReply
    <3> HIDE DEF r
    <3>5. /\ copies' \in [Conn -> Nat] /\ reply' \in [Conn -> Replies]
          /\ copies'[c] = copies[c] - 1
          /\ \A e \in Conn : e # c => copies'[e] = copies[e]
          /\ \A e \in Conn : reply'[e] = reply[e] \/ reply'[e] = r
      BY <1>1, <3>3, <3>4, RespondInv DEF Inv
    <3>6. [base |-> b, spent |-> {}] \in Banks
      BY <3>2 DEF Banks
    <3>7. bank' \in [Session -> Banks]
      BY <3>3, <3>6 DEF Inv, TypeOK
    <3>8. n \in 0..MaxSession
      BY <3>2, TokensAssumption DEF Session
    <3>9. TypeOK'
      BY <1>1, <1>4, <3>2, <3>3, <3>5, <3>7, <3>8 DEF Inv, TypeOK
    <3>10. bank'[n] = [base |-> b, spent |-> {}] /\ bank'[n] # None
      BY <3>2, <3>3, Real DEF Inv, TypeOK
    <3>11. \A s \in Session : s # n => bank'[s] = bank[s]
      BY <3>3 DEF Inv, TypeOK
    <3>12. Spawned'
      <4>0. spawned \in Nat /\ \A k \in Nat : k <= spawned => k <= n
        <5>1. spawned \in Nat
          BY DEF Inv, TypeOK
        <5> QED
          BY <3>2, <3>3, <5>1
      <4>1. session' <= n
        BY <1>1, <4>0, Constants DEF Inv, TypeOK, Spawned
      <4>2. \A s \in known' : s <= n /\ bank'[s] # None
        <5> SUFFICES ASSUME NEW s \in known' PROVE s <= n /\ bank'[s] # None
          OBVIOUS
        <5>1. CASE s = n
          BY <3>2, <3>10, <5>1
        <5>2. CASE s # n
          <6>1. s \in known /\ s \in Session /\ s \in Nat
            BY <3>3, <5>2, Constants DEF Inv, TypeOK
          <6> QED
            BY <3>11, <4>0, <5>2, <6>1 DEF Inv, Spawned
        <5> QED
          BY <5>1, <5>2
      <4>3. ASSUME NEW e \in Conn
            PROVE  /\ mine'[e] <= n
                   /\ reply'[e] # NoReply => reply'[e].id <= n
                   /\ (reply'[e] # NoReply /\ reply'[e].id # NoSession)
                         => reply'[e].window # NoToken
        <5>1. mine'[e] <= n
          BY <1>1, <4>0, Constants DEF Inv, TypeOK, Spawned
        <5>2. CASE reply'[e] = r
          BY <3>2, <3>4, <5>1, <5>2
        <5>3. CASE reply'[e] = reply[e]
          <6>1. reply[e] # NoReply => reply[e].id \in Nat
            <7>1. reply[e] \in Replies
              BY DEF Inv, TypeOK
            <7> QED
              BY <7>1, Constants DEF Replies
          <6> QED
            BY <4>0, <5>1, <5>3, <6>1 DEF Inv, Spawned
        <5> QED
          BY <3>5, <5>2, <5>3
      <4> QED
        BY <3>3, <4>1, <4>2, <4>3 DEF Spawned
    <3>13. Unsent'
      BY <1>1, <3>5 DEF Inv, TypeOK, Unsent
    <3>14. Spent'
      <4>1. \A e \in Conn : mine[e] # n
        BY <3>2, <3>3, Constants DEF Inv, TypeOK, Spawned, NoSession
      <4>2. \A e \in Conn : mine[e] \in known' => mine[e] \in known /\ bank'[mine[e]] = bank[mine[e]]
        BY <3>3, <3>11, <4>1 DEF Inv, TypeOK
      <4>3. \A e \in Conn : e # c => honored'[e] = honored[e]
        BY <1>1 DEF Inv, TypeOK
      <4> QED
        BY <1>1, <1>2, <1>3, <1>4, <3>5, <4>2, <4>3 DEF Inv, Spent
    <3> QED
      BY <3>9, <3>12, <3>13, <3>14
  <2>2. CASE /\ Respond(c, Reply("success", NoSession, "absent", NoToken))
             /\ UNCHANGED <<known, bank, spawned>>
    <3> DEFINE r == Reply("success", NoSession, "absent", NoToken)
    <3>1. r \in Replies \ {NoReply} /\ r.id = NoSession
      BY DEF Reply, Replies, NoReply
    <3> HIDE DEF r
    <3>2. /\ copies' \in [Conn -> Nat] /\ reply' \in [Conn -> Replies]
          /\ copies'[c] = copies[c] - 1
          /\ \A e \in Conn : e # c => copies'[e] = copies[e]
          /\ \A e \in Conn : reply'[e] = reply[e] \/ reply'[e] = r
      BY <1>1, <2>2, <3>1, RespondInv DEF Inv, r
    <3>3. TypeOK'
      BY <1>1, <1>4, <2>2, <3>2 DEF Inv, TypeOK
    <3>4. Spawned'
      <4>1. \A e \in Conn : reply'[e] = r =>
              reply'[e].id <= spawned /\ reply'[e].id = NoSession
        BY <3>1 DEF Inv, TypeOK, NoSession
      <4> QED
        BY <1>1, <2>2, <3>2, <4>1 DEF Inv, Spawned
    <3>5. Unsent'
      BY <1>1, <3>2 DEF Inv, TypeOK, Unsent
    <3>6. Spent'
      BY <1>1, <1>2, <1>3, <1>4, <2>2, <3>2 DEF Inv, TypeOK, Spent
    <3> QED
      BY <3>3, <3>4, <3>5, <3>6
  <2> QED
    BY <2>1, <2>2 DEF AuthNew
<1> QED
  BY <1>4, <1>5 DEF Inv

(***************************************************************************)
(* A request of a known session is honored with its only copy, or with a   *)
(* token that is spent by it and was not spent before.                     *)
(***************************************************************************)
LEMMA AuthKnownInv ==
    ASSUME Inv, NEW c \in Conn, AuthKnown(c)
    PROVE  Inv'
<1> DEFINE s == mine[c]
           b == bank[s].base
<1>1. /\ copies[c] > 0 /\ s \in known /\ s \in Session
      /\ bank[s] \in [base : Token, spent : SUBSET Token]
      /\ UNCHANGED <<session, lock, wallet, handed, phase, mine, asks, token,
                     known, spawned, restarts>>
  BY Real DEF AuthKnown, proxifier, connection, Inv, TypeOK, Spawned
<1>2. b \in Token
  BY <1>1
<1>3. PICK code \in {"success", "failure"} : Respond(c, Reply(code, NoSession, "ok", b))
  BY DEF AuthKnown
<1> DEFINE r == Reply(code, NoSession, "ok", b)
<1>4. r \in Replies \ {NoReply} /\ r.id = NoSession
  BY <1>2 DEF Reply, Replies, NoReply
<1> HIDE DEF r
<1>5. /\ copies' \in [Conn -> Nat] /\ reply' \in [Conn -> Replies]
      /\ copies'[c] = copies[c] - 1
      /\ \A e \in Conn : e # c => copies'[e] = copies[e]
      /\ \A e \in Conn : reply'[e] = reply[e] \/ reply'[e] = r
  BY <1>1, <1>3, <1>4, RespondInv DEF Inv, r
<1>6. \A e \in Conn : reply'[e] = r => reply'[e].id <= spawned /\ reply'[e].id = NoSession
  BY <1>4 DEF Inv, TypeOK, NoSession
<1>7. CASE /\ token[c] = NoToken
           /\ honored' = [honored EXCEPT ![c] = honored[c] + 1]
           /\ UNCHANGED bank
  <2>1. copies[c] = 1 /\ honored[c] = 0
    <3>1. copies[c] \in Nat /\ honored[c] \in Nat
      BY DEF Inv, TypeOK
    <3>2. copies[c] > 0 /\ copies[c] + honored[c] <= 1
      BY <1>1, <1>7 DEF Inv, Spent
    <3> QED
      BY <3>1, <3>2
  <2>2. TypeOK'
    BY <1>1, <1>5, <1>7 DEF Inv, TypeOK
  <2>3. Spawned' /\ Unsent'
    BY <1>1, <1>5, <1>6, <1>7 DEF Inv, TypeOK, Spawned, Unsent
  <2>4. Spent' /\ AtMostOnce' /\ TokenOfSession'
    BY <1>1, <1>5, <1>7, <2>1 DEF Inv, TypeOK, Spent, AtMostOnce, TokenOfSession
  <2> QED
    BY <2>2, <2>3, <2>4 DEF Inv
<1>8. CASE /\ token[c] # NoToken /\ Good(s, token[c])
           /\ Withdraw(s, token[c])
           /\ honored' = [honored EXCEPT ![c] = honored[c] + 1]
  <2>1. PICK n \in 0..(Ahead(token[c], b) + 1) :
          bank' = [bank EXCEPT ![s] = [base |-> (b + n) % TokenMod,
                                       spent |-> bank[s].spent \cup {token[c]}]]
    BY <1>8 DEF Withdraw
  <2> DEFINE k == [base |-> (b + n) % TokenMod, spent |-> bank[s].spent \cup {token[c]}]
  <2>2. honored[c] = 0
    <3>1. token[c] \notin bank[s].spent
      BY <1>8 DEF Good
    <3>2. honored[c] # 1
      BY <1>1, <1>8, <3>1 DEF Inv, Spent
    <3>3. honored[c] \in Nat /\ honored[c] <= 1
      BY DEF Inv, TypeOK, AtMostOnce
    <3> QED
      BY <3>2, <3>3
  <2>3. k \in [base : Token, spent : SUBSET Token]
    <3>1. n \in Nat /\ b \in Nat
      <4>1. Ahead(token[c], b) \in Nat
        <5>1. token[c] \in Token \cup {NoToken}
          BY DEF Inv, TypeOK
        <5> QED
          BY <1>2, <5>1, AheadType, Zenon
      <4>2. b \in Nat
        BY <1>2, Constants
      <4> HIDE DEF b
      <4>3. n \in Nat
        BY <4>1
      <4> QED
        BY <4>2, <4>3
    <3>2. (b + n) % TokenMod \in Token
      BY <3>1, NextToken
    <3>3. bank[s].spent \cup {token[c]} \in SUBSET Token
      BY <1>1, <1>8 DEF Inv, TypeOK
    <3> QED
      BY <3>2, <3>3
  <2>4. k # None /\ k \in Banks
    <3>1. k.base \in Token /\ None.base = NoToken
      BY <2>3 DEF None
    <3> QED
      BY <2>3, <3>1, Constants DEF Banks
  <2>5. bank' = [bank EXCEPT ![s] = k] /\ token[c] \in k.spent /\ bank[s].spent \subseteq k.spent
    BY <2>1
  <2> HIDE DEF k, s
  <2>6. bank'[s] = k /\ \A q \in Session : q # s => bank'[q] = bank[q]
    BY <1>1, <2>5 DEF Inv, TypeOK
  <2>7. TypeOK'
    BY <1>1, <1>5, <1>8, <2>4, <2>5 DEF Inv, TypeOK
  <2>8. Spawned'
    <3>1. \A q \in known : bank'[q] # None
      BY <2>4, <2>6 DEF Inv, TypeOK, Spawned
    <3> QED
      BY <1>1, <1>5, <1>6, <3>1 DEF Inv, Spawned
  <2>9. Unsent' /\ AtMostOnce' /\ TokenOfSession'
    BY <1>1, <1>5, <1>8, <2>2 DEF Inv, TypeOK, Unsent, AtMostOnce, TokenOfSession
  <2>10. Spent'
    <3>1. \A q \in known : bank[q].spent \subseteq bank'[q].spent
      BY <2>5, <2>6 DEF Inv, TypeOK
    <3>2. \A e \in Conn : e # c => honored'[e] = honored[e]
      BY <1>8 DEF Inv, TypeOK
    <3>3. token[c] \in bank'[mine[c]].spent
      BY <2>5, <2>6 DEF s
    <3> QED
      BY <1>1, <1>5, <1>8, <3>1, <3>2, <3>3 DEF Inv, Spent
  <2> QED
    BY <2>7, <2>8, <2>9, <2>10 DEF Inv
<1>9. CASE UNCHANGED <<bank, honored>>
  <2>1. TypeOK'
    BY <1>1, <1>5, <1>9 DEF Inv, TypeOK
  <2>2. Spawned'
    BY <1>1, <1>5, <1>6, <1>9 DEF Inv, Spawned
  <2>3. Unsent' /\ Spent' /\ AtMostOnce' /\ TokenOfSession'
    BY <1>1, <1>5, <1>9 DEF Inv, TypeOK, Unsent, Spent, AtMostOnce, TokenOfSession
  <2> QED
    BY <2>1, <2>2, <2>3 DEF Inv
<1> QED
  BY <1>7, <1>8, <1>9 DEF AuthKnown, Honor

\* A restart forgets the sessions; their IDs are not given out again.
LEMMA RestartInv == Inv /\ Restart => Inv'
<1> SUFFICES ASSUME Inv, Restart PROVE Inv'
  OBVIOUS
<1>1. /\ restarts' = restarts + 1 /\ known' = {} /\ bank' = [s \in Session |-> None]
      /\ UNCHANGED <<session, lock, wallet, handed, phase, mine, asks, token,
                     copies, reply, spawned, honored>>
  BY DEF Restart, proxifier, connection
<1>2. None \in Banks
  BY DEF Banks
<1>3. TypeOK'
  BY <1>1, <1>2 DEF Inv, TypeOK
<1>4. Spawned' /\ Unsent' /\ Spent' /\ AtMostOnce' /\ TokenOfSession'
  BY <1>1 DEF Inv, Spawned, Unsent, Spent, AtMostOnce, TokenOfSession
<1> QED
  BY <1>3, <1>4 DEF Inv

\* A new session gets its wallet with the window of its bank.
LEMMA ReceiveNewInv ==
    ASSUME Inv, NEW c \in Conn, ReceiveNew(c)
    PROVE  Inv'
<1>1. /\ reply[c].code = "success"
      /\ session' = IF asks[c] /\ reply[c].id # NoSession THEN reply[c].id ELSE session
      /\ wallet' = IF asks[c] /\ reply[c].id # NoSession
                   THEN [wallet EXCEPT ![reply[c].id] =
                            [base |-> reply[c].window, next |-> reply[c].window]]
                   ELSE wallet
      /\ lock' = IF asks[c] THEN FALSE ELSE lock
      /\ asks' = asks
      /\ phase' = [phase EXCEPT ![c] = "over"]
      /\ reply' = [reply EXCEPT ![c] = NoReply]
      /\ UNCHANGED <<handed, mine, token, copies, known, bank, spawned, restarts, honored>>
  BY DEF ReceiveNew, proxy
<1>2. reply[c] # NoReply
  BY <1>1 DEF NoReply
<1>3. reply[c] \in Replies /\ NoReply \in Replies
  BY DEF Inv, TypeOK, Replies
<1>4. reply[c].id \in Session \cup {NoSession} /\ reply[c].window \in Token \cup {NoToken}
  BY <1>2, <1>3 DEF Replies
<1>5. session' \in Session \cup {NoSession} /\ session' <= spawned
  BY <1>1, <1>2, <1>4 DEF Inv, TypeOK, Spawned
<1>6. wallet' \in [Session -> Wallets]
  <2>1. CASE asks[c] /\ reply[c].id # NoSession
    <3>1. reply[c].id \in Session /\ reply[c].window \in Token
      BY <1>2, <1>4, <2>1 DEF Inv, Spawned
    <3>2. [base |-> reply[c].window, next |-> reply[c].window] \in Wallets
      BY <3>1 DEF Wallets
    <3> QED
      BY <1>1, <2>1, <3>1, <3>2 DEF Inv, TypeOK
  <2>2. CASE ~(asks[c] /\ reply[c].id # NoSession)
    BY <1>1, <2>2 DEF Inv, TypeOK
  <2> QED
    BY <2>1, <2>2
<1>7. TypeOK'
  BY <1>1, <1>3, <1>5, <1>6 DEF Inv, TypeOK
<1>8. Spawned'
  <2>1. \A e \in Conn : reply'[e] = IF e = c THEN NoReply ELSE reply[e]
    BY <1>1 DEF Inv, TypeOK
  <2> QED
    BY <1>1, <1>5, <2>1 DEF Inv, Spawned
<1>9. Unsent' /\ Spent' /\ AtMostOnce' /\ TokenOfSession'
  BY <1>1 DEF Inv, TypeOK, Unsent, Spent, AtMostOnce, TokenOfSession
<1> QED
  BY <1>7, <1>8, <1>9 DEF Inv

\* A window that is advertised for a session leaves its wallet a wallet.
LEMMA ReceiveKnownInv ==
    ASSUME Inv, NEW c \in Conn, ReceiveKnown(c)
    PROVE  Inv'
<1> DEFINE s == mine[c]
           b == reply[c].window
<1>1. /\ reply[c] # NoReply /\ s # NoSession
      /\ session' = session \/ session' = NoSession
      /\ wallet' = IF wallet[s] # None /\ b # NoToken
                   THEN [wallet EXCEPT ![s] = Updated(wallet[s], b)] ELSE wallet
      /\ phase' = [phase EXCEPT ![c] = "over"]
      /\ reply' = [reply EXCEPT ![c] = NoReply]
      /\ UNCHANGED <<lock, handed, mine, asks, token, copies,
                     known, bank, spawned, restarts, honored>>
  BY DEF ReceiveKnown, UpdateWallet, proxy
<1>2. reply[c] \in Replies /\ NoReply \in Replies /\ s \in Session
  BY <1>1 DEF Inv, TypeOK, Replies
<1>3. b \in Token \cup {NoToken}
  BY <1>1, <1>2 DEF Replies
<1> HIDE DEF s, b
<1>4. wallet' \in [Session -> Wallets]
  <2>1. CASE wallet[s] # None /\ b # NoToken
    <3>1. wallet[s] \in [base : Token, next : Token] /\ b \in Token
      BY <1>2, <1>3, <2>1, Real DEF Inv, TypeOK
    <3>2. Updated(wallet[s], b) \in [base : Token, next : Token]
      BY <3>1 DEF Updated
    <3> QED
      BY <1>1, <1>2, <2>1, <3>2 DEF Inv, TypeOK, Wallets
  <2>2. CASE ~(wallet[s] # None /\ b # NoToken)
    BY <1>1, <2>2 DEF Inv, TypeOK
  <2> QED
    BY <2>1, <2>2
<1>5. session' \in Session \cup {NoSession} /\ session' <= spawned
  BY <1>1 DEF Inv, TypeOK, Spawned, NoSession
<1>6. TypeOK'
  BY <1>1, <1>2, <1>4, <1>5 DEF Inv, TypeOK
<1>7. Spawned'
  <2>1. \A e \in Conn : reply'[e] = IF e = c THEN NoReply ELSE reply[e]
    BY <1>1 DEF Inv, TypeOK
  <2> QED
    BY <1>1, <1>5, <2>1 DEF Inv, Spawned
<1>8. Unsent' /\ Spent' /\ AtMostOnce' /\ TokenOfSession'
  BY <1>1 DEF Inv, TypeOK, Unsent, Spent, AtMostOnce, TokenOfSession
<1> QED
  BY <1>6, <1>7, <1>8 DEF Inv

\* A connection that breaks takes its token with it.
LEMMA BreakInv ==
    ASSUME Inv, NEW c \in Conn, Break(c)
    PROVE  Inv'
<1>1. /\ lock' = (IF asks[c] THEN FALSE ELSE lock)
      /\ asks' = asks
      /\ phase' = [phase EXCEPT ![c] = "over"]
      /\ reply' = [reply EXCEPT ![c] = NoReply]
      /\ UNCHANGED <<session, wallet, handed, mine, token, copies,
                     known, bank, spawned, restarts, honored>>
  BY DEF Break, proxy
<1>2. NoReply \in Replies
  BY DEF Replies
<1>3. TypeOK'
  BY <1>1, <1>2 DEF Inv, TypeOK
<1>4. Spawned'
  <2>1. \A e \in Conn : reply'[e] = IF e = c THEN NoReply ELSE reply[e]
    BY <1>1 DEF Inv, TypeOK
  <2> QED
    BY <1>1, <2>1 DEF Inv, Spawned
<1>5. Unsent' /\ Spent' /\ AtMostOnce' /\ TokenOfSession'
  BY <1>1 DEF Inv, TypeOK, Unsent, Spent, AtMostOnce, TokenOfSession
<1> QED
  BY <1>3, <1>4, <1>5 DEF Inv

-----------------------------------------------------------------------------

\* Every step keeps the invariant.
LEMMA NextInv == Inv /\ [Next]_vars => Inv'
<1> SUFFICES ASSUME Inv, [Next]_vars PROVE Inv'
  OBVIOUS
<1>1. CASE UNCHANGED vars
  BY <1>1 DEF vars, proxifier, connection, proxy, Inv, TypeOK, Spawned, Unsent, Spent,
              AtMostOnce, TokenOfSession
<1> QED
  BY <1>1, MakeInv, SendInv, LoseInv, AuthUnknownInv, AuthNewInv, AuthKnownInv,
     ReceiveNewInv, ReceiveKnownInv, BreakInv, RestartInv DEF Next

\* The inductive invariant holds in every reachable state.
THEOREM TokensInvariant == Spec => []Inv
  BY InitInv, NextInv, PTL DEF Spec

(***************************************************************************)
(* authutil.cc:79-96: the proxy acts at most once on a request, however    *)
(* many copies arrive, in whatever order with other requests, and whether  *)
(* it has been restarted in between or not.                                *)
(***************************************************************************)
THEOREM TokensAtMostOnce == Spec => []AtMostOnce
<1>1. Inv => AtMostOnce
  BY DEF Inv
<1> QED
  BY <1>1, TokensInvariant, PTL

\* proxifierupstreamer.cc:51-72: the token of a request was handed out by the
\* wallet of the session that the request names.
THEOREM TokensOfSession == Spec => []TokenOfSession
<1>1. Inv => TokenOfSession
  BY DEF Inv
<1> QED
  BY <1>1, TokensInvariant, PTL

-----------------------------------------------------------------------------
(***************************************************************************)
(* The wallet never runs ahead of the bank.  Until a session has handed    *)
(* out all but WindowSize of the tokens there are (Wide), everything that  *)
(* the two sides know of its window lies on one arc that begins where the  *)
(* bank's window has started, at S: the tokens handed out fill it without  *)
(* a gap, and no window, in the wallet or on its way there, is ahead of    *)
(* the bank's.  Distances from S do not wrap around there, so that they    *)
(* are compared as numbers.                                                *)
(***************************************************************************)
Wide(s) == Cardinality(handed[s]) >= TokenMod - WindowSize

\* The reply to c has a window of session s, old or new.
Concerns(c, s) ==
    /\ reply[c] # NoReply /\ reply[c].window # NoToken
    /\ mine[c] = s \/ reply[c].id = s

\* The tokens of H begin at S and leave no gap.
Gapless(H, S) == H = {x \in Token : Ahead(x, S) < Cardinality(H)}

\* The tokens handed out, and where the bank is among them.
Filled(s, S) ==
    /\ Gapless(handed[s], S)
    /\ Ahead(bank[s].base, S) <= Cardinality(handed[s])

\* Where the wallet is.
Follows(s, S) ==
    wallet[s] # None => /\ Ahead(wallet[s].base, S) <= Ahead(bank[s].base, S)
                        /\ Ahead(wallet[s].next, S) <= Cardinality(handed[s])

\* What is on its way between them.
Travels(s, S) ==
    \A c \in Conn :
        /\ Concerns(c, s) => Ahead(reply[c].window, S) <= Ahead(bank[s].base, S)
        /\ mine[c] = s /\ token[c] # NoToken =>
              Ahead(token[c], S) < Ahead(bank[s].base, S) + WindowSize

Arc(s, S) == Filled(s, S) /\ Follows(s, S) /\ Travels(s, S)

\* Sessions that are not spawned yet have no wallet, and requests that are not
\* sent yet no reply.
Fresh ==
    /\ \A s \in Session : s > spawned => wallet[s] = None /\ handed[s] = {}
    /\ \A c \in Conn : phase[c] \in {"none", "made"} => reply[c] = NoReply

Ordered(s) == Wide(s) \/ \E S \in Token : Arc(s, S)
Arcs == \A s \in known : Ordered(s)

AInv == Inv /\ Fresh /\ Arcs

-----------------------------------------------------------------------------
(* Arithmetic modulo TokenMod *)

\* Once around at most.
LEMMA Around ==
    ASSUME NEW n \in Nat, n < 2 * TokenMod
    PROVE  n % TokenMod = IF n < TokenMod THEN n ELSE n - TokenMod
<1>1. TokenMod \in Nat \ {0}
  BY NextToken
<1> QED
  BY <1>1

\* A distance, without the modulus.
LEMMA AheadIs ==
    ASSUME NEW t \in Token, NEW b \in Token
    PROVE  Ahead(t, b) = IF t >= b THEN t - b ELSE t + TokenMod - b
<1> DEFINE n == t + TokenMod - b
<1>1. n \in Nat /\ n < 2 * TokenMod
  BY NextToken DEF Token
<1>2. n % TokenMod = IF n < TokenMod THEN n ELSE n - TokenMod
  BY <1>1, Around
<1>3. n < TokenMod <=> ~(t >= b)
  BY NextToken DEF Token
<1> QED
  BY <1>2, <1>3, NextToken DEF Ahead, Token

\* The distance between two tokens by their distances from a third.
LEMMA Difference ==
    ASSUME NEW t \in Token, NEW b \in Token, NEW S \in Token
    PROVE  Ahead(t, b) = IF Ahead(t, S) >= Ahead(b, S)
                         THEN Ahead(t, S) - Ahead(b, S)
                         ELSE Ahead(t, S) + TokenMod - Ahead(b, S)
<1>1. /\ Ahead(t, b) = IF t >= b THEN t - b ELSE t + TokenMod - b
      /\ Ahead(t, S) = IF t >= S THEN t - S ELSE t + TokenMod - S
      /\ Ahead(b, S) = IF b >= S THEN b - S ELSE b + TokenMod - S
  BY AheadIs
<1>2. /\ t \in Nat /\ b \in Nat /\ S \in Nat /\ TokenMod \in Nat
      /\ t < TokenMod /\ b < TokenMod /\ S < TokenMod
  BY NextToken DEF Token
<1> HIDE DEF Ahead
<1> QED
  BY <1>1, <1>2

\* A token that is moved forwards, not as far as S.
LEMMA Moved ==
    ASSUME NEW b \in Token, NEW S \in Token, NEW n \in Nat, Ahead(b, S) + n < TokenMod
    PROVE  /\ (b + n) % TokenMod \in Token
           /\ Ahead((b + n) % TokenMod, S) = Ahead(b, S) + n
<1>1. Ahead(b, S) = IF b >= S THEN b - S ELSE b + TokenMod - S
  BY AheadIs
<1>2. /\ b \in Nat /\ S \in Nat /\ TokenMod \in Nat /\ b < TokenMod /\ S < TokenMod
  BY NextToken DEF Token
<1> DEFINE m == b + n
           x == m % TokenMod
<1>3. m \in Nat /\ m < 2 * TokenMod
  BY <1>1, <1>2
<1>4. x = IF m < TokenMod THEN m ELSE m - TokenMod
  BY <1>3, Around
<1>5. x \in Token
  BY <1>3, NextToken
<1>6. Ahead(x, S) = IF x >= S THEN x - S ELSE x + TokenMod - S
  BY <1>5, AheadIs
<1> HIDE DEF x
<1>7. Ahead(x, S) = Ahead(b, S) + n
  BY <1>1, <1>2, <1>4, <1>6
<1> QED
  BY <1>5, <1>7 DEF x

\* Tokens with the same distance are the same.
LEMMA SameDistance ==
    ASSUME NEW t \in Token, NEW b \in Token, NEW S \in Token, Ahead(t, S) = Ahead(b, S)
    PROVE  t = b
<1>1. /\ Ahead(t, S) = IF t >= S THEN t - S ELSE t + TokenMod - S
      /\ Ahead(b, S) = IF b >= S THEN b - S ELSE b + TokenMod - S
  BY AheadIs
<1>2. /\ t \in Nat /\ b \in Nat /\ S \in Nat /\ TokenMod \in Nat
      /\ t < TokenMod /\ b < TokenMod /\ S < TokenMod
  BY NextToken DEF Token
<1> DEFINE d == Ahead(t, S)
<1>3. d \in Int /\ d = Ahead(b, S)
  BY AheadType
<1> HIDE DEF d
<1>4. t = IF t >= S THEN d + S ELSE d + S - TokenMod
  BY <1>1, <1>2, <1>3 DEF d
<1>5. b = IF b >= S THEN d + S ELSE d + S - TokenMod
  BY <1>1, <1>2, <1>3
<1>6. (t >= S) <=> (b >= S)
  BY <1>2, <1>3, <1>4, <1>5
<1> QED
  BY <1>4, <1>5, <1>6

\* Any set of tokens is finite, and a larger one has no fewer.
LEMMA Finite ==
    /\ \A H \in SUBSET Token : IsFiniteSet(H) /\ Cardinality(H) \in Nat
    /\ \A H, G \in SUBSET Token : H \subseteq G => Cardinality(H) <= Cardinality(G)
    /\ \A H \in SUBSET Token : \A t \in Token : t \notin H =>
          Cardinality(H \cup {t}) = Cardinality(H) + 1
<1>1. IsFiniteSet(Token)
  BY FS_Interval, NextToken DEF Token
<1>2. \A H \in SUBSET Token : IsFiniteSet(H) /\ Cardinality(H) \in Nat
  BY <1>1, FS_Subset, FS_CardinalityType
<1>3. \A H, G \in SUBSET Token : H \subseteq G => Cardinality(H) <= Cardinality(G)
  BY <1>2, FS_Subset
<1>4. \A H \in SUBSET Token : \A t \in Token : t \notin H =>
          Cardinality(H \cup {t}) = Cardinality(H) + 1
  BY <1>2, FS_AddElement
<1> QED
  BY <1>2, <1>3, <1>4

\* The next token on the arc leaves no gap.
LEMMA Fills ==
    ASSUME NEW H \in SUBSET Token, NEW S \in Token, NEW t \in Token, NEW G, G = H \cup {t},
           Gapless(H, S), Ahead(t, S) <= Cardinality(H)
    PROVE  /\ Gapless(G, S)
           /\ Ahead(t, S) < Cardinality(G) /\ Cardinality(H) <= Cardinality(G)
<1>1. /\ Cardinality(H) \in Nat /\ Cardinality(G) \in Nat
      /\ t \notin H => Cardinality(G) = Cardinality(H) + 1
  BY Finite
<1>2. \A x \in Token : Ahead(x, S) \in Nat
  BY AheadType
<1>3. CASE t \in H
  <2>1. G = H
    BY <1>3
  <2>2. Ahead(t, S) < Cardinality(H)
    BY <1>3 DEF Gapless
  <2>3. Gapless(G, S) /\ Ahead(t, S) < Cardinality(G)
    BY <2>1, <2>2, Zenon
  <2>4. Cardinality(H) <= Cardinality(G)
    <3> DEFINE n == Cardinality(H)
    <3>1. n \in Nat /\ Cardinality(G) = n
      BY <1>1, <2>1
    <3> QED
      BY <3>1
  <2> QED
    BY <2>3, <2>4
<1>4. CASE t \notin H
  <2>1. Ahead(t, S) = Cardinality(H)
    <3>1. ~(Ahead(t, S) < Cardinality(H))
      BY <1>4 DEF Gapless
    <3> QED
      BY <1>1, <1>2, <3>1
  <2>2. ASSUME NEW x \in Token PROVE x \in G <=> Ahead(x, S) < Cardinality(G)
    <3>1. x = t <=> Ahead(x, S) = Cardinality(H)
      BY <2>1, SameDistance
    <3>2. x \in H <=> Ahead(x, S) < Cardinality(H)
      BY DEF Gapless
    <3>3. Ahead(x, S) < Cardinality(G) <=>
             Ahead(x, S) < Cardinality(H) \/ Ahead(x, S) = Cardinality(H)
      BY <1>1, <1>2, <1>4
    <3>4. x \in G <=> x \in H \/ x = t
      OBVIOUS
    <3> QED
      BY <3>1, <3>2, <3>3, <3>4
  <2>3. G \subseteq Token
    OBVIOUS
  <2>4. Gapless(G, S)
    BY <2>2, <2>3 DEF Gapless
  <2> QED
    BY <1>1, <1>4, <2>1, <2>4
<1> QED
  BY <1>3, <1>4

-----------------------------------------------------------------------------
(* What a step that hands out no token has to show. *)

\* The type of a known session's bank, of a wallet and of a reply.
LEMMA Parts ==
    ASSUME Inv
    PROVE  /\ \A s \in known : s \in Session /\ bank[s].base \in Token
           /\ \A s \in Session : wallet[s] # None =>
                 wallet[s].base \in Token /\ wallet[s].next \in Token
           /\ \A c \in Conn, s \in Session : Concerns(c, s) => reply[c].window \in Token
           /\ \A s \in Session : handed[s] \in SUBSET Token /\ Cardinality(handed[s]) \in Nat
<1>1. ASSUME NEW s \in known PROVE s \in Session /\ bank[s].base \in Token
  <2>1. s \in Session /\ bank[s] \in Banks /\ bank[s] # None
    BY DEF Inv, TypeOK, Spawned
  <2> QED
    BY <2>1, Real
<1>2. ASSUME NEW s \in Session, wallet[s] # None
      PROVE  wallet[s].base \in Token /\ wallet[s].next \in Token
  <2>1. wallet[s] \in Wallets
    BY DEF Inv, TypeOK
  <2> QED
    BY <1>2, <2>1, Real
<1>3. ASSUME NEW c \in Conn, NEW s \in Session, Concerns(c, s) PROVE reply[c].window \in Token
  <2>1. reply[c] \in Replies /\ reply[c] # NoReply /\ reply[c].window # NoToken
    BY <1>3 DEF Inv, TypeOK, Concerns
  <2> QED
    BY <2>1 DEF Replies
<1>4. \A s \in Session : handed[s] \in SUBSET Token
  BY DEF Inv, TypeOK
<1>5. \A s \in Session : Cardinality(handed[s]) \in Nat
  BY <1>4, Finite
<1> QED
  BY <1>1, <1>2, <1>3, <1>4, <1>5

\* Replies and requests that reach session s in the next state are those of
\* now, or advertise the window of now.
SameTraffic(s) ==
    \A c \in Conn :
        /\ Concerns(c, s)' => \/ Concerns(c, s) /\ reply'[c] = reply[c]
                              \/ reply'[c].window = bank[s].base
        /\ mine'[c] = s /\ token'[c] # NoToken => mine[c] = s /\ token'[c] = token[c]

\* The bank may move forwards, up to the last token handed out.
LEMMA ArcKept ==
    ASSUME Inv, Inv', NEW s \in known, s \in known', NEW S \in Token, Arc(s, S),
           handed'[s] = handed[s], SameTraffic(s),
           Ahead(bank[s].base, S) <= Ahead(bank'[s].base, S),
           Ahead(bank'[s].base, S) <= Cardinality(handed[s]),
           wallet'[s] = wallet[s] \/ Follows(s, S)'
    PROVE  Arc(s, S)'
<1> DEFINE B == Ahead(bank[s].base, S)
           C == Ahead(bank'[s].base, S)
<1>1. /\ s \in Session /\ bank[s].base \in Token
      /\ wallet[s] # None => wallet[s].base \in Token /\ wallet[s].next \in Token
      /\ \A c \in Conn : Concerns(c, s) => reply[c].window \in Token
  BY Parts
<1>2. bank'[s].base \in Token
  <2>1. bank'[s] \in Banks /\ bank'[s] # None
    BY <1>1 DEF Inv, TypeOK, Spawned
  <2> QED
    BY <2>1, Real
<1>3. B \in Nat /\ C \in Nat /\ B <= C /\ WindowSize \in Nat
  BY <1>1, <1>2, AheadType, TokensAssumption
<1>4. Filled(s, S)'
  BY DEF Arc, Filled
<1> HIDE DEF B, C
<1>5. Follows(s, S)'
  <2>1. CASE wallet'[s] = wallet[s]
    <3>1. wallet[s] # None => Ahead(wallet[s].base, S) \in Nat
      BY <1>1, AheadType
    <3>2. wallet[s] # None => /\ Ahead(wallet[s].base, S) <= B
                              /\ Ahead(wallet[s].next, S) <= Cardinality(handed[s])
      BY DEF Arc, Follows, B
    <3>3. wallet[s] # None => Ahead(wallet[s].base, S) <= C
      BY <1>3, <3>1, <3>2
    <3> QED
      BY <2>1, <3>2, <3>3 DEF Follows, C
  <2> QED
    BY <2>1
<1>6. ASSUME NEW c \in Conn, Concerns(c, s)' PROVE Ahead(reply'[c].window, S) <= C
  <2>1. CASE Concerns(c, s) /\ reply'[c] = reply[c]
    <3>1. Ahead(reply[c].window, S) \in Nat
      BY <1>1, <2>1, AheadType
    <3>2. Ahead(reply[c].window, S) <= B
      BY <2>1 DEF Arc, Travels, B
    <3>3. Ahead(reply[c].window, S) <= C
      BY <1>3, <3>1, <3>2
    <3> QED
      BY <2>1, <3>3
  <2>2. CASE reply'[c].window = bank[s].base
    BY <1>3, <2>2 DEF B
  <2> QED
    BY <1>6, <2>1, <2>2 DEF SameTraffic
<1>7. ASSUME NEW c \in Conn, mine'[c] = s, token'[c] # NoToken
      PROVE  Ahead(token'[c], S) < C + WindowSize
  <2>1. mine[c] = s /\ token'[c] = token[c] /\ token[c] \in Token
    BY <1>7 DEF SameTraffic, Inv, TypeOK
  <2>2. Ahead(token[c], S) \in Nat
    BY <2>1, AheadType
  <2>3. Ahead(token[c], S) < B + WindowSize
    BY <1>7, <2>1 DEF Arc, Travels, B
  <2>4. Ahead(token[c], S) < C + WindowSize
    BY <1>3, <2>2, <2>3
  <2> QED
    BY <2>1, <2>4
<1>8. Travels(s, S)'
  BY <1>6, <1>7 DEF Travels, C
<1> QED
  BY <1>4, <1>5, <1>8 DEF Arc

\* A session that a step does not touch.
LEMMA Untouched ==
    ASSUME AInv, Inv', NEW s \in known, s \in known', handed'[s] = handed[s], SameTraffic(s),
           bank'[s] = bank[s], wallet'[s] = wallet[s]
    PROVE  Ordered(s)'
<1>1. CASE Wide(s)
  BY <1>1 DEF Ordered, Wide
<1>2. CASE ~Wide(s)
  <2>1. PICK S \in Token : Arc(s, S)
    BY <1>2 DEF AInv, Arcs, Ordered
  <2>2. Ahead(bank[s].base, S) <= Cardinality(handed[s])
    BY <2>1 DEF Arc, Filled
  <2>3. bank[s].base \in Token
    BY Parts DEF AInv
  <2>4. Ahead(bank[s].base, S) \in Nat
    BY <2>3, AheadType
  <2>5. Ahead(bank[s].base, S) <= Ahead(bank'[s].base, S)
    BY <2>4
  <2>6. Inv
    BY DEF AInv
  <2>7. Arc(s, S)'
    BY <2>1, <2>2, <2>5, <2>6, ArcKept
  <2> QED
    BY <2>7 DEF Ordered
<1> QED
  BY <1>1, <1>2

\* An answer reaches the proxifier or does not.
LEMMA Responds ==
    ASSUME Inv, NEW c \in Conn, NEW r, Respond(c, r)
    PROVE  \A e \in Conn : \/ reply'[e] = reply[e]
                           \/ e = c /\ phase[c] = "sent" /\ reply'[e] = r
BY DEF Respond, Inv, TypeOK

\* A new connection has sent nothing and got nothing.
LEMMA MakeArcs ==
    ASSUME AInv, NEW c \in Conn, Make(c)
    PROVE  Fresh' /\ Arcs'
<1>1. Inv'
  BY MakeInv DEF AInv
<1>2. /\ phase[c] = "none" /\ phase' = [phase EXCEPT ![c] = "made"]
      /\ mine' = [mine EXCEPT ![c] = session]
      /\ UNCHANGED <<wallet, handed, token, reply, known, bank, spawned>>
  BY DEF Make, proxy
<1>3. reply[c] = NoReply /\ token[c] = NoToken
  BY <1>2 DEF AInv, Fresh, Inv, Unsent
<1>4. Fresh'
  BY <1>2, <1>3 DEF AInv, Fresh, Inv, TypeOK
<1>5. \A e \in Conn : e # c => mine'[e] = mine[e]
  BY <1>2 DEF AInv, Inv, TypeOK
<1>6. ASSUME NEW s \in known' PROVE Ordered(s)'
  <2>1. SameTraffic(s)
    BY <1>2, <1>3, <1>5 DEF SameTraffic, Concerns
  <2> QED
    BY <1>1, <1>2, <2>1, Untouched
<1> QED
  BY <1>4, <1>6 DEF Arcs

\* The next token of a wallet is at most a window ahead of the bank.
LEMMA ExtractArc ==
    ASSUME AInv, Inv', NEW c \in Conn, NEW s \in known, s \in known', mine[c] = s, Extract(s, c),
           UNCHANGED <<mine, reply, bank>>
    PROVE  Ordered(s)'
<1> DEFINE t == wallet[s].next
           w == wallet[s].base
           b == bank[s].base
           G == handed'[s]
           H == handed[s]
<1>1. /\ s \in Session /\ b \in Token /\ w \in Token /\ t \in Token
      /\ H \in SUBSET Token /\ Cardinality(H) \in Nat
      /\ wallet[s] # None
  BY Parts DEF AInv, Extract
<1>2. /\ Ahead(t, w) < WindowSize /\ token' = [token EXCEPT ![c] = t]
      /\ G = H \cup {t}
      /\ wallet' = [wallet EXCEPT ![s].next = (t + 1) % TokenMod]
  BY <1>1 DEF Extract, AInv, Inv, TypeOK
<1>3. G \in SUBSET Token /\ Cardinality(G) \in Nat /\ Cardinality(H) <= Cardinality(G)
  BY <1>1, <1>2, Finite
<1>4. WindowSize \in Nat \ {0} /\ TokenMod \in Nat
  BY TokensAssumption
<1>5. wallet'[s].base = w /\ wallet'[s].next = (t + 1) % TokenMod
  <2>1. wallet[s] \in [base : Token, next : Token]
    BY <1>1, Real DEF AInv, Inv, TypeOK
  <2> QED
    BY <1>1, <1>2, <2>1 DEF AInv, Inv, TypeOK
<1>6. \A e \in Conn : token'[e] = IF e = c THEN t ELSE token[e]
  BY <1>2 DEF AInv, Inv, TypeOK
<1> HIDE DEF t, w, b, G, H
<1>7. CASE Wide(s)
  <2>1. Cardinality(H) >= TokenMod - WindowSize
    BY <1>7 DEF Wide, H
  <2>2. Cardinality(G) >= TokenMod - WindowSize
    BY <1>1, <1>3, <1>4, <2>1
  <2> QED
    BY <2>2 DEF Ordered, Wide, G
<1>8. CASE ~Wide(s)
  <2>1. PICK S \in Token : Arc(s, S)
    BY <1>8 DEF AInv, Arcs, Ordered
  <2> DEFINE T == Ahead(t, S)
             W == Ahead(w, S)
             B == Ahead(b, S)
             K == Cardinality(H)
             L == Cardinality(G)
  <2>2. /\ Gapless(H, S) /\ B <= K /\ W <= B /\ T <= K
    BY <1>1, <2>1 DEF Arc, Filled, Follows, t, w, b, H
  <2>3. T \in Nat /\ W \in Nat /\ B \in Nat /\ K \in Nat /\ L \in Nat
    BY <1>1, <1>3, AheadType
  <2>4. K < TokenMod - WindowSize
    <3>1. ~(K >= TokenMod - WindowSize)
      BY <1>8 DEF Wide, H
    <3> QED
      BY <1>4, <2>3, <3>1
  <2>5. Gapless(G, S) /\ T < L /\ K <= L
    BY <1>1, <1>2, <2>2, Fills
  <2>6. Ahead((t + 1) % TokenMod, S) = T + 1
    <3>1. T + 1 < TokenMod
      BY <1>4, <2>2, <2>3, <2>4
    <3>2. 1 \in Nat
      OBVIOUS
    <3> QED
      BY <1>1, <3>1, <3>2, Moved
  <2>7. T < B + WindowSize
    <3>1. Ahead(t, w) = IF T >= W THEN T - W ELSE T + TokenMod - W
      BY <1>1, Difference
    <3> QED
      BY <1>2, <1>4, <2>2, <2>3, <3>1
  <2> HIDE DEF T, W, B, K, L
  <2>8. B <= L /\ T + 1 <= L
    BY <2>2, <2>3, <2>5
  <2>9. bank'[s].base = b
    BY DEF b
  <2>10. Filled(s, S)'
    BY <2>5, <2>8, <2>9 DEF Filled, G, B, L
  <2>11. Follows(s, S)'
    BY <1>5, <2>2, <2>6, <2>8, <2>9 DEF Follows, G, B, L, W
  <2>12. \A e \in Conn : Concerns(e, s)' => Ahead(reply'[e].window, S) <= B
    BY <2>1 DEF Arc, Travels, Concerns, B, b
  <2>13. ASSUME NEW e \in Conn, mine'[e] = s, token'[e] # NoToken
         PROVE  Ahead(token'[e], S) < B + WindowSize
    <3>1. CASE e = c
      BY <1>6, <2>7, <3>1 DEF T
    <3>2. CASE e # c
      BY <1>6, <2>1, <2>13, <3>2 DEF Arc, Travels, B, b
    <3> QED
      BY <3>1, <3>2
  <2>14. Travels(s, S)'
    BY <2>9, <2>12, <2>13 DEF Travels, B
  <2> QED
    BY <2>10, <2>11, <2>14 DEF Arc, Ordered
<1> QED
  BY <1>7, <1>8

\* A request takes the next token of its session, or none.
LEMMA SendArcs ==
    ASSUME AInv, NEW c \in Conn, Send(c)
    PROVE  Fresh' /\ Arcs'
<1> DEFINE m == mine[c]
<1>1. Inv'
  BY SendInv DEF AInv
<1>2. /\ phase[c] = "made" /\ phase' = [phase EXCEPT ![c] = "sent"]
      /\ Extract(m, c) \/ UNCHANGED <<token, wallet, handed>>
      /\ UNCHANGED <<session, mine, reply, known, bank, spawned>>
  BY DEF Send, proxy
<1> HIDE DEF m
<1>3. CASE UNCHANGED <<token, wallet, handed>>
  <2>1. Fresh'
    BY <1>2, <1>3 DEF AInv, Fresh, Inv, TypeOK
  <2>2. ASSUME NEW s \in known' PROVE Ordered(s)'
    <3>1. SameTraffic(s)
      BY <1>2, <1>3 DEF SameTraffic, Concerns
    <3> QED
      BY <1>1, <1>2, <1>3, <3>1, Untouched
  <2> QED
    BY <2>1, <2>2 DEF Arcs
<1>4. CASE Extract(m, c)
  <2>1. m \in Session /\ m <= spawned
    BY <1>4 DEF Extract, AInv, Inv, TypeOK, Spawned, m
  <2>2. /\ \A s \in Session : s # m => wallet'[s] = wallet[s] /\ handed'[s] = handed[s]
        /\ \A e \in Conn : e # c => token'[e] = token[e]
    BY <1>4, <2>1 DEF Extract, AInv, Inv, TypeOK
  <2>3. Fresh'
    <3>1. \A s \in Session : s > spawned => s # m
      BY <2>1, Constants DEF AInv, Inv, TypeOK
    <3> QED
      BY <1>2, <2>2, <3>1 DEF AInv, Fresh, Inv, TypeOK
  <2>4. ASSUME NEW s \in known' PROVE Ordered(s)'
    <3>1. s \in known /\ s \in Session
      BY <1>2 DEF AInv, Inv, TypeOK
    <3>2. CASE s = m
      BY <1>1, <1>2, <1>4, <3>1, <3>2, ExtractArc DEF m
    <3>3. CASE s # m
      <4>1. SameTraffic(s)
        BY <1>2, <2>2, <3>3 DEF SameTraffic, Concerns, m
      <4> QED
        BY <1>1, <1>2, <2>2, <3>1, <3>3, <4>1, Untouched
    <3> QED
      BY <3>2, <3>3
  <2> QED
    BY <2>3, <2>4 DEF Arcs
<1> QED
  BY <1>2, <1>3, <1>4

\* A lost copy changes neither side.
LEMMA LoseArcs ==
    ASSUME AInv, NEW c \in Conn, Lose(c)
    PROVE  Fresh' /\ Arcs'
<1>1. Inv'
  BY LoseInv DEF AInv
<1>2. UNCHANGED <<phase, wallet, handed, token, mine, reply, known, bank, spawned>>
  BY DEF Lose, proxifier, connection, proxy
<1>3. Fresh'
  BY <1>2 DEF AInv, Fresh
<1>4. ASSUME NEW s \in known' PROVE Ordered(s)'
  <2>1. SameTraffic(s)
    BY <1>2 DEF SameTraffic, Concerns
  <2> QED
    BY <1>1, <1>2, <2>1, Untouched
<1> QED
  BY <1>3, <1>4 DEF Arcs

\* A refusal advertises no window.
LEMMA AuthUnknownArcs ==
    ASSUME AInv, NEW c \in Conn, AuthUnknown(c)
    PROVE  Fresh' /\ Arcs'
<1> DEFINE r == Reply("failure", NoSession, "rejected", NoToken)
<1>1. Inv'
  BY AuthUnknownInv DEF AInv
<1>2. /\ Respond(c, r)
      /\ UNCHANGED <<phase, wallet, handed, token, mine, known, bank, spawned>>
  BY DEF AuthUnknown, proxifier, connection, proxy
<1>3. r.window = NoToken
  BY DEF Reply
<1> HIDE DEF r
<1>4. \A e \in Conn : \/ reply'[e] = reply[e]
                      \/ e = c /\ phase[c] = "sent" /\ reply'[e] = r
  BY <1>2, Responds DEF AInv
<1>5. Fresh'
  BY <1>2, <1>4 DEF AInv, Fresh
<1>6. ASSUME NEW s \in known' PROVE Ordered(s)'
  <2>1. SameTraffic(s)
    BY <1>2, <1>3, <1>4 DEF SameTraffic, Concerns
  <2> QED
    BY <1>1, <1>2, <2>1, Untouched
<1> QED
  BY <1>5, <1>6 DEF Arcs

\* A window of a new session starts where the bank's does; the others are left alone.
LEMMA AuthNewArcs ==
    ASSUME AInv, NEW c \in Conn, AuthNew(c)
    PROVE  Fresh' /\ Arcs'
<1> DEFINE n == spawned + 1
<1>1. Inv'
  BY AuthNewInv DEF AInv
<1>2. /\ mine[c] = NoSession
      /\ UNCHANGED <<phase, wallet, handed, token, mine>>
  BY DEF AuthNew, proxifier, connection
<1>3. spawned \in Nat /\ \A s \in known : s \in Session /\ s <= spawned
  BY TokensAssumption DEF AInv, Inv, TypeOK, Spawned
<1>4. CASE UNCHANGED <<known, bank, spawned>> /\
           Respond(c, Reply("success", NoSession, "absent", NoToken))
  <2> DEFINE r == Reply("success", NoSession, "absent", NoToken)
  <2>1. r.window = NoToken
    BY DEF Reply
  <2> HIDE DEF r
  <2>2. \A e \in Conn : \/ reply'[e] = reply[e]
                        \/ e = c /\ phase[c] = "sent" /\ reply'[e] = r
    BY <1>4, Responds DEF AInv, r
  <2>3. Fresh'
    BY <1>2, <1>4, <2>2 DEF AInv, Fresh
  <2>4. ASSUME NEW s \in known' PROVE Ordered(s)'
    <3>1. SameTraffic(s)
      BY <1>2, <2>1, <2>2 DEF SameTraffic, Concerns
    <3> QED
      BY <1>1, <1>2, <1>4, <3>1, Untouched
  <2> QED
    BY <2>3, <2>4 DEF Arcs
<1>5. ASSUME NEW b \in Starts, n <= MaxSession, spawned' = n, known' = known \cup {n},
             MakeBank(n, b), Respond(c, Reply("success", n, "absent", b))
      PROVE  Fresh' /\ Arcs'
  <2> DEFINE r == Reply("success", n, "absent", b)
  <2>1. r.window = b /\ r.id = n
    BY DEF Reply
  <2>2. n \in Session /\ b \in Token /\ n # NoSession /\ n > spawned
    BY <1>3, <1>5, Constants, TokensAssumption DEF Session, NoSession
  <2>3. bank' = [bank EXCEPT ![n] = [base |-> b, spent |-> {}]]
    BY <1>5 DEF MakeBank
  <2>4. /\ bank'[n].base = b
        /\ \A s \in Session : s # n => bank'[s] = bank[s]
    BY <2>2, <2>3 DEF AInv, Inv, TypeOK
  <2> HIDE DEF r
  <2>5. \A e \in Conn : \/ reply'[e] = reply[e]
                        \/ e = c /\ phase[c] = "sent" /\ reply'[e] = r
    BY <1>5, Responds DEF AInv, r
  <2>6. \A s \in known : s # n
    BY <1>3
  <2>7. \A e \in Conn : mine[e] # n /\ (reply[e] # NoReply => reply[e].id # n)
    <3>1. ASSUME NEW e \in Conn PROVE mine[e] # n
      <4>1. mine[e] \in Nat /\ mine[e] <= spawned
        BY Constants DEF AInv, Inv, TypeOK, Spawned
      <4> QED
        BY <1>3, <4>1
    <3>2. ASSUME NEW e \in Conn, reply[e] # NoReply PROVE reply[e].id # n
      <4>1. reply[e].id <= spawned /\ reply[e] \in Replies
        BY <3>2 DEF AInv, Inv, TypeOK, Spawned
      <4>2. reply[e].id \in Nat
        BY <3>2, <4>1, Constants DEF Replies
      <4> QED
        BY <1>3, <4>1, <4>2
    <3> QED
      BY <3>1, <3>2
  <2>8. wallet[n] = None /\ handed[n] = {}
    BY <2>2 DEF AInv, Fresh
  <2>9. \A s \in Session : s > n => s > spawned
    BY <1>3, Constants
  <2> HIDE DEF n
  <2>10. Fresh'
    BY <1>2, <1>5, <2>5, <2>9 DEF AInv, Fresh
  <2>11. ASSUME NEW s \in known PROVE Ordered(s)'
    <3>1. s # n /\ s \in Session /\ s \in known' /\ mine[c] # s
      BY <1>2, <1>3, <1>5, <2>6, Constants
    <3>2. SameTraffic(s)
      BY <1>2, <2>1, <2>5, <3>1 DEF SameTraffic, Concerns
    <3> QED
      BY <1>1, <1>2, <2>4, <3>1, <3>2, Untouched
  <2>12. ASSUME NEW k \in Session, k = n PROVE Ordered(k)'
    <3>1. Ahead(b, b) = 0
      <4>1. Ahead(b, b) = IF b >= b THEN b - b ELSE b + TokenMod - b
        BY <2>2, AheadIs
      <4>2. b \in Nat
        BY <2>2, Constants
      <4> QED
        BY <4>1, <4>2
    <3>2. Cardinality({}) = 0
      BY FS_EmptySet
    <3>3. Gapless({}, b)
      <4>1. \A x \in Token : ~(Ahead(x, b) < 0)
        BY <2>2, AheadType
      <4> QED
        BY <3>2, <4>1 DEF Gapless
    <3>4. Filled(k, b)'
      BY <1>2, <2>4, <2>8, <2>12, <3>1, <3>2, <3>3 DEF Filled
    <3>5. Follows(k, b)'
      BY <1>2, <2>8, <2>12 DEF Follows
    <3>6. ASSUME NEW e \in Conn, Concerns(e, k)' PROVE reply'[e].window = b
      BY <1>2, <2>1, <2>5, <2>7, <2>12, <3>6 DEF Concerns
    <3>7. \A e \in Conn : Concerns(e, k)' => Ahead(reply'[e].window, b) <= 0
      <4>1. Ahead(b, b) <= 0
        BY <3>1
      <4> QED
        BY <3>6, <4>1
    <3>8. Travels(k, b)'
      BY <1>2, <2>4, <2>7, <2>12, <3>1, <3>7 DEF Travels
    <3> QED
      BY <2>2, <3>4, <3>5, <3>8 DEF Arc, Ordered
  <2> QED
    BY <1>5, <2>2, <2>10, <2>11, <2>12 DEF Arcs
<1>6. \/ /\ UNCHANGED <<known, bank, spawned>>
         /\ Respond(c, Reply("success", NoSession, "absent", NoToken))
      \/ /\ spawned < MaxSession /\ spawned' = n /\ known' = known \cup {n}
         /\ \E b \in Starts : MakeBank(n, b) /\ Respond(c, Reply("success", n, "absent", b))
  BY DEF AuthNew
<1>7. spawned < MaxSession => n <= MaxSession
  BY <1>3, TokensAssumption
<1> QED
  BY <1>4, <1>5, <1>6, <1>7

\* A withdrawal moves the bank's window at most behind the token, which has been
\* handed out: before the session is Wide, no old token passes for a new one.
LEMMA WithdrawArc ==
    ASSUME AInv, Inv', NEW c \in Conn, NEW s \in known, s \in known', mine[c] = s,
           token[c] # NoToken, Good(s, token[c]), Withdraw(s, token[c]),
           SameTraffic(s), UNCHANGED <<wallet, handed>>
    PROVE  Ordered(s)'
<1> DEFINE t == token[c]
           b == bank[s].base
           H == handed[s]
<1>1. /\ s \in Session /\ b \in Token /\ t \in Token /\ t \in H
      /\ H \in SUBSET Token /\ Cardinality(H) \in Nat
  <2>1. t \in Token /\ t \in H
    BY DEF AInv, Inv, TypeOK, TokenOfSession
  <2> QED
    BY <2>1, Parts DEF AInv
<1>2. Ahead(t, b) < WindowSize
  BY DEF Good
<1>3. PICK n \in 0..(Ahead(t, b) + 1) : bank'[s].base = (b + n) % TokenMod
  <2>1. PICK n \in 0..(Ahead(t, b) + 1) :
           bank' = [bank EXCEPT ![s] = [base |-> (@.base + n) % TokenMod,
                                        spent |-> @.spent \cup {t}]]
    BY DEF Withdraw
  <2>2. bank'[s].base = (b + n) % TokenMod
    BY <1>1, <2>1 DEF AInv, Inv, TypeOK
  <2> QED
    BY <2>2
<1>4. WindowSize \in Nat \ {0} /\ TokenMod \in Nat
  BY TokensAssumption
<1> HIDE DEF t, b, H
<1>5. CASE Wide(s)
  BY <1>5 DEF Ordered, Wide
<1>6. CASE ~Wide(s)
  <2>1. PICK S \in Token : Arc(s, S)
    BY <1>6 DEF AInv, Arcs, Ordered
  <2> DEFINE T == Ahead(t, S)
             B == Ahead(b, S)
             K == Cardinality(H)
             d == Ahead(t, b)
  <2>2. B <= K /\ T < K
    BY <1>1, <2>1 DEF Arc, Filled, Gapless, b, H
  <2>3. T \in Nat /\ B \in Nat /\ K \in Nat /\ d \in Nat
    BY <1>1, AheadType
  <2>4. K < TokenMod - WindowSize
    <3>1. ~(K >= TokenMod - WindowSize)
      BY <1>6 DEF Wide, H
    <3> QED
      BY <1>4, <2>3, <3>1
  <2>5. d = IF T >= B THEN T - B ELSE T + TokenMod - B
    BY <1>1, Difference
  <2>6. d < WindowSize /\ n \in Nat /\ n <= d + 1
    BY <1>2, <2>3
  <2> HIDE DEF T, B, K, d
  <2>7. B + n <= K /\ B + n < TokenMod /\ B <= B + n
    BY <1>4, <2>2, <2>3, <2>4, <2>5, <2>6
  <2>8. Ahead((b + n) % TokenMod, S) = B + n
    BY <1>1, <2>6, <2>7, Moved DEF B
  <2>9. /\ Ahead(bank[s].base, S) <= Ahead(bank'[s].base, S)
        /\ Ahead(bank'[s].base, S) <= Cardinality(handed[s])
    BY <1>3, <2>7, <2>8 DEF B, K, b, H
  <2>10. Inv /\ handed'[s] = handed[s] /\ wallet'[s] = wallet[s]
    BY DEF AInv
  <2>11. Arc(s, S)'
    BY <2>1, <2>9, <2>10, ArcKept
  <2> QED
    BY <2>11 DEF Ordered
<1> QED
  BY <1>5, <1>6

\* The reply advertises the window as it was before the withdrawal.
LEMMA AuthKnownArcs ==
    ASSUME AInv, NEW c \in Conn, AuthKnown(c)
    PROVE  Fresh' /\ Arcs'
<1> DEFINE m == mine[c]
           b == bank[m].base
<1>1. Inv'
  BY AuthKnownInv DEF AInv
<1>2. /\ m \in known
      /\ UNCHANGED <<phase, wallet, handed, token, mine, known, spawned>>
      /\ \/ UNCHANGED bank
         \/ token[c] # NoToken /\ Good(m, token[c]) /\ Withdraw(m, token[c])
      /\ \E code \in {"success", "failure"} : Respond(c, Reply(code, NoSession, "ok", b))
  BY DEF AuthKnown, proxifier, connection
<1>3. PICK code \in {"success", "failure"} : Respond(c, Reply(code, NoSession, "ok", b))
  BY <1>2
<1> DEFINE r == Reply(code, NoSession, "ok", b)
<1>4. r.window = b /\ r.id = NoSession
  BY DEF Reply
<1> HIDE DEF r
<1>5. \A e \in Conn : \/ reply'[e] = reply[e]
                      \/ e = c /\ phase[c] = "sent" /\ reply'[e] = r
  BY <1>3, Responds DEF AInv, r
<1>6. Fresh'
  BY <1>2, <1>5 DEF AInv, Fresh
<1>7. \A s \in known : s \in Session /\ s # NoSession
  BY Constants DEF AInv, Inv, TypeOK
<1> HIDE DEF m
<1>8. ASSUME NEW s \in known' PROVE Ordered(s)'
  <2>1. s \in known /\ s \in Session /\ s # NoSession
    BY <1>2, <1>7
  <2>2. SameTraffic(s)
    <3>1. ASSUME NEW e \in Conn, Concerns(e, s)'
          PROVE  \/ Concerns(e, s) /\ reply'[e] = reply[e]
                 \/ reply'[e].window = bank[s].base
      <4>1. CASE reply'[e] = reply[e]
        BY <1>2, <3>1, <4>1 DEF Concerns
      <4>2. CASE e = c /\ reply'[e] = r
        <5>1. mine[c] = s
          BY <1>2, <1>4, <2>1, <3>1, <4>2 DEF Concerns
        <5> QED
          BY <1>4, <4>2, <5>1 DEF m
      <4> QED
        BY <1>5, <4>1, <4>2
    <3> QED
      BY <1>2, <3>1 DEF SameTraffic
  <2>3. CASE bank' = bank
    BY <1>1, <1>2, <2>1, <2>2, <2>3, Untouched
  <2>4. CASE token[c] # NoToken /\ Good(m, token[c]) /\ Withdraw(m, token[c])
    <3>1. CASE s = m
      BY <1>1, <1>2, <2>1, <2>2, <2>4, <3>1, WithdrawArc DEF m
    <3>2. CASE s # m
      <4>1. bank'[s] = bank[s]
        BY <2>1, <2>4, <3>2 DEF Withdraw, AInv, Inv, TypeOK
      <4> QED
        BY <1>1, <1>2, <2>1, <2>2, <4>1, Untouched
    <3> QED
      BY <3>1, <3>2
  <2> QED
    BY <1>2, <2>3, <2>4
<1> QED
  BY <1>6, <1>8 DEF Arcs

\* A wallet that is replaced or updated follows the window in a reply, which is
\* not ahead of the bank's.
LEMMA FollowsReply ==
    ASSUME AInv, Inv', NEW c \in Conn, NEW s \in known, s \in known',
           handed' = handed, bank' = bank, SameTraffic(s), Concerns(c, s),
           \/ wallet'[s] = [base |-> reply[c].window, next |-> reply[c].window]
           \/ wallet[s] # None /\ wallet'[s] = Updated(wallet[s], reply[c].window)
    PROVE  Ordered(s)'
<1> DEFINE x == reply[c].window
           b == bank[s].base
<1>1. CASE Wide(s)
  BY <1>1 DEF Ordered, Wide
<1>2. CASE ~Wide(s)
  <2>1. PICK S \in Token : Arc(s, S)
    BY <1>2 DEF AInv, Arcs, Ordered
  <2> DEFINE K == Cardinality(handed[s])
  <2>2. s \in Session /\ b \in Token /\ x \in Token /\ K \in Nat
    BY Parts DEF AInv
  <2>3. Ahead(x, S) <= Ahead(b, S) /\ Ahead(b, S) <= K
    BY <2>1 DEF Arc, Travels, Filled
  <2>4. Ahead(x, S) \in Nat /\ Ahead(b, S) \in Nat
    BY <2>2, AheadType
  <2>5. Ahead(x, S) <= K /\ Ahead(b, S) <= Ahead(b, S)
    BY <2>2, <2>3, <2>4
  <2>6. wallet[s] # None => /\ Ahead(wallet[s].base, S) <= Ahead(b, S)
                            /\ Ahead(wallet[s].next, S) <= K
    BY <2>1 DEF Arc, Follows
  <2> HIDE DEF x, b, K
  <2>7. Ahead(wallet'[s].base, S) <= Ahead(b, S) /\ Ahead(wallet'[s].next, S) <= K
    <3>1. CASE wallet'[s] = [base |-> x, next |-> x]
      <4>1. wallet'[s].base = x /\ wallet'[s].next = x
        BY <3>1
      <4> QED
        BY <2>3, <2>5, <4>1
    <3>2. CASE wallet[s] # None /\ wallet'[s] = Updated(wallet[s], x)
      <4>1. \/ wallet'[s] = wallet[s]
            \/ /\ wallet'[s].base = x
               /\ wallet'[s].next = x \/ wallet'[s].next = wallet[s].next
        BY <3>2 DEF Updated
      <4> QED
        BY <2>3, <2>5, <2>6, <3>2, <4>1
    <3> QED
      BY <3>1, <3>2 DEF x
  <2>8. Follows(s, S)'
    BY <2>7 DEF Follows, b, K
  <2>9. Inv
    BY DEF AInv
  <2>10. Arc(s, S)'
    BY <2>1, <2>3, <2>5, <2>8, <2>9, ArcKept DEF b, K
  <2> QED
    BY <2>10 DEF Ordered
<1> QED
  BY <1>1, <1>2

\* A wallet for a new session, filled from the window in the reply.
LEMMA ReceiveNewArcs ==
    ASSUME AInv, NEW c \in Conn, ReceiveNew(c)
    PROVE  Fresh' /\ Arcs'
<1> DEFINE i == reply[c].id
           w == [base |-> reply[c].window, next |-> reply[c].window]
<1>1. Inv'
  BY ReceiveNewInv DEF AInv
<1>2. /\ reply[c].code = "success"
      /\ wallet' = IF asks[c] /\ i # NoSession THEN [wallet EXCEPT ![i] = w] ELSE wallet
      /\ phase' = [phase EXCEPT ![c] = "over"]
      /\ reply' = [reply EXCEPT ![c] = NoReply]
      /\ UNCHANGED <<handed, mine, token, known, bank, spawned>>
  BY DEF ReceiveNew, proxy
<1>3. reply[c] # NoReply
  BY <1>2 DEF NoReply
<1>4. i \in Session \cup {NoSession} /\ i <= spawned
  <2>1. reply[c] \in Replies /\ i <= spawned
    BY <1>3 DEF AInv, Inv, TypeOK, Spawned
  <2> QED
    BY <1>3, <2>1 DEF Replies
<1>5. \A e \in Conn : reply'[e] = IF e = c THEN NoReply ELSE reply[e]
  BY <1>2 DEF AInv, Inv, TypeOK
<1>6. \A s \in Session : wallet'[s] = wallet[s] \/ (s = i /\ i # NoSession /\ wallet'[s] = w)
  BY <1>2 DEF AInv, Inv, TypeOK
<1>7. i # NoSession => reply[c].window # NoToken
  BY <1>3 DEF AInv, Inv, Spawned
<1> HIDE DEF i
<1>8. Fresh'
  <2>1. \A s \in Session : s > spawned => s # i
    BY <1>4, Constants DEF AInv, Inv, TypeOK
  <2>2. \A s \in Session : s > spawned => wallet'[s] = wallet[s]
    BY <1>6, <2>1
  <2>3. \A e \in Conn : phase'[e] \in {"none", "made"} => reply'[e] = NoReply
    BY <1>2, <1>5 DEF AInv, Fresh, Inv, TypeOK
  <2> QED
    BY <1>2, <2>2, <2>3 DEF AInv, Fresh
<1>9. ASSUME NEW s \in known' PROVE Ordered(s)'
  <2>1. s \in known /\ s \in Session
    BY <1>2 DEF AInv, Inv, TypeOK
  <2>2. SameTraffic(s)
    BY <1>2, <1>5 DEF SameTraffic, Concerns
  <2>3. CASE wallet'[s] = wallet[s]
    BY <1>1, <1>2, <2>1, <2>2, <2>3, Untouched
  <2>4. CASE s = i /\ i # NoSession /\ wallet'[s] = w
    <3>1. Concerns(c, s)
      BY <1>3, <1>7, <2>4 DEF Concerns, i
    <3> QED
      BY <1>1, <1>2, <2>1, <2>2, <2>4, <3>1, FollowsReply
  <2> QED
    BY <1>6, <2>1, <2>3, <2>4
<1> QED
  BY <1>8, <1>9 DEF Arcs

\* A wallet that follows the window in the reply, if there is one.
LEMMA ReceiveKnownArcs ==
    ASSUME AInv, NEW c \in Conn, ReceiveKnown(c)
    PROVE  Fresh' /\ Arcs'
<1> DEFINE m == mine[c]
           x == reply[c].window
<1>1. Inv'
  BY ReceiveKnownInv DEF AInv
<1>2. /\ reply[c] # NoReply /\ m # NoSession
      /\ wallet' = IF wallet[m] # None /\ x # NoToken
                   THEN [wallet EXCEPT ![m] = Updated(wallet[m], x)] ELSE wallet
      /\ phase' = [phase EXCEPT ![c] = "over"]
      /\ reply' = [reply EXCEPT ![c] = NoReply]
      /\ UNCHANGED <<handed, mine, token, known, bank, spawned>>
  BY DEF ReceiveKnown, UpdateWallet, proxy
<1>3. m \in Session /\ m <= spawned
  BY <1>2 DEF AInv, Inv, TypeOK, Spawned
<1>4. \A e \in Conn : reply'[e] = IF e = c THEN NoReply ELSE reply[e]
  BY <1>2 DEF AInv, Inv, TypeOK
<1>5. \A s \in Session :
         \/ wallet'[s] = wallet[s]
         \/ s = m /\ wallet[s] # None /\ x # NoToken /\ wallet'[s] = Updated(wallet[s], x)
  BY <1>2, <1>3 DEF AInv, Inv, TypeOK
<1> HIDE DEF m
<1>6. Fresh'
  <2>1. \A s \in Session : s > spawned => s # m
    BY <1>3, Constants DEF AInv, Inv, TypeOK
  <2>2. \A s \in Session : s > spawned => wallet'[s] = wallet[s]
    BY <1>5, <2>1
  <2>3. \A e \in Conn : phase'[e] \in {"none", "made"} => reply'[e] = NoReply
    BY <1>2, <1>4 DEF AInv, Fresh, Inv, TypeOK
  <2> QED
    BY <1>2, <2>2, <2>3 DEF AInv, Fresh
<1>7. ASSUME NEW s \in known' PROVE Ordered(s)'
  <2>1. s \in known /\ s \in Session
    BY <1>2 DEF AInv, Inv, TypeOK
  <2>2. SameTraffic(s)
    BY <1>2, <1>4 DEF SameTraffic, Concerns
  <2>3. CASE wallet'[s] = wallet[s]
    BY <1>1, <1>2, <2>1, <2>2, <2>3, Untouched
  <2>4. CASE s = m /\ wallet[s] # None /\ x # NoToken /\ wallet'[s] = Updated(wallet[s], x)
    <3>1. Concerns(c, s)
      BY <1>2, <2>4 DEF Concerns, m
    <3> QED
      BY <1>1, <1>2, <2>1, <2>2, <2>4, <3>1, FollowsReply
  <2> QED
    BY <1>5, <2>1, <2>3, <2>4
<1> QED
  BY <1>6, <1>7 DEF Arcs

\* A reply that is lost with its connection.
LEMMA BreakArcs ==
    ASSUME AInv, NEW c \in Conn, Break(c)
    PROVE  Fresh' /\ Arcs'
<1>1. Inv'
  BY BreakInv DEF AInv
<1>2. /\ phase' = [phase EXCEPT ![c] = "over"]
      /\ reply' = [reply EXCEPT ![c] = NoReply]
      /\ UNCHANGED <<wallet, handed, mine, token, known, bank, spawned>>
  BY DEF Break, proxy
<1>3. \A e \in Conn : reply'[e] = IF e = c THEN NoReply ELSE reply[e]
  BY <1>2 DEF AInv, Inv, TypeOK
<1>4. Fresh'
  BY <1>2, <1>3 DEF AInv, Fresh, Inv, TypeOK
<1>5. ASSUME NEW s \in known' PROVE Ordered(s)'
  <2>1. SameTraffic(s)
    BY <1>2, <1>3 DEF SameTraffic, Concerns
  <2> QED
    BY <1>1, <1>2, <2>1, Untouched
<1> QED
  BY <1>4, <1>5 DEF Arcs

\* A restarted proxy knows no session.
LEMMA RestartArcs == AInv /\ Restart => Fresh' /\ Arcs'
BY DEF AInv, Restart, proxifier, connection, Fresh, Arcs

\* Every step keeps the arcs.
LEMMA NextArcs == AInv /\ [Next]_vars => AInv'
<1> SUFFICES ASSUME AInv, [Next]_vars PROVE AInv'
  OBVIOUS
<1>1. Inv'
  BY NextInv DEF AInv
<1>2. CASE UNCHANGED vars
  <2>1. UNCHANGED <<phase, wallet, handed, token, mine, reply, known, bank, spawned>>
    BY <1>2 DEF vars, proxifier, connection, proxy
  <2>2. Fresh'
    BY <2>1 DEF AInv, Fresh
  <2>3. ASSUME NEW s \in known' PROVE Ordered(s)'
    <3>1. SameTraffic(s)
      BY <2>1 DEF SameTraffic, Concerns
    <3> QED
      BY <1>1, <2>1, <3>1, Untouched
  <2> QED
    BY <1>1, <2>2, <2>3 DEF AInv, Arcs
<1>3. CASE Next
  <2>1. Fresh' /\ Arcs'
    BY <1>3, MakeArcs, SendArcs, LoseArcs, AuthUnknownArcs, AuthNewArcs, AuthKnownArcs,
       ReceiveNewArcs, ReceiveKnownArcs, BreakArcs, RestartArcs DEF Next
  <2> QED
    BY <1>1, <2>1 DEF AInv
<1> QED
  BY <1>2, <1>3

\* On an arc no token is further ahead of the bank than its window, unless it is
\* behind it.
LEMMA ArcsNeverAhead == AInv => NeverAhead
<1> SUFFICES ASSUME AInv, NEW c \in Conn, token[c] # NoToken, mine[c] \in known
             PROVE  \/ Ahead(token[c], bank[mine[c]].base) < WindowSize
                    \/ Ahead(token[c], bank[mine[c]].base) >= TokenMod - Cardinality(handed[mine[c]])
  BY DEF NeverAhead
<1> DEFINE s == mine[c]
           t == token[c]
           b == bank[s].base
           K == Cardinality(handed[s])
           d == Ahead(t, b)
<1>1. t \in Token /\ b \in Token /\ s \in Session /\ K \in Nat
  <2>1. t \in Token
    BY DEF AInv, Inv, TypeOK
  <2> QED
    BY <2>1, Parts DEF AInv
<1>2. d \in Nat /\ WindowSize \in Nat /\ TokenMod \in Nat
  BY <1>1, AheadType, TokensAssumption
<1>3. CASE Wide(s)
  <2>1. K >= TokenMod - WindowSize
    BY <1>3 DEF Wide
  <2> HIDE DEF d, K
  <2>2. d < WindowSize \/ d >= TokenMod - K
    BY <1>1, <1>2, <2>1
  <2> QED
    BY <2>2 DEF d, K
<1>4. CASE ~Wide(s)
  <2>1. PICK S \in Token : Arc(s, S)
    BY <1>4 DEF AInv, Arcs, Ordered
  <2> DEFINE T == Ahead(t, S)
             B == Ahead(b, S)
  <2>2. T < B + WindowSize /\ B <= K
    BY <2>1 DEF Arc, Travels, Filled
  <2>3. T \in Nat /\ B \in Nat
    BY <1>1, AheadType
  <2>4. d = IF T >= B THEN T - B ELSE T + TokenMod - B
    BY <1>1, Difference
  <2> HIDE DEF d, K, T, B
  <2>5. d < WindowSize \/ d >= TokenMod - K
    BY <1>1, <1>2, <2>2, <2>3, <2>4
  <2> QED
    BY <2>5 DEF d, K
<1> QED
  BY <1>3, <1>4

(***************************************************************************)
(* clientsession.hh:15-40, proxifierdownstreamer.cc:36-43: a token that a  *)
(* wallet hands out is one that the bank has already, in whatever order    *)
(* replies come, also where numbers wrap around, for any window and any    *)
(* number of tokens.                                                       *)
(***************************************************************************)
THEOREM TokensNeverAhead == Spec => []NeverAhead
<1>1. Init => AInv
  <2>1. Init => Fresh /\ Arcs
    BY DEF Init, Fresh, Arcs
  <2> QED
    BY <2>1, InitInv DEF AInv
<1> QED
  BY <1>1, NextArcs, ArcsNeverAhead, PTL DEF Spec

=============================================================================
